--------------------------- MODULE MCAgentProcess ---------------------------
(* The environments and command lines TLC starts the agent with: each mode *)
(* with good settings, and every one of its settings in turn left out,     *)
(* blank and unreadable.                                                   *)
EXTENDS AgentProcess

Plain ==
    [mode |-> Unset, url |-> "u", name |-> "n", group |-> "g", token |-> "t",
     probe_port |-> Unset, advertise |-> Unset, ros_host |-> Unset,
     ros_user |-> Unset, ros_pass |-> Unset, ros_tls |-> Unset,
     ros_port |-> Unset, heartbeat |-> Unset, poll |-> Unset,
     twamp_port |-> Unset, twamp_peers |-> {}, session |-> Unset,
     peer_ip |-> Unset, peer |-> Unset, peer_port |-> Unset, count |-> Unset,
     interval_ms |-> Unset, size |-> Unset, dscp |-> Unset, timeout_ms |-> Unset,
     codec |-> Unset, json |-> Unset, loose |-> {}]

Managed == [Plain EXCEPT !.ros_host = "h", !.ros_user = "u", !.ros_pass = "p",
                         !.ros_tls = TRUE, !.twamp_port = 862,
                         !.twamp_peers = {"a"}, !.advertise = "x"]

Reflect == [Plain EXCEPT !.mode = "reflect", !.peer_ip = "a", !.twamp_port = 862,
                         !.twamp_peers = {"a", "b"}, !.session = 7]

Probe == [Plain EXCEPT !.mode = "probe", !.peer = "a", !.probe_port = 9,
                       !.session = 7, !.count = 5, !.interval_ms = 10, !.size = 100,
                       !.dscp = 46, !.timeout_ms = 500, !.codec = "opus",
                       !.json = TRUE]

TwampOnly == [Plain EXCEPT !.mode = "twamp-reflect", !.twamp_port = 9,
                           !.twamp_peers = {"a"}]

(* What may become of one setting.                                         *)
Spoiled(e) ==
    {[e EXCEPT ![f] = v] : f \in DOMAIN e \ {"twamp_peers", "loose"},
                           v \in {Unset, Empty, Bad}}
    \union {[e EXCEPT !.twamp_peers = l] : l \in {{}, {"a", Empty}, {"a", Bad}}}
    \union {[e EXCEPT !.loose = {f}] :
              f \in {g \in Settings \ {"peer_port"} : e[g] # Unset}}

Environments ==
    UNION {Spoiled(e) : e \in {Managed, Reflect, Probe, TwampOnly}}
    \union {Plain, [Plain EXCEPT !.mode = "agent"],
            [Probe EXCEPT !.dscp = 64], [Probe EXCEPT !.codec = "mp3"],
            [Probe EXCEPT !.peer_port = 7]}

Args ==
    [port |-> Unset, session |-> Unset, peer |-> Unset, peer_port |-> Unset,
     twamp_port |-> Unset, peers |-> {}, count |-> Unset, interval |-> Unset,
     size |-> Unset, dscp |-> Unset, timeout |-> Unset, codec |-> Unset,
     json |-> FALSE, host |-> "h", tls |-> FALSE, target |-> Unset,
     duration |-> Unset, direction |-> Unset, protocol |-> Unset,
     connections |-> Unset, limit |-> Unset]

CommandLines ==
    {[sub |-> s, args |-> a] :
        s \in {"reflect", "twamp-reflect", "twamp-probe", "btest", "capture",
               "trace", "scan", "discover", "help", Bad},
        a \in {Args, [Args EXCEPT !.target = "t", !.peer = "a"],
               [Args EXCEPT !.target = "t", !.direction = "up", !.codec = "mp3"],
               [Args EXCEPT !.target = "t", !.peer = "a", !.limit = Bad],
               [Args EXCEPT !.host = Unset, !.twamp_port = Empty, !.dscp = 64]}}

(* With a sub-command the environment's settings are not looked at.        *)
MCStarts ==
    [env : Environments, argv : {[sub |-> Unset, args |-> Args]}]
    \union [env : {Plain}, argv : CommandLines]
=============================================================================
