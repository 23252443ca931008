---------------------------- MODULE CommandLine -----------------------------
(***************************************************************************)
(* What the agent makes of its environment and its arguments:              *)
(* agent/src/config.rs and the parsing half of agent/src/cli.rs.           *)
(*                                                                         *)
(* A setting is Unset, Empty (set to nothing or to spaces), Bad (text that *)
(* does not parse as what is wanted) or a value, and may be loose: a value *)
(* with spaces around it, or a mode in capitals.  Where the code does not  *)
(* trim, what is loose does not parse.  Bad in any field of what a parser  *)
(* builds stands for the error the code returns there.                     *)
(*                                                                         *)
(* Text taken as it comes, whatever it is (names and passwords of routers, *)
(* the interface to capture on), is left out, and so are the flags of the  *)
(* router tools.                                                           *)
(***************************************************************************)
EXTENDS Integers, FiniteSets

CONSTANTS Unset, Empty, Bad

ASSUME ReadingAssumption == Unset # Empty /\ Unset # Bad /\ Empty # Bad

DEFAULT_PROBE_PORT == 5301
TWAMP_PORT == 862
MQP_PACKET_LEN == 172
TWAMP_PACKET_LEN == 41

(* The two ways a number is read: the environment forgives a variable set  *)
(* to nothing, the command line does not.                                  *)
Given(v) == v \notin {Unset, Empty}

parse_or(v, default) == IF Given(v) THEN v ELSE default

num(v, default) == IF v = Unset THEN default ELSE IF v = Empty THEN Bad ELSE v

required(v) == IF Given(v) THEN v ELSE Bad

(* A setting that may be left out; Unset stands for None.                  *)
optional(v) == parse_or(v, Unset)

parse_bool(v, default) == IF v \in BOOLEAN THEN v ELSE default

(* A list is refused for one bad entry; entries of nothing are skipped.    *)
IpList(entries) == IF Bad \in entries THEN Bad ELSE entries \ {Empty}

(* Whether a parser that built this returns it, or an error.               *)
Built(record) == \A f \in DOMAIN record : record[f] # Bad

OrBad(record) == IF Built(record) THEN record ELSE Bad

-----------------------------------------------------------------------------
(* Config::from_source.                                                    *)
(* All of it or none of it; a password may be empty but must be set.       *)
routeros_from(env) ==
    LET use_tls == parse_bool(env.ros_tls, FALSE)
    IN  IF ~Given(env.ros_host) THEN Unset
        ELSE OrBad([host |-> env.ros_host,
                    username |-> required(env.ros_user),
                    password |-> IF env.ros_pass = Unset THEN Bad
                                 ELSE env.ros_pass,
                    use_tls |-> use_tls,
                    port |-> parse_or(env.ros_port,
                                      IF use_tls THEN 8729 ELSE 8728)])

(* The spool's three bounds are read as the intervals are; the state       *)
(* directory and the log filter are taken as they come.                    *)
from_source(env) ==
    OrBad([controller_url |-> required(env.url), name |-> required(env.name),
           group |-> required(env.group), token |-> required(env.token),
           probe_port |-> parse_or(env.probe_port, DEFAULT_PROBE_PORT),
           advertise_addr |-> optional(env.advertise),
           routeros |-> routeros_from(env),
           heartbeat_secs |-> parse_or(env.heartbeat, 30),
           poll_secs |-> parse_or(env.poll, 10),
           twamp_port |-> optional(env.twamp_port),
           twamp_peers |-> IpList(env.twamp_peers)])

-----------------------------------------------------------------------------
(* A standalone command, from the environment.                             *)
dscp_in_range(v) == IF v \in Nat /\ v > 63 THEN Bad ELSE v

session_id(v) == num(v, 1)

(* A word of a list, the first by default.                                 *)
word(v, default, allowed) ==
    IF v = Unset THEN default ELSE IF v \in allowed THEN v ELSE Bad

codec(v) == word(v, "g711", {"g711", "g711plc", "g729", "g722", "opus"})

(* A peer is an address and the port written with it; where none is        *)
(* written, the port is the default one.                                   *)
peer_at(ip, written, default) ==
    LET port == IF written = Unset THEN default ELSE written
    IN  IF ip \in {Unset, Empty, Bad} \/ port \in {Empty, Bad} THEN Bad
        ELSE [ip |-> ip, port |-> port]

(* How a probe is paced, framed and scored.                                *)
pacing(count, interval, size, len, timeout, name) ==
    OrBad([count |-> num(count, 100), interval_ms |-> num(interval, 20),
           size |-> num(size, len), timeout_ms |-> num(timeout, 1000),
           codec |-> codec(name)])

ReflectArgs(port, session, peer, twamp_port, twamp_peers) ==
    OrBad([command |-> "reflect", port |-> port, session |-> session,
           peer |-> peer, twamp_port |-> twamp_port, twamp_peers |-> twamp_peers])

ProbeArgs(peer, session, pace, dscp, json) ==
    OrBad([command |-> "probe", peer |-> peer, session |-> session,
           pace |-> pace, dscp |-> dscp, json |-> json])

TwampReflectArgs(port, peers) ==
    OrBad([command |-> "twamp-reflect", port |-> port, peers |-> peers])

Agent == [command |-> "agent"]

(* A setting that is read without trimming.                                *)
Raw(env, f) == IF f \in env.loose THEN Bad ELSE env[f]

probe_port(env) == num(Raw(env, "probe_port"), DEFAULT_PROBE_PORT)

(* Mutation: the allow-list is not read in reflect mode.                   *)
reflect_env_NoPeers(env) ==
    ReflectArgs(probe_port(env), session_id(env.session), optional(env.peer_ip),
                optional(env.twamp_port), {})

reflect_env(env) ==
    ReflectArgs(probe_port(env), session_id(env.session), optional(env.peer_ip),
                optional(env.twamp_port), IpList(env.twamp_peers))

(* The numbers of a probe, its codec and the port of the mode itself are   *)
(* not trimmed; the mode, the session, the DSCP, addresses, the list and   *)
(* the port of the responder beside another are.                           *)
from_env(env) ==
    CASE env.mode = Unset \/ env.mode = "agent" -> Agent
      [] env.mode = "reflect" -> reflect_env(env)
      [] env.mode = "probe" ->
            ProbeArgs(peer_at(env.peer, env.peer_port, probe_port(env)),
                      session_id(env.session),
                      pacing(Raw(env, "count"), Raw(env, "interval_ms"),
                             Raw(env, "size"), MQP_PACKET_LEN,
                             Raw(env, "timeout_ms"), Raw(env, "codec")),
                      dscp_in_range(optional(env.dscp)), env.json = TRUE)
      [] env.mode = "twamp-reflect" ->
            TwampReflectArgs(num(Raw(env, "twamp_port"), TWAMP_PORT),
                             IpList(env.twamp_peers))
      [] OTHER -> Bad

(* The same from the arguments, where an option given must have a value    *)
(* and nothing is trimmed.                                                 *)
option(v) == num(v, Unset)

options_list(entries) == IF {Bad, Empty} \cap entries # {} THEN Bad ELSE entries

ros_args(args) ==
    OrBad([host |-> IF args.host = Unset THEN Bad ELSE args.host,
           port |-> num(args.port, IF args.tls THEN 443 ELSE 80),
           tls |-> args.tls])

parse(argv) ==
    LET a == argv.args
        sub == argv.sub
        pace(len) == pacing(a.count, a.interval, a.size, len, a.timeout, a.codec)
        given(v) == IF v = Unset THEN Bad ELSE v
        tool(fields) == IF Built(fields) /\ ros_args(a) # Bad
                        THEN [command |-> sub, ros |-> ros_args(a), tool |-> fields]
                        ELSE Bad
    IN  CASE sub = Unset -> Agent
          [] sub = "help" -> [command |-> "help"]
          [] sub = "reflect" ->
                ReflectArgs(num(a.port, DEFAULT_PROBE_PORT), session_id(a.session),
                            option(a.peer), option(a.twamp_port),
                            options_list(a.peers))
          [] sub = "probe" ->
                ProbeArgs(peer_at(a.peer, a.peer_port, DEFAULT_PROBE_PORT),
                          session_id(a.session), pace(MQP_PACKET_LEN),
                          dscp_in_range(option(a.dscp)), a.json)
          [] sub = "twamp-reflect" ->
                TwampReflectArgs(num(a.port, TWAMP_PORT), options_list(a.peers))
          [] sub = "twamp-probe" ->
                OrBad([command |-> sub,
                       peer |-> peer_at(a.peer, a.peer_port, TWAMP_PORT),
                       pace |-> pace(TWAMP_PACKET_LEN),
                       dscp |-> dscp_in_range(option(a.dscp)), json |-> a.json])
          [] sub = "btest" ->
                tool([target |-> given(a.target), duration_s |-> num(a.duration, 10),
                      direction |-> word(a.direction, "rx", {"rx", "tx", "both"}),
                      protocol |-> word(a.protocol, "tcp", {"tcp", "udp"}),
                      connections |-> option(a.connections),
                      limit_bps |-> option(a.limit)])
          [] sub = "capture" -> tool([duration_s |-> num(a.duration, 10)])
          [] sub = "trace" ->
                tool([target |-> given(a.target), count |-> num(a.count, 3)])
          [] sub = "scan" ->
                tool([range |-> given(a.target), duration_s |-> num(a.duration, 10)])
          [] sub = "discover" -> tool([x \in {} |-> Bad])
          [] OTHER -> Bad
=============================================================================
