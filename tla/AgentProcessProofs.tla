------------------------- MODULE AgentProcessProofs -------------------------
(***************************************************************************)
(* The life of the process for any environments and arguments, and what    *)
(* its settings mean however they are given.                               *)
(***************************************************************************)
EXTENDS AgentProcess, TLAPS

(* The values the process's state may take.                                *)
TypeOK ==
    /\ phase \in {"start", "config", "bind", "twamp", "enrol", "enrolled", "spawned",
                  "managed", "standalone", "serving", "stopping", "over"}
    /\ mqp \in {"closed", "serving", "stopped"}
    /\ twamp \in {"closed", "serving", "stopped"}
    /\ loop \in {"none", "running", "flushed", "dead"}
    /\ listening \in BOOLEAN /\ installed \in BOOLEAN
    /\ heard \in BOOLEAN /\ told \in BOOLEAN
    /\ exit \in {"running", "0", "1", "2", "killed"}

(* The process is over when it has ended, tasks are told to stop only on   *)
(* the way there, and only a managed agent has a configuration.            *)
PhasesInOrder ==
    /\ phase = "over" <=> exit # "running"
    /\ told => phase \in {"stopping", "over"}
    /\ phase \in {"start", "config", "standalone", "serving"} => cfg = Unset

(* A managed agent's reflector serves until it is told to stop.            *)
ReflectorUp ==
    /\ phase \in {"twamp", "enrol", "enrolled", "spawned", "managed"} => mqp = "serving"
    /\ phase = "stopping" /\ cfg # Unset => mqp \in {"serving", "stopped"}

(* The process never changes what it was started with.                     *)
AsStarted == \E s \in Starts : env = s.env /\ argv = s.argv

IInv == TypeOK /\ PhasesInOrder /\ ReflectorUp /\ AsStarted /\ PeersServedAndFlushed

-----------------------------------------------------------------------------
(* The process starts within the invariant.                                *)
LEMMA InitIInv == Init => IInv
  BY DEF Init, IInv, TypeOK, PhasesInOrder, ReflectorUp, AsStarted,
         PeersServedAndFlushed

(* Every step keeps it.                                                    *)
LEMMA NextIInv == IInv /\ [Next]_vars => IInv'
<1> SUFFICES ASSUME IInv, [Next]_vars PROVE IInv'
  OBVIOUS
<1>0. AsStarted'
  BY DEF IInv, AsStarted, Next, vars, rest, Choose, ReadConfig, BindReflector, BindTwamp,
    Enrolled, EnrolRefused, StoppedEnrolling, SpawnLoop, Listen, Obey, LoopStops,
    LoopDies, RespondersStop, Finish, run_reflect, StopServing, RunOnce, Signal, Over
<1> USE DEF IInv, TypeOK, PhasesInOrder, ReflectorUp, PeersServedAndFlushed, rest,
            tasks, signals, Ends, Alive
<1>1. CASE Choose
  BY <1>0, <1>1 DEF Choose
<1>2. CASE ReadConfig
  BY <1>0, <1>2 DEF ReadConfig
<1>3. CASE BindReflector
  BY <1>0, <1>3 DEF BindReflector
<1>4. CASE BindTwamp
  BY <1>0, <1>4 DEF BindTwamp
<1>5. CASE Enrolled
  BY <1>0, <1>5 DEF Enrolled
<1>6. CASE EnrolRefused
  BY <1>0, <1>6 DEF EnrolRefused
<1>7. CASE StoppedEnrolling
  BY <1>0, <1>7 DEF StoppedEnrolling
<1>8. CASE SpawnLoop
  BY <1>0, <1>8 DEF SpawnLoop
<1>9. CASE Listen
  BY <1>0, <1>9 DEF Listen
<1>10. CASE Obey
  BY <1>0, <1>10 DEF Obey
<1>11. CASE LoopStops
  BY <1>0, <1>11 DEF LoopStops
<1>12. CASE LoopDies
  BY <1>0, <1>12 DEF LoopDies
<1>13. CASE RespondersStop
  BY <1>0, <1>13 DEF RespondersStop
<1>14. CASE Finish
  BY <1>0, <1>14 DEF Finish
<1>15. CASE run_reflect
  BY <1>0, <1>15 DEF run_reflect
<1>16. CASE StopServing
  BY <1>0, <1>16 DEF StopServing
<1>17. CASE RunOnce
  BY <1>0, <1>17 DEF RunOnce
<1>18. CASE Signal
  <2>1. /\ exit = "running" /\ heard' \in {heard, TRUE}
        /\ UNCHANGED <<phase, exit>> \/ Ends("killed")
        /\ UNCHANGED <<cfg, mqp, twamp, loop, listening, installed, told>>
    BY <1>18 DEF Signal
  <2>2. heard' \in BOOLEAN
    BY <2>1
  <2>3. CASE UNCHANGED <<phase, exit>>
    BY <1>0, <2>1, <2>2, <2>3
  <2>4. CASE Ends("killed")
    BY <1>0, <2>1, <2>2, <2>4
  <2> QED  BY <2>1, <2>3, <2>4
<1>19. CASE Over \/ UNCHANGED vars
  BY <1>0, <1>19 DEF Over, vars
<1> QED  BY <1>1, <1>2, <1>3, <1>4, <1>5, <1>6, <1>7, <1>8, <1>9, <1>10, <1>11, <1>12,
            <1>13, <1>14, <1>15, <1>16, <1>17, <1>18, <1>19 DEF Next

(* Every reachable state of the process satisfies the invariant.           *)
THEOREM ProcessInvariance == Spec => []IInv
<1> QED  BY InitIInv, NextIInv, PTL DEF Spec

(* Peers are answered for as long as the agent enrols and is managed, and  *)
(* a process that ends well has let its loop flush (run).                  *)
THEOREM PeersAreServedAndFlushed == Spec => []PeersServedAndFlushed
<1>1. IInv => PeersServedAndFlushed
  BY DEF IInv
<1> QED  BY <1>1, ProcessInvariance, PTL

-----------------------------------------------------------------------------
(* A setting that the command line reads reads the same from the           *)
(* environment.                                                            *)
LEMMA OptionIsOptional ==
  ASSUME NEW v, v # Empty \/ option(v) # Bad
  PROVE  option(v) = optional(v)
  BY DEF option, optional, num, parse_or, Given

(* So does a list.                                                         *)
LEMMA ListsAgree ==
  ASSUME NEW entries, Empty \notin entries \/ options_list(entries) # Bad
  PROVE  options_list(entries) = IpList(entries)
<1>1. CASE Bad \in entries
  BY <1>1 DEF options_list, IpList
<1>2. CASE Bad \notin entries /\ Empty \notin entries
  <2>1. entries \ {Empty} = entries /\ {Bad, Empty} \cap entries = {}
    BY <1>2
  <2> QED  BY <1>2, <2>1 DEF options_list, IpList
<1>3. CASE Bad \notin entries /\ Empty \in entries
  <2>1. {Bad, Empty} \cap entries # {}
    BY <1>3
  <2> QED  BY <1>3, <2>1 DEF options_list
<1> QED  BY <1>1, <1>2, <1>3

(* Of what does not parse, nothing is made.                                *)
LEMMA BadStaysBad ==
  /\ option(Bad) = Bad /\ session_id(Bad) = Bad /\ dscp_in_range(Bad) = Bad
  /\ options_list({Bad}) = Bad
  /\ \A written, default : peer_at(Bad, written, default) = Bad
<1>1. option(Bad) = Bad /\ session_id(Bad) = Bad
  BY ReadingAssumption DEF option, session_id, num
<1>2. dscp_in_range(Bad) = Bad
  BY DEF dscp_in_range
<1>3. {Bad, Empty} \cap {Bad} # {}
  OBVIOUS
<1>4. options_list({Bad}) = Bad
  BY <1>3 DEF options_list
<1>5. \A written, default : peer_at(Bad, written, default) = Bad
  BY DEF peer_at
<1> QED  BY <1>1, <1>2, <1>4, <1>5

(* A command that is not refused has no part that is.                      *)
LEMMA PartsAreGood ==
  /\ \A p, s, r, t, l : ReflectArgs(p, s, r, t, l) # Bad =>
        s # Bad /\ r # Bad /\ t # Bad /\ l # Bad
  /\ \A p, s, c, d, j : ProbeArgs(p, s, c, d, j) # Bad =>
        p # Bad /\ s # Bad /\ d # Bad
  /\ \A p, l : TwampReflectArgs(p, l) # Bad => l # Bad
<1>1. ASSUME NEW p, NEW s, NEW r, NEW t, NEW l, ReflectArgs(p, s, r, t, l) # Bad
      PROVE  s # Bad /\ r # Bad /\ t # Bad /\ l # Bad
  <2> DEFINE x == [command |-> "reflect", port |-> p, session |-> s, peer |-> r,
                   twamp_port |-> t, twamp_peers |-> l]
  <2>1. Built(x)
    BY <1>1 DEF ReflectArgs, OrBad
  <2>2. x["session"] # Bad /\ x["peer"] # Bad /\ x["twamp_port"] # Bad
        /\ x["twamp_peers"] # Bad
    BY <2>1 DEF Built
  <2> QED  BY <2>2
<1>2. ASSUME NEW p, NEW s, NEW c, NEW d, NEW j, ProbeArgs(p, s, c, d, j) # Bad
      PROVE  p # Bad /\ s # Bad /\ d # Bad
  <2> DEFINE x == [command |-> "probe", peer |-> p, session |-> s, pace |-> c,
                   dscp |-> d, json |-> j]
  <2>1. Built(x)
    BY <1>2 DEF ProbeArgs, OrBad
  <2>2. x["peer"] # Bad /\ x["session"] # Bad /\ x["dscp"] # Bad
    BY <2>1 DEF Built
  <2> QED  BY <2>2
<1>3. ASSUME NEW p, NEW l, TwampReflectArgs(p, l) # Bad PROVE l # Bad
  <2> DEFINE x == [command |-> "twamp-reflect", port |-> p, peers |-> l]
  <2>1. Built(x)
    BY <1>3 DEF TwampReflectArgs, OrBad
  <2>2. x["peers"] # Bad
    BY <2>1 DEF Built
  <2> QED  BY <2>2
<1> QED  BY <1>1, <1>2, <1>3

-----------------------------------------------------------------------------
(* A setting as the argument it becomes: read by the command line, it is   *)
(* neither loose nor blank.                                                *)
Text(f) == Raw(env, f)
List == IF "twamp_peers" \in env.loose THEN {Bad} ELSE env.twamp_peers
Strict ==
    /\ env.loose = {} /\ Empty \notin env.twamp_peers
    /\ \A f \in Settings : env[f] # Empty

(* The four readings that the two sides do not share.                      *)
LEMMA SameReadings ==
  /\ \A f \in {"peer_ip", "twamp_port"} :
        Strict \/ option(Text(f)) # Bad => option(Text(f)) = optional(env[f])
  /\ Strict \/ dscp_in_range(option(Text("dscp"))) # Bad =>
        dscp_in_range(option(Text("dscp"))) = dscp_in_range(optional(env["dscp"]))
  /\ Strict \/ session_id(Text("session")) # Bad =>
        session_id(Text("session")) = session_id(env["session"])
  /\ Strict \/ options_list(List) # Bad =>
        options_list(List) = IpList(env.twamp_peers)
<1>1. ASSUME NEW f \in Settings, Strict \/ option(Text(f)) # Bad
      PROVE  option(Text(f)) = optional(env[f])
  <2>1. Text(f) = env[f]
    BY <1>1, BadStaysBad DEF Text, Raw, Strict
  <2>2. env[f] # Empty \/ option(env[f]) # Bad
    BY <1>1, <2>1 DEF Strict
  <2> QED  BY <2>1, <2>2, OptionIsOptional
<1>2. {"peer_ip", "twamp_port", "dscp", "session"} \subseteq Settings
  BY DEF Settings
<1>3. ASSUME Strict \/ dscp_in_range(option(Text("dscp"))) # Bad
      PROVE  dscp_in_range(option(Text("dscp"))) = dscp_in_range(optional(env["dscp"]))
  <2>1. Strict \/ option(Text("dscp")) # Bad
    BY <1>3, BadStaysBad
  <2> QED  BY <1>1, <1>2, <2>1
<1>4. ASSUME Strict \/ session_id(Text("session")) # Bad
      PROVE  session_id(Text("session")) = session_id(env["session"])
  BY <1>4, BadStaysBad DEF Text, Raw, Strict
<1>5. ASSUME Strict \/ options_list(List) # Bad
      PROVE  options_list(List) = IpList(env.twamp_peers)
  <2>1. List = env.twamp_peers
    BY <1>5, BadStaysBad DEF List, Strict
  <2> QED  BY <1>5, <2>1, ListsAgree DEF Strict
<1> QED  BY <1>1, <1>2, <1>3, <1>4, <1>5

(* The peer, with the port that is written or the one of MQ_PROBE_PORT.    *)
LEMMA SamePeer ==
  LET port == IF env.peer_port # Unset THEN env.peer_port ELSE Text("probe_port")
      asked == peer_at(Text("peer"), port, DEFAULT_PROBE_PORT)
  IN  Strict \/ asked # Bad =>
        asked = peer_at(env.peer, env.peer_port, probe_port(env))
<1> DEFINE port == IF env.peer_port # Unset THEN env.peer_port ELSE Text("probe_port")
           asked == peer_at(Text("peer"), port, DEFAULT_PROBE_PORT)
<1>1. SUFFICES ASSUME Strict \/ asked # Bad
               PROVE  asked = peer_at(env.peer, env.peer_port, probe_port(env))
  OBVIOUS
<1>2. Text("peer") = env.peer
  BY <1>1, BadStaysBad DEF Text, Raw, Strict
<1>3. CASE env.peer_port # Unset
  BY <1>2, <1>3 DEF peer_at
<1>4. CASE env.peer_port = Unset
  <2>1. probe_port(env) = num(Text("probe_port"), DEFAULT_PROBE_PORT)
    BY DEF probe_port, Text
  <2>2. PICK q : q = Text("probe_port")
    OBVIOUS
  <2>3. asked = peer_at(env.peer, q, DEFAULT_PROBE_PORT)
    BY <1>2, <1>4, <2>2
  <2>4. peer_at(env.peer, Unset, num(q, DEFAULT_PROBE_PORT))
          = peer_at(env.peer, q, DEFAULT_PROBE_PORT)
    BY ReadingAssumption DEF peer_at, num
  <2> QED  BY <1>4, <2>1, <2>2, <2>3, <2>4
<1> QED  BY <1>3, <1>4

(* A sub-command that is no word the parser knows is refused.              *)
LEMMA NoSuchCommand ==
  ASSUME NEW line, line.sub = Bad
  PROVE  parse(line) = Bad
<1>1. /\ Bad # Unset /\ Bad # "help" /\ Bad # "reflect" /\ Bad # "probe"
      /\ Bad # "twamp-reflect" /\ Bad # "twamp-probe" /\ Bad # "btest"
      /\ Bad # "capture" /\ Bad # "trace" /\ Bad # "scan" /\ Bad # "discover"
  BY ReadingAssumption, ProcessAssumption DEF Modes, OtherWords
<1> QED  BY <1>1, Zenon DEF parse

(* A standalone mode means the same through the environment and on the     *)
(* command line: what the command line takes the environment takes for the *)
(* same, for every environment; and what is neither blank nor loose is     *)
(* refused by both or by neither (from_env, parse).                        *)
THEOREM StandaloneMeansTheSame == Spec => []SameCommand
<1>1. IInv => SameCommand
  <2> SUFFICES ASSUME AsStarted, env.mode \in Modes,
                      Strict \/ parse(AsArguments(env)) # Bad
               PROVE  from_env(env) = parse(AsArguments(env))
    BY DEF IInv, SameCommand, Strict
  <2> DEFINE args == AsArguments(env).args
  <2>1. /\ args.session = Text("session") /\ args.twamp_port = Text("twamp_port")
        /\ args.peers = List /\ args.dscp = Text("dscp")
        /\ args.count = Text("count") /\ args.interval = Text("interval_ms")
        /\ args.size = Text("size") /\ args.timeout = Text("timeout_ms")
        /\ args.codec = Text("codec") /\ args.json = (env.json = TRUE)
        /\ AsArguments(env).sub = Text("mode")
    BY DEF AsArguments, Text, List
  <2>2. /\ args.peer_port = IF env.peer_port # Unset THEN env.peer_port
                            ELSE Text("probe_port")
        /\ env.mode = "reflect" => /\ args.port = Text("probe_port")
                                   /\ args.peer = Text("peer_ip")
        /\ env.mode # "reflect" => /\ args.port = Text("twamp_port")
                                   /\ args.peer = Text("peer")
    BY DEF AsArguments, Text
  <2>3. AsArguments(env).sub = env.mode
    <3>1. CASE Strict
      BY <2>1, <3>1 DEF Strict, Text, Raw
    <3>2. CASE parse(AsArguments(env)) # Bad
      <4>1. AsArguments(env).sub # Bad
        BY <3>2, NoSuchCommand
      <4> QED  BY <2>1, <4>1 DEF Text, Raw
    <3> QED  BY <3>1, <3>2
  <2> HIDE DEF args
  <2>4. env.mode # Unset /\ env.mode # "agent"
    BY ProcessAssumption DEF Modes
  <2>5. CASE env.mode = "reflect"
    <3>1. parse(AsArguments(env)) =
            ReflectArgs(probe_port(env), session_id(Text("session")),
                        option(Text("peer_ip")), option(Text("twamp_port")),
                        options_list(List))
      BY <2>1, <2>2, <2>3, <2>4, <2>5 DEF parse, args, probe_port, Text
    <3>2. from_env(env) =
            ReflectArgs(probe_port(env), session_id(env["session"]),
                        optional(env["peer_ip"]), optional(env["twamp_port"]),
                        IpList(env.twamp_peers))
      BY <2>4, <2>5 DEF from_env, reflect_env
    <3> QED  BY <3>1, <3>2, PartsAreGood, SameReadings
  <2>6. CASE env.mode = "probe"
    <3> DEFINE pace == pacing(Text("count"), Text("interval_ms"), Text("size"),
                              MQP_PACKET_LEN, Text("timeout_ms"), Text("codec"))
               port == IF env.peer_port # Unset THEN env.peer_port
                       ELSE Text("probe_port")
               asked == peer_at(Text("peer"), port, DEFAULT_PROBE_PORT)
    <3>1. parse(AsArguments(env)) =
            ProbeArgs(asked, session_id(Text("session")), pace,
                      dscp_in_range(option(Text("dscp"))), env.json = TRUE)
      BY <2>1, <2>2, <2>3, <2>4, <2>6 DEF parse, args
    <3>2. from_env(env) =
            ProbeArgs(peer_at(env.peer, env.peer_port, probe_port(env)),
                      session_id(env["session"]), pace,
                      dscp_in_range(optional(env["dscp"])), env.json = TRUE)
      BY <2>4, <2>6 DEF from_env, Text
    <3>3. Strict \/ asked # Bad =>
            asked = peer_at(env.peer, env.peer_port, probe_port(env))
      BY SamePeer
    <3> HIDE DEF pace, asked
    <3> QED  BY <3>1, <3>2, <3>3, PartsAreGood, SameReadings
  <2>7. CASE env.mode = "twamp-reflect"
    <3>1. parse(AsArguments(env)) =
            TwampReflectArgs(num(Text("twamp_port"), TWAMP_PORT), options_list(List))
      BY <2>1, <2>2, <2>3, <2>4, <2>7 DEF parse, args
    <3>2. from_env(env) =
            TwampReflectArgs(num(Text("twamp_port"), TWAMP_PORT),
                             IpList(env.twamp_peers))
      BY <2>4, <2>7 DEF from_env, Text
    <3> QED  BY <3>1, <3>2, PartsAreGood, SameReadings
  <2> QED  BY <2>5, <2>6, <2>7 DEF Modes
<1> QED  BY <1>1, ProcessInvariance, PTL
=============================================================================
