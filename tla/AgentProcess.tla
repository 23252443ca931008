---------------------------- MODULE AgentProcess ----------------------------
(***************************************************************************)
(* The life of an agent's process (agent/src/main.rs, and the standalone   *)
(* responders of agent/src/cli.rs): the command is chosen, the             *)
(* configuration read, the responders come up, the agent enrols and runs   *)
(* until it is told to stop.  A signal may come at any time; only a        *)
(* listener that exists at that moment notices it.                         *)
(***************************************************************************)
EXTENDS CommandLine

CONSTANT Starts     \* the environments and arguments a process is started with

(* The settings a standalone mode is made of; an unset one is still a      *)
(* setting, and no text reads as one that is unset.                        *)
Settings == {"mode", "probe_port", "twamp_port", "twamp_peers", "session", "peer_ip",
             "peer", "peer_port", "count", "interval_ms", "size", "dscp", "timeout_ms",
             "codec", "json"}
Modes == {"reflect", "probe", "twamp-reflect"}
OtherWords == {"agent", "help", "twamp-probe", "btest", "capture", "trace", "scan",
               "discover"}

ASSUME ProcessAssumption ==
    /\ {Unset, Bad} \cap (Modes \union OtherWords) = {}
    /\ \A s \in Starts : Settings \union {"loose"} \subseteq DOMAIN s.env

VARIABLES
    env, argv,  \* what the process was started with
    phase,
    command,    \* the command chosen
    cfg,        \* the managed agent's configuration
    mqp, twamp, \* the responders: "closed", "serving", "stopped"
    loop,       \* the agent loop: "none", "running", "flushed", "dead"
    listening,  \* a signal would be noticed
    installed,  \* a signal no longer ends the process
    heard,      \* a signal was noticed
    told,       \* the tasks were told to stop
    exit        \* how the process ended

vars == <<env, argv, phase, command, cfg, mqp, twamp, loop, listening, installed,
          heard, told, exit>>

Alive == exit = "running"
rest == <<env, argv>>
tasks == <<mqp, twamp, loop>>
signals == <<listening, installed, heard, told>>

Ends(code) == exit' = code /\ phase' = "over"

(* Without a sub-command the environment chooses.                          *)
Chosen == IF parse(argv) = Agent THEN from_env(env) ELSE parse(argv)

Init ==
    /\ \E s \in Starts : env = s.env /\ argv = s.argv
    /\ phase = "start" /\ command = Unset /\ cfg = Unset
    /\ mqp = "closed" /\ twamp = "closed" /\ loop = "none"
    /\ listening = FALSE /\ installed = FALSE /\ heard = FALSE /\ told = FALSE
    /\ exit = "running"

(* main                                                                    *)
Choose ==
    /\ phase = "start"
    /\ command' = Chosen
    /\ CASE Chosen = Bad -> Ends("2")
         [] Chosen # Bad /\ Chosen.command = "help" -> Ends("0")
         [] Chosen = Agent -> phase' = "config" /\ exit' = exit
         [] OTHER -> phase' = "standalone" /\ exit' = exit
    /\ UNCHANGED <<rest, cfg, tasks, signals>>

(* run_managed                                                             *)
ReadConfig ==
    /\ phase = "config"
    /\ cfg' = from_source(env)
    /\ IF from_source(env) = Bad THEN Ends("2")
       ELSE phase' = "bind" /\ exit' = exit
    /\ UNCHANGED <<rest, command, tasks, signals>>

BindReflector ==
    /\ phase = "bind"
    /\ \/ mqp' = "serving" /\ phase' = "twamp" /\ exit' = exit
       \/ Ends("1") /\ UNCHANGED mqp
    /\ UNCHANGED <<rest, command, cfg, twamp, loop, signals>>

(* Only the interop extra may be missing.  Enrolment begins, and with it   *)
(* the first wait for a signal; a listener that cannot be had is taken for *)
(* a signal.                                                               *)
BindTwamp ==
    /\ phase = "twamp"
    /\ twamp' \in IF cfg.twamp_port = Unset THEN {"closed"} ELSE {"closed", "serving"}
    /\ phase' = "enrol" /\ listening' = TRUE /\ installed' = TRUE
    /\ heard' \in BOOLEAN
    /\ UNCHANGED <<rest, command, cfg, mqp, loop, told, exit>>

(* Of enrolment and the signal, when both are there, either is taken; the  *)
(* listener goes with the select.                                          *)
Enrolled ==
    /\ phase = "enrol"
    /\ phase' = "enrolled" /\ listening' = FALSE /\ heard' = FALSE
    /\ UNCHANGED <<rest, command, cfg, tasks, installed, told, exit>>

EnrolRefused ==
    /\ phase = "enrol"
    /\ Ends("1") /\ listening' = FALSE
    /\ mqp' = "stopped" /\ twamp' = "stopped"
    /\ UNCHANGED <<rest, command, cfg, loop, installed, heard, told>>

(* Mutation: the reflector is waited for without having been told.         *)
StoppedEnrolling_Untold ==
    /\ phase = "enrol" /\ heard
    /\ phase' = "stopping"
    /\ UNCHANGED <<rest, command, cfg, tasks, signals, exit>>

StoppedEnrolling ==
    /\ phase = "enrol" /\ heard
    /\ told' = TRUE /\ phase' = "stopping"
    /\ UNCHANGED <<rest, command, cfg, tasks, listening, installed, heard, exit>>

SpawnLoop ==
    /\ phase = "enrolled"
    /\ loop' = "running" /\ phase' = "spawned"
    /\ UNCHANGED <<rest, command, cfg, mqp, twamp, signals, exit>>

Listen ==
    /\ phase = "spawned"
    /\ listening' = TRUE /\ phase' = "managed" /\ heard' \in BOOLEAN
    /\ UNCHANGED <<rest, command, cfg, tasks, installed, told, exit>>

Obey ==
    /\ phase = "managed" /\ heard
    /\ told' = TRUE /\ phase' = "stopping"
    /\ UNCHANGED <<rest, command, cfg, tasks, listening, installed, heard, exit>>

(* The loop ends the task in hand and submits what it holds.               *)
LoopStops ==
    /\ loop = "running" /\ told /\ Alive
    /\ loop' = "flushed"
    /\ UNCHANGED <<rest, phase, command, cfg, mqp, twamp, signals, exit>>

(* A panic in the loop ends its task alone.                                *)
LoopDies ==
    /\ loop = "running" /\ Alive
    /\ loop' = "dead"
    /\ UNCHANGED <<rest, phase, command, cfg, mqp, twamp, signals, exit>>

RespondersStop ==
    /\ told /\ Alive
    /\ \/ mqp = "serving" /\ mqp' = "stopped" /\ UNCHANGED twamp
       \/ twamp = "serving" /\ twamp' = "stopped" /\ UNCHANGED mqp
    /\ UNCHANGED <<rest, phase, command, cfg, loop, signals, exit>>

(* Everything that was spawned is awaited, save the TWAMP responder when   *)
(* enrolment was interrupted.                                              *)
(* Mutation: the loop is not waited for.                                   *)
Finish_Hasty ==
    /\ phase = "stopping" /\ mqp # "serving"
    /\ Ends("0")
    /\ UNCHANGED <<rest, command, cfg, tasks, signals>>

Finish ==
    /\ phase = "stopping" /\ mqp # "serving" /\ loop # "running"
    /\ cfg = Unset \/ loop # "none" => twamp # "serving"
    /\ Ends("0")
    /\ UNCHANGED <<rest, command, cfg, tasks, signals>>

(* A standalone responder fails when either socket cannot be had, and      *)
(* stops at Ctrl-C; any other command ends by itself.                      *)
Serves == command.command \in {"reflect", "twamp-reflect"}

run_reflect ==
    /\ phase = "standalone" /\ Serves
    /\ \/ Ends("1") /\ UNCHANGED <<mqp, twamp, listening, installed>>
       \/ /\ mqp' = IF command.command = "reflect" THEN "serving" ELSE "closed"
          /\ twamp' = IF command.command = "reflect" /\ command.twamp_port = Unset
                      THEN "closed" ELSE "serving"
          /\ phase' = "serving" /\ listening' = TRUE /\ installed' = TRUE
          /\ exit' = exit
    /\ UNCHANGED <<rest, command, cfg, loop, heard, told>>

StopServing ==
    /\ phase = "serving" /\ heard
    /\ told' = TRUE /\ phase' = "stopping"
    /\ UNCHANGED <<rest, command, cfg, tasks, listening, installed, heard, exit>>

RunOnce ==
    /\ phase = "standalone" /\ ~Serves
    /\ \E code \in {"0", "1"} : Ends(code)
    /\ UNCHANGED <<rest, command, cfg, tasks, signals>>

(* A signal: noticed, lost, or the end where none was ever listened for    *)
(* (unless the process is the first of its container).  A standalone       *)
(* responder listens for Ctrl-C alone.                                     *)
Signal ==
    \E sig \in {"SIGINT", "SIGTERM"} :
        LET handled == cfg # Unset \/ sig = "SIGINT"
        IN  /\ Alive /\ phase # "start"
            /\ \/ listening /\ handled /\ heard' = TRUE /\ UNCHANGED <<phase, exit>>
               \/ ~(listening /\ handled) /\ UNCHANGED <<heard, phase, exit>>
               \/ ~(installed /\ handled) /\ Ends("killed") /\ UNCHANGED heard
            /\ UNCHANGED <<rest, command, cfg, tasks, listening, installed, told>>

Over == phase = "over" /\ UNCHANGED vars

Next ==
    \/ Choose \/ ReadConfig \/ BindReflector \/ BindTwamp
    \/ Enrolled \/ EnrolRefused \/ StoppedEnrolling \/ SpawnLoop \/ Listen \/ Obey
    \/ LoopStops \/ LoopDies \/ RespondersStop \/ Finish
    \/ run_reflect \/ StopServing \/ RunOnce
    \/ Signal \/ Over

(* The runtime polls every task that can go on; the loop's own steps end,  *)
(* each by its timeout.                                                    *)
Spec ==
    /\ Init /\ [][Next]_vars
    /\ WF_vars(StoppedEnrolling \/ Obey \/ StopServing)
    /\ WF_vars(LoopStops) /\ WF_vars(RespondersStop) /\ WF_vars(Finish)

-----------------------------------------------------------------------------
(* The same settings as arguments; MQ_PROBE_PORT is the port of a peer     *)
(* that is written without one.                                            *)
AsArguments(e) ==
    LET text(f) == Raw(e, f)
        reflect == e.mode = "reflect"
    IN  [sub |-> text("mode"),
         args |-> [port |-> IF reflect THEN text("probe_port") ELSE text("twamp_port"),
                   session |-> text("session"),
                   peer |-> IF reflect THEN text("peer_ip") ELSE text("peer"),
                   peer_port |-> IF e.peer_port # Unset THEN e.peer_port
                                 ELSE text("probe_port"),
                   twamp_port |-> text("twamp_port"),
                   peers |-> IF "twamp_peers" \in e.loose THEN {Bad} ELSE e.twamp_peers,
                   count |-> text("count"), interval |-> text("interval_ms"),
                   size |-> text("size"), dscp |-> text("dscp"),
                   timeout |-> text("timeout_ms"), codec |-> text("codec"),
                   json |-> e.json = TRUE]]

(* A standalone mode means the same whether it is asked for through the    *)
(* environment, as on a router it has to be, or on the command line: what  *)
(* the command line takes, the environment takes for the same command; and *)
(* unless a setting is set to nothing or loosely written, which only the   *)
(* environment forgives and not everywhere, what one refuses the other     *)
(* refuses (from_env, parse).                                              *)
SameCommand ==
    env.mode \in Modes =>
        LET asked == parse(AsArguments(env))
        IN  /\ asked # Bad => from_env(env) = asked
            /\ /\ env.loose = {} /\ Empty \notin env.twamp_peers
               /\ \A f \in Settings : env[f] # Empty
               => from_env(env) = asked

(* While it enrols and while it is managed, peers are answered, whatever   *)
(* the controller does; and a process that ends well has let its loop      *)
(* submit what it held, or has lost the loop to a panic before (run).      *)
PeersServedAndFlushed ==
    /\ phase \in {"enrol", "enrolled", "spawned", "managed"} => mqp = "serving"
    /\ exit = "0" /\ cfg # Unset => loop \in {"none", "flushed", "dead"}
                                  /\ mqp = "stopped"

(* A signal that was noticed, and not taken back by an enrolment that      *)
(* ended at that moment, ends the process; a managed one through its own   *)
(* exit, after the flush, whatever signals follow (wait_for_shutdown, run).*)
HeardIsObeyed ==
    heard ~> (~heard \/ exit \in {"0", "1"} \/ (exit = "killed" /\ cfg = Unset))
=============================================================================
