----------------------------- MODULE HostTools ------------------------------
(***************************************************************************)
(* The diagnostics the agent runs through its host router: a traceroute, a *)
(* bandwidth test, a capture, a survey of the local network                *)
(* (agent/src/agent.rs, run_host_task), and the same ones with an IP scan  *)
(* from the command line (agent/src/cli.rs).  Each is a script of REST     *)
(* requests (agent/src/routeros/mod.rs); any of them can be refused, lost  *)
(* or slow, the agent can be stopped between any two, and the router's     *)
(* sniffer and its interface counters go on without it.                    *)
(*                                                                         *)
(* Time passes in ticks of TICK seconds.  A request fails at any time, its *)
(* client's own timeout (90 s for the agent, 20 s or 180 s on the command  *)
(* line) included; one that has been given up is either carried out by     *)
(* then or never.                                                          *)
(***************************************************************************)
EXTENDS PathDiagnosis, CaptureFindings

CONSTANTS
    None,
    Tasks,          \* the tasks that can be asked for
    Answers,        \* what the router may answer at each stage
    MaxCount        \* bound on the interface's counters

Kinds == {"trace", "btest", "capture", "wifi", "scan"}

ASSUME HostAssumption ==
    /\ MaxCount \in Nat
    /\ \A t \in Tasks : t.kind \in Kinds
    /\ \A r \in Answers.interface :
          /\ DOMAIN r = {"name", "rx_broadcast", "rx_multicast", "running", "present"}
          /\ {r.rx_broadcast, r.rx_multicast} \subseteq Nat
    /\ \A rows \in Answers.bandwidth : rows # << >> =>
          \A load \in {Last(rows).local_cpu, Last(rows).remote_cpu} :
             load.ok => load.n \in Nat

(* A table is a sequence of rows.                                          *)
IsTable(s) == s \in Seq(ToSet(s))

(* RouterOS writes a duration as numbers and the units they count, each    *)
(* unit at most once.  A client whose row has no such text is outside the  *)
(* model, as is the legacy last-ip read in its place: the agent takes such *)
(* a client for one heard this very second.                                *)
WrittenFor(text, secs) ==
    LET count(unit) == IF \E part \in ToSet(text) : part[2] = unit
                       THEN (CHOOSE part \in ToSet(text) : part[2] = unit)[1]
                       ELSE 0
    IN  /\ text \in Seq(Nat \X {"w", "d", "h", "m", "s"})
        /\ \A i, j \in 1..Len(text) : text[i][2] = text[j][2] => i = j
        /\ secs = 604800 * count("w") + 86400 * count("d") + 3600 * count("h")
                    + 60 * count("m") + count("s")

ASSUME AnswersAssumption ==
    /\ \A stage \in {"traceroute", "ip_scan", "scan_lease", "host", "packet", "arp",
                     "lease", "wifi_table", "wireless_table", "wifi", "wireless",
                     "pool"} :
          \A rows \in Answers[stage] : IsTable(rows)
    /\ \A rows \in Answers.traceroute : \A r \in ToSet(rows) :
          {r.section, r.loss, r.avg} \subseteq Nat
    /\ \A rows \in Answers.wifi_table \union Answers.wireless_table :
          \A r \in ToSet(rows) : WrittenFor(r.last_activity, r.quiet_for)
    /\ \A pools \in Answers.pool : \A parts \in ToSet(pools) :
          /\ IsTable(parts)
          /\ \A p \in ToSet(parts) : p.bare \/ (p.ok => {p.lo, p.hi} \subseteq Nat)
    /\ \A rows \in Answers.host : \A r \in ToSet(rows) : \A k \in {1, 2} :
          num_of(r.rate[k]) \in Nat

TICK == 60
TASK_TIMEOUT == 120

VARIABLES
    task,       \* the task in hand
    at,         \* the request that waits for its answer, or a sleep
    waited,     \* ticks the capture has lasted
    elapsed,    \* ticks since the agent took the task up
    acted,      \* the router has carried the request out
    got,        \* the answers read so far, by stage
    notes,      \* the caveats collected so far
    result,     \* what the last task left
    owed,       \* results owed for the tasks taken
    sniffer,    \* the router's packet sniffer
    nic,        \* the router's interface, once its counters have been read
    flood       \* broadcasts received since the counters were first read

vars == <<task, at, waited, elapsed, acted, got, notes, result, owed, sniffer,
          nic, flood>>

Ticks(secs) == (secs + TICK - 1) \div TICK

-----------------------------------------------------------------------------
(* The scripts: what follows when the request is answered, and when it     *)
(* fails.                                                                  *)
SurveyScript ==
    [arp |-> <<"lease", "lease">>, lease |-> <<"wifi_table", "wifi_table">>,
     interface |-> <<"rate_sample", "pool">>,
     interface_again |-> <<"pool", "pool">>, pool |-> <<"finish", "finish">>]

(* The modern stack, then the legacy one.                                  *)
collect_wireless ==
    [wifi_table |-> <<"wifi", "wireless_table">>,
     wifi |-> <<"interface", "interface">>,
     wireless_table |-> <<"wireless", "interface">>,
     wireless |-> <<"interface", "interface">>]

PacketScript ==
    [set |-> <<"start", "start">>, start |-> <<"capturing", "fail">>,
     stop |-> <<"host", "host">>, host |-> <<"protocol", "protocol">>,
     protocol |-> <<"finish", "finish">>]

(* A device without a wireless sniffer captures packets instead.           *)
WirelessScript ==
    [wsniffer |-> <<"pick", "set">>, pick |-> <<"wset", "fail">>,
     wset |-> <<"sniff", "sniff">>, sniff |-> <<"packet", "fail">>,
     packet |-> <<"finish", "finish">>]

ToolScript ==
    [traceroute |-> <<"finish", "fail">>, bandwidth |-> <<"finish", "fail">>]

ScanScript ==
    [ip_scan |-> <<"scan_lease", "fail">>, scan_lease |-> <<"finish", "finish">>]

CliScript == [identity |-> <<"first", "fail">>]

Script(stage) ==
    CASE stage \in DOMAIN SurveyScript -> SurveyScript[stage]
      [] stage \in DOMAIN collect_wireless -> collect_wireless[stage]
      [] stage \in DOMAIN PacketScript -> PacketScript[stage]
      [] stage \in DOMAIN WirelessScript -> WirelessScript[stage]
      [] stage \in DOMAIN ToolScript -> ToolScript[stage]
      [] stage \in DOMAIN ScanScript -> ScanScript[stage]
      [] stage \in DOMAIN CliScript -> CliScript[stage]

Sleeps == {"capturing", "rate_sample"}

FirstRequest(t) ==
    CASE t.kind = "trace" -> "traceroute"
      [] t.kind = "btest" -> "bandwidth"
      [] t.kind = "capture" -> IF t.wireless THEN "wsniffer" ELSE "set"
      [] t.kind = "wifi" -> "arp"
      [] t.kind = "scan" -> "ip_scan"

Then(stage, ok) ==
    LET next == Script(stage)[IF ok THEN 1 ELSE 2]
    IN  CASE next = "first" -> FirstRequest(task)
          [] next = "pick" /\ task.interface # Blank -> "wset"
          [] OTHER -> next

(* A running radio is preferred to any.                                    *)
first_wireless_interface(rows) ==
    LET up == Where(rows, LAMBDA r : r.running = "true")
    IN  IF up # << >> THEN up[1].name
        ELSE IF rows # << >> THEN rows[1].name ELSE Blank

(* Whether the answer is one the caller can go on with.                    *)
Usable(stage, answer) ==
    /\ stage = "pick" => first_wireless_interface(answer) # Blank
    /\ stage = "bandwidth" => parse_btest(answer, task).ok

(* What a request that failed leaves in the notes.                         *)
(* Mutation: a sniffer that could not be stopped is not worth a note.      *)
Caveats_Quiet(stage) ==
    CASE stage = "set" -> {"settings"}
      [] stage = "wsniffer" -> {"no_wireless_sniffer"}
      [] stage = "wset" -> {"settings"}
      [] OTHER -> {}

Caveats(stage) ==
    CASE stage = "set" -> {"settings"}
      [] stage = "stop" -> {"unstopped"}
      [] stage = "wsniffer" -> {"no_wireless_sniffer"}
      [] stage = "wset" -> {"settings"}
      [] OTHER -> {}

-----------------------------------------------------------------------------
(* The answers read, with one more.                                        *)
With(answers, stage, answer) ==
    [s \in DOMAIN answers \union {stage} |->
        IF s = stage THEN answer ELSE answers[s]]

(* The snapshot: what did not answer is empty.                             *)
Read(answers, stage, Parse(_), default) ==
    IF stage \in DOMAIN answers THEN Parse(answers[stage]) ELSE default

collect(answers) ==
    LET modern == "wifi_table" \in DOMAIN answers
    IN  [Snapshot EXCEPT
           !.arp = Read(answers, "arp", parse_arp, << >>),
           !.leases = Read(answers, "lease", parse_leases, << >>),
           !.clients =
              IF modern THEN parse_wifi_clients(answers.wifi_table)
              ELSE Read(answers, "wireless_table", parse_legacy_clients, << >>),
           !.radios =
              IF modern THEN Read(answers, "wifi", parse_wifi_radios, << >>)
              ELSE Read(answers, "wireless", parse_legacy_radios, << >>),
           !.interfaces =
              Read(answers, "interface_again",
                   LAMBDA again : interface_rates(answers.interface, again), {}),
           !.dhcp_pool_size = Read(answers, "pool", pool_size, 0)]

Capture(answers) ==
    [used_wireless_sniffer |-> "sniff" \in DOMAIN answers,
     hosts |-> Read(answers, "host", parse_hosts, << >>),
     frames |-> Read(answers, "packet", parse_frames, << >>)]

Findings(t, answers) ==
    CASE t.kind = "trace" ->
            analyse_path(parse_traceroute(answers.traceroute), t.target)
      [] t.kind = "btest" -> <<parse_btest(answers.bandwidth, t)>>
      [] t.kind = "capture" -> analyse_capture(Capture(answers))
      [] t.kind = "wifi" -> analyse(collect(answers))
      [] t.kind = "scan" ->
            analyse_scan(parse_ip_scan(answers.ip_scan),
                         Read(answers, "scan_lease", parse_leases, << >>))

-----------------------------------------------------------------------------
Idle == at = "idle"

(* The task's one result: a body in the spool, or the command's exit.      *)
Leave(status, found, caveats) ==
    /\ result' = [status |-> status, findings |-> found, notes |-> caveats]
    /\ owed' = owed - 1
    /\ at' = "idle"
    /\ waited' = 0 /\ elapsed' = 0 /\ acted' = FALSE

(* What was read so far goes with the failure.                             *)
failure_body == Leave("failed", << >>, {}) /\ got' = << >> /\ notes' = {}

enqueue_skipped == Leave("skipped", << >>, {})

(* A request follows, or the end.                                          *)
Proceed(stage, answers, caveats) ==
    CASE stage = "finish" -> /\ got' = answers /\ notes' = caveats
                             /\ Leave("ok", Findings(task, answers), caveats)
      [] stage = "fail" -> failure_body
      [] OTHER -> /\ at' = stage
                  /\ got' = answers /\ notes' = caveats
                  /\ waited' = 0 /\ acted' = FALSE
                  /\ UNCHANGED <<elapsed, result, owed>>

(* What the arguments rule out before anything is asked of the router.     *)
BadArguments(t) ==
    \/ t.kind = "trace" /\ t.target = Blank
    \/ t.kind = "btest" /\ (t.target = Blank \/ t.direction = Blank
                            \/ t.protocol = Blank)

(* A task is taken up; only the agent's own may lack a router to ask.      *)
run_host_task(t) ==
    /\ Idle
    /\ task' = t /\ at' = "begin" /\ owed' = owed + 1
    /\ got' = << >> /\ result' = None /\ nic' = None /\ flood' = 0
    /\ notes' = IF t.kind = "capture" /\ clamp(t.duration_s).cut THEN {"cut"} ELSE {}
    /\ UNCHANGED <<waited, elapsed, acted, sniffer>>

(* Without credentials there is no client, with bad arguments no request.  *)
Begin ==
    /\ at = "begin"
    /\ \/ ~task.router /\ enqueue_skipped /\ UNCHANGED <<got, notes>>
       \/ /\ task.router /\ BadArguments(task)
          /\ Proceed("fail", got, notes)
       \/ /\ task.router /\ ~BadArguments(task)
          /\ Proceed(IF task.front = "cli" THEN "identity" ELSE FirstRequest(task),
                     got, notes)
    /\ UNCHANGED <<task, sniffer, nic, flood>>

Asking == at \notin {"idle", "begin", "interface", "interface_again"} \union Sleeps

(* The router carries a request out.                                       *)
RouterActs ==
    /\ at \in {"start", "stop"} /\ ~acted
    /\ acted' = TRUE
    /\ sniffer' = IF at = "start" THEN "running" ELSE "stopped"
    /\ UNCHANGED <<task, at, waited, elapsed, got, notes, result, owed, nic, flood>>

(* Its answer arrives and parses.                                          *)
Answered ==
    /\ Asking
    /\ at \in {"start", "stop"} => acted
    /\ \E answer \in Answers[at] :
          Proceed(Then(at, Usable(at, answer)), With(got, at, answer), notes)
    /\ UNCHANGED <<task, sniffer, nic, flood>>

(* The counters are read twice, as they stand.                             *)
CountersRead ==
    LET reading(n) == IF n.present THEN {n} ELSE {}
    IN  /\ \/ at = "interface" /\ nic' \in Answers.interface
           \/ at = "interface_again" /\ nic' = nic
        /\ Proceed(Then(at, TRUE), With(got, at, reading(nic')), notes)
        /\ UNCHANGED <<task, sniffer, flood>>

(* No answer: refused, not there on this device, cut off, or late, with    *)
(* the request carried out or not.                                         *)
Failed ==
    /\ Asking \/ at \in {"interface", "interface_again"}
    /\ Proceed(Then(at, FALSE), got, notes \union Caveats(at))
    /\ UNCHANGED <<task, sniffer, nic, flood>>

Tick ==
    /\ at \notin {"idle", "begin", "rate_sample"}
    /\ at = "capturing" => waited < Ticks(clamp(task.duration_s).secs)
    /\ task.front = "cli" => at = "capturing"
    /\ elapsed < Ticks(TASK_TIMEOUT)
    /\ waited' = IF at = "capturing" THEN waited + 1 ELSE 0
    /\ elapsed' = IF task.front = "agent" THEN elapsed + 1 ELSE 0
    /\ UNCHANGED <<task, at, acted, got, notes, result, owed, sniffer, nic, flood>>

Wake ==
    /\ \/ /\ at = "capturing" /\ waited = Ticks(clamp(task.duration_s).secs)
          /\ Proceed("stop", got, notes)
       \/ at = "rate_sample" /\ Proceed("interface_again", got, notes)
    /\ UNCHANGED <<task, sniffer, nic, flood>>

(* The whole task has its own limit, and is dropped where it stands.       *)
(* Mutation: the task's limit passes without a word.                       *)
TimeLimit_Silent ==
    /\ ~Idle /\ task.front = "agent" /\ elapsed = Ticks(TASK_TIMEOUT)
    /\ at' = "idle" /\ waited' = 0 /\ elapsed' = 0 /\ acted' = FALSE
    /\ UNCHANGED <<task, got, notes, result, owed, sniffer, nic, flood>>

TimeLimit ==
    /\ ~Idle /\ task.front = "agent" /\ elapsed = Ticks(TASK_TIMEOUT)
    /\ failure_body
    /\ UNCHANGED <<task, sniffer, nic, flood>>

(* The process ends, on either front.                                      *)
Stop ==
    /\ ~Idle
    /\ at' = "idle" /\ waited' = 0 /\ elapsed' = 0 /\ acted' = FALSE
    /\ owed' = owed - 1 /\ got' = << >> /\ notes' = {}
    /\ UNCHANGED <<task, result, sniffer, nic, flood>>

(* The router's interface between the two readings: frames arrive, or it   *)
(* bounces and counts from zero, or is gone for the moment.                *)
Frames(n) ==
    /\ at = "rate_sample" /\ nic.present
    /\ nic.rx_broadcast + nic.rx_multicast + n <= MaxCount /\ flood + n <= MaxCount
    /\ flood' = flood + n
    /\ \/ nic' = [nic EXCEPT !.rx_broadcast = @ + n]
       \/ nic' = [nic EXCEPT !.rx_multicast = @ + n]
    /\ UNCHANGED <<task, at, waited, elapsed, acted, got, notes, result, owed,
                   sniffer>>

Bounce ==
    /\ at = "rate_sample"
    /\ \E r \in {"true", "false"}, p \in BOOLEAN :
          nic' = [nic EXCEPT !.rx_broadcast = 0, !.rx_multicast = 0,
                             !.running = r, !.present = p]
    /\ UNCHANGED <<task, at, waited, elapsed, acted, got, notes, result, owed,
                   sniffer, flood>>

Init ==
    /\ task = None /\ at = "idle" /\ waited = 0 /\ elapsed = 0
    /\ acted = FALSE /\ got = << >> /\ notes = {} /\ result = None
    /\ owed = 0 /\ sniffer = "stopped" /\ flood = 0
    /\ nic = None

Next ==
    \/ \E t \in Tasks : run_host_task(t)
    \/ Begin \/ RouterActs \/ Answered \/ CountersRead \/ Failed
    \/ Tick \/ Wake \/ TimeLimit \/ Stop
    \/ \E n \in {500, 1000} : Frames(n)
    \/ Bounce

Spec == Init /\ [][Next]_vars

-----------------------------------------------------------------------------
(* Every task the agent takes up leaves exactly one result, whatever the   *)
(* router refuses, loses or delays, and whichever of the limits strikes    *)
(* first; only the end of the process leaves none (run_host_task).         *)
OneResult == owed \in {0, 1} /\ (Idle => owed = 0)

Ended(kind) ==
    Idle /\ result # None /\ result.status = "ok" /\ task.kind = kind

Codes == {result.findings[i].code : i \in 1..Len(result.findings)}

Named(code) == UNION {f.names : f \in Filter(result.findings, LAMBDA f : f.code = code)}

(* A packet capture that is reported as good leaves the sniffer stopped,   *)
(* or says that it could not be stopped: an answer lost after the router   *)
(* has acted, or a sniffer an earlier capture left running, change nothing *)
(* of it (run_packet_capture).                                             *)
SnifferAccounted ==
    Ended("capture") /\ "start" \in DOMAIN got =>
        sniffer = "stopped" \/ "unstopped" \in result.notes

(* A storm is reported only where the frames did arrive between the two    *)
(* readings of the counters, however the interface bounced, went away or   *)
(* came back in between (collect_interface_rates, broadcast_storm).        *)
NoFalseStorm ==
    Ended("wifi") /\ "network.broadcast_storm" \in Codes =>
        flood >= RATE_SAMPLE * BROADCAST_STORM_PPS

(* The answers a finding of the survey rests on.                           *)
RestsOn(code) ==
    CASE code = "network.unleased_device" -> {"arp", "lease"}
      [] code = "network.duplicate_address" -> {"arp"}
      [] code = "network.dhcp_pool_pressure" -> {"lease", "pool"}
      [] code = "network.broadcast_storm" -> {"interface", "interface_again"}
      [] code = "wifi.band_steering_opportunity" ->
            IF "wifi_table" \in DOMAIN got THEN {"wifi"} ELSE {"wireless"}
      [] OTHER -> {}

Table == IF "wifi_table" \in DOMAIN got THEN got.wifi_table
         ELSE got.wireless_table

LeasedDevices(rows) == {l.mac.device : l \in ToSet(parse_leases(rows))}

LeasedIsManaged ==
    /\ Ended("wifi") /\ "lease" \in DOMAIN got =>
          \A a \in Named("network.unleased_device") :
             \E e \in Filter(got.arp, LAMBDA e : e.address = a) :
                e.mac.device \notin LeasedDevices(got.lease)
    /\ Ended("scan") /\ "scan_lease" \in DOMAIN got =>
          \A m \in Named("scan.unmanaged_host") :
             m.device \notin LeasedDevices(got.scan_lease)

(* A survey some of whose requests failed draws no conclusion from the     *)
(* silence; no client is accused of a slow rate it was last heard at more  *)
(* than IDLE_AFTER_S seconds ago, whatever unit the router writes that in  *)
(* (analyse, rate_is_meaningful); and a device that holds a lease is never *)
(* reported as a stray, in whichever case the two tables write its MAC, by *)
(* the survey nor by the scan (unleased_devices, analyse_scan).            *)
SurveyGrounded ==
    /\ Ended("wifi") =>
        /\ \A code \in Codes : RestsOn(code) \subseteq DOMAIN got
        /\ \A m \in Named("wifi.slow_client_airtime")
                    \union Named("wifi.rate_signal_mismatch") :
              \E r \in ToSet(Table) : r.mac = m /\ r.quiet_for <= IDLE_AFTER_S
    /\ LeasedIsManaged

(* What a traceroute's findings are worth: see PathSound and OneRound.     *)
PathGrounded ==
    Ended("trace") =>
        PathSound(got.traceroute, task.target) /\ OneRound(got.traceroute)

(* Of several hosts the one that carries more than half of what was        *)
(* captured is named, wherever the router listed it, and no host another   *)
(* outdid; and a capture of nothing but frames that are slow or broadcast  *)
(* by design, beacons for one, makes no channel look slow or stormy        *)
(* (parse_hosts, analyse_hosts, analyse_wireless).                         *)
CaptureGrounded ==
    Ended("capture") =>
        /\ "host" \in DOMAIN got =>
              LET hosts == Where(got.host, LAMBDA r : r.address # Blank)
                  speed(r) == Max({num_of(r.rate[1]), num_of(r.rate[2])})
                  named == Named("capture.dominant_host")
              IN  /\ \A r \in ToSet(hosts) :
                        Len(hosts) > 1 /\ 2 * speed(r) > TotalOf(hosts, speed)
                        => r.address \in named
                  /\ \A a \in named : \E r \in ToSet(hosts) :
                        /\ r.address = a
                        /\ \A q \in ToSet(hosts) : speed(q) <= speed(r)
        /\ "packet" \in DOMAIN got =>
              (Codes \cap {"capture.wifi_low_rate_frames",
                           "capture.wifi_broadcast_heavy"} # {}
               => \E f \in ToSet(got.packet) : f.frame_type = "data")

(* A rate measured while the CPU of either router was busy is never        *)
(* presented as the link's, and a test that never got past connecting is   *)
(* never presented as a measurement (btest::parse).                        *)
BtestHonest ==
    Ended("btest") =>
        LET last == Last(got.bandwidth)
        IN  /\ result.findings[1].verdict = "link_limited" =>
                  \A c \in Reported(last.local_cpu) \union Reported(last.remote_cpu) :
                     c < CPU_BUSY_PCT
            /\ got.bandwidth # <<last>> \/ last.status # {"connect"}
=============================================================================
