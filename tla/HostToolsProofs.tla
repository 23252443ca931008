--------------------------- MODULE HostToolsProofs --------------------------
(***************************************************************************)
(* The diagnostics for any tasks and any answers of the router: one result *)
(* a task, a sniffer accounted for, a bandwidth test that hides nothing,   *)
(* no false storm, and findings that the tables bear out, however long     *)
(* these are.                                                              *)
(***************************************************************************)
EXTENDS HostTools, DataLemmas, SequenceTheorems

StagesOf(kind) ==
    CASE kind = "trace" -> {"traceroute"}
      [] kind = "btest" -> {"bandwidth"}
      [] kind = "capture" -> DOMAIN PacketScript \union DOMAIN WirelessScript
                             \union {"capturing"}
      [] kind = "wifi" -> DOMAIN SurveyScript \union DOMAIN collect_wireless
                          \union {"rate_sample"}
      [] kind = "scan" -> DOMAIN ScanScript

(* A task stands in its own script, and a result is owed, and none left,   *)
(* for as long as it does.                                                 *)
InScript ==
    /\ ~Idle => task \in Tasks
                /\ at \in {"begin", "identity"} \union StagesOf(task.kind)
                /\ result = None
    /\ owed = IF Idle THEN 0 ELSE 1

(* Once the sniffer's start has been answered there is only the one way    *)
(* to the end; past the stop, the sniffer is stopped or the notes tell.    *)
SnifferTraced ==
    /\ "start" \in DOMAIN got /\ ~Idle => at \in {"capturing", "stop", "host", "protocol"}
    /\ at = "stop" /\ acted => sniffer = "stopped"
    /\ "start" \in DOMAIN got /\ at \in {"host", "protocol"} =>
          sniffer = "stopped" \/ "unstopped" \in notes
    /\ SnifferAccounted

(* A good bandwidth test is what its answer parses as.                     *)
BtestFromAnswer ==
    Ended("btest") =>
        /\ got.bandwidth \in Answers.bandwidth
        /\ parse_btest(got.bandwidth, task).ok
        /\ result.findings = <<parse_btest(got.bandwidth, task)>>

IInv == InScript /\ SnifferTraced /\ BtestFromAnswer

-----------------------------------------------------------------------------
(* The stages of the longer scripts, by name.                              *)
LEMMA Stages ==
  /\ DOMAIN PacketScript = {"set", "start", "stop", "host", "protocol"}
  /\ DOMAIN WirelessScript = {"wsniffer", "pick", "wset", "sniff", "packet"}
  /\ DOMAIN SurveyScript = {"arp", "lease", "interface", "interface_again", "pool"}
  /\ DOMAIN collect_wireless = {"wifi_table", "wifi", "wireless_table", "wireless"}
  /\ DOMAIN ToolScript = {"traceroute", "bandwidth"}
  /\ DOMAIN ScanScript = {"ip_scan", "scan_lease"}
  /\ DOMAIN CliScript = {"identity"}
  BY DEF PacketScript, WirelessScript, SurveyScript, collect_wireless, ToolScript,
         ScanScript, CliScript

(* Each stage is found in its own script.                                  *)
LEMMA ScriptOf ==
  /\ \A s \in DOMAIN SurveyScript : Script(s) = SurveyScript[s]
  /\ \A s \in DOMAIN collect_wireless : Script(s) = collect_wireless[s]
  /\ \A s \in DOMAIN PacketScript : Script(s) = PacketScript[s]
  /\ \A s \in DOMAIN WirelessScript : Script(s) = WirelessScript[s]
  /\ \A s \in DOMAIN ToolScript : Script(s) = ToolScript[s]
  /\ \A s \in DOMAIN ScanScript : Script(s) = ScanScript[s]
  /\ \A s \in DOMAIN CliScript : Script(s) = CliScript[s]
  BY Stages DEF Script

(* What a script says next stays within the task's own script.             *)
LEMMA ThenFacts ==
  ASSUME task \in Tasks, NEW ok \in BOOLEAN,
         at \in {"identity"} \union (StagesOf(task.kind) \ Sleeps)
  PROVE  /\ Then(at, ok) \in {"finish", "fail"} \union StagesOf(task.kind)
         /\ at = "start" => Then(at, ok) \in {"capturing", "fail"}
         /\ at = "stop" => Then(at, ok) = "host"
         /\ at = "host" => Then(at, ok) = "protocol"
         /\ at = "protocol" => Then(at, ok) = "finish"
         /\ task.kind = "btest" /\ Then(at, ok) = "finish" => at = "bandwidth" /\ ok
         /\ Then(at, ok) = "rate_sample" => at = "interface"
         /\ Then(at, ok) # "interface_again"
         /\ at = "interface_again" => Then(at, ok) = "pool"
         /\ at = "pool" => Then(at, ok) = "finish"
         /\ at = "sniff" => Then(at, ok) \in {"packet", "fail"}
         /\ at = "packet" => Then(at, ok) = "finish"
         /\ Then(at, ok) = "scan_lease" => at = "ip_scan" /\ ok
         /\ task.kind = "trace" /\ Then(at, ok) = "finish" => at = "traceroute" /\ ok
         /\ task.kind = "scan" /\ Then(at, ok) = "finish" => at = "scan_lease"
<1>0. task.kind \in Kinds
  BY HostAssumption
<1>1. CASE at = "identity"
  <2>1. Script(at) = <<"first", "fail">>
    BY <1>1, Stages, ScriptOf DEF CliScript
  <2>2. Then(at, ok) = IF ok THEN FirstRequest(task) ELSE "fail"
    BY <2>1 DEF Then
  <2>3. FirstRequest(task) \in StagesOf(task.kind)
    BY <1>0, Stages DEF FirstRequest, StagesOf, Kinds
  <2>4. FirstRequest(task) \notin {"finish", "rate_sample", "interface_again",
                                   "scan_lease"}
    BY <1>0 DEF FirstRequest, Kinds
  <2> QED  BY <1>1, <2>2, <2>3, <2>4
<1>2. CASE task.kind \in {"trace", "btest"} /\ at # "identity"
  <2>1. at = IF task.kind = "trace" THEN "traceroute" ELSE "bandwidth"
    BY <1>2 DEF StagesOf
  <2>2. Script(at) = <<"finish", "fail">>
    BY <2>1, Stages, ScriptOf DEF ToolScript
  <2>3. Then(at, ok) = IF ok THEN "finish" ELSE "fail"
    BY <2>2 DEF Then
  <2> QED  BY <1>2, <2>1, <2>3
<1>3. CASE task.kind = "capture" /\ at # "identity"
  <2>1. StagesOf(task.kind) = {"set", "start", "stop", "host", "protocol", "wsniffer",
                               "pick", "wset", "sniff", "packet", "capturing"}
    BY <1>3, Stages DEF StagesOf
  <2>2. CASE at = "set"
    <3>1. Script(at) = <<"start", "start">>
      BY <2>2, Stages, ScriptOf DEF PacketScript
    <3>2. Then(at, ok) = "start"
      BY <3>1 DEF Then
    <3> QED  BY <1>3, <2>1, <2>2, <3>2
  <2>3. CASE at = "start"
    <3>1. Script(at) = <<"capturing", "fail">>
      BY <2>3, Stages, ScriptOf DEF PacketScript
    <3>2. Then(at, ok) = IF ok THEN "capturing" ELSE "fail"
      BY <3>1 DEF Then
    <3> QED  BY <1>3, <2>1, <2>3, <3>2
  <2>4. CASE at = "stop"
    <3>1. Script(at) = <<"host", "host">>
      BY <2>4, Stages, ScriptOf DEF PacketScript
    <3>2. Then(at, ok) = "host"
      BY <3>1 DEF Then
    <3> QED  BY <1>3, <2>1, <2>4, <3>2
  <2>5. CASE at = "host"
    <3>1. Script(at) = <<"protocol", "protocol">>
      BY <2>5, Stages, ScriptOf DEF PacketScript
    <3>2. Then(at, ok) = "protocol"
      BY <3>1 DEF Then
    <3> QED  BY <1>3, <2>1, <2>5, <3>2
  <2>6. CASE at = "protocol"
    <3>1. Script(at) = <<"finish", "finish">>
      BY <2>6, Stages, ScriptOf DEF PacketScript
    <3>2. Then(at, ok) = "finish"
      BY <3>1 DEF Then
    <3> QED  BY <1>3, <2>1, <2>6, <3>2
  <2>7. CASE at = "wsniffer"
    <3>1. Script(at) = <<"pick", "set">>
      BY <2>7, Stages, ScriptOf DEF WirelessScript
    <3>2. Then(at, ok) \in {"wset", "pick", "set"}
      BY <3>1 DEF Then
    <3> QED  BY <1>3, <2>1, <2>7, <3>2
  <2>8. CASE at = "pick"
    <3>1. Script(at) = <<"wset", "fail">>
      BY <2>8, Stages, ScriptOf DEF WirelessScript
    <3>2. Then(at, ok) = IF ok THEN "wset" ELSE "fail"
      BY <3>1 DEF Then
    <3> QED  BY <1>3, <2>1, <2>8, <3>2
  <2>9. CASE at = "wset"
    <3>1. Script(at) = <<"sniff", "sniff">>
      BY <2>9, Stages, ScriptOf DEF WirelessScript
    <3>2. Then(at, ok) = "sniff"
      BY <3>1 DEF Then
    <3> QED  BY <1>3, <2>1, <2>9, <3>2
  <2>10. CASE at = "sniff"
    <3>1. Script(at) = <<"packet", "fail">>
      BY <2>10, Stages, ScriptOf DEF WirelessScript
    <3>2. Then(at, ok) = IF ok THEN "packet" ELSE "fail"
      BY <3>1 DEF Then
    <3> QED  BY <1>3, <2>1, <2>10, <3>2
  <2>11. CASE at = "packet"
    <3>1. Script(at) = <<"finish", "finish">>
      BY <2>11, Stages, ScriptOf DEF WirelessScript
    <3>2. Then(at, ok) = "finish"
      BY <3>1 DEF Then
    <3> QED  BY <1>3, <2>1, <2>11, <3>2
  <2> QED  BY <2>1, <2>2, <2>3, <2>4, <2>5, <2>6, <2>7, <2>8, <2>9, <2>10, <2>11, <1>3 DEF Sleeps
<1>4. CASE task.kind = "wifi" /\ at # "identity"
  <2>1. StagesOf(task.kind) = {"arp", "lease", "interface", "interface_again", "pool",
                               "wifi_table", "wifi", "wireless_table", "wireless",
                               "rate_sample"}
    BY <1>4, Stages DEF StagesOf
  <2>2. CASE at = "arp"
    <3>1. Script(at) = <<"lease", "lease">>
      BY <2>2, Stages, ScriptOf DEF SurveyScript
    <3>2. Then(at, ok) = "lease"
      BY <3>1 DEF Then
    <3> QED  BY <1>4, <2>1, <2>2, <3>2
  <2>3. CASE at = "lease"
    <3>1. Script(at) = <<"wifi_table", "wifi_table">>
      BY <2>3, Stages, ScriptOf DEF SurveyScript
    <3>2. Then(at, ok) = "wifi_table"
      BY <3>1 DEF Then
    <3> QED  BY <1>4, <2>1, <2>3, <3>2
  <2>4. CASE at = "interface"
    <3>1. Script(at) = <<"rate_sample", "pool">>
      BY <2>4, Stages, ScriptOf DEF SurveyScript
    <3>2. Then(at, ok) = IF ok THEN "rate_sample" ELSE "pool"
      BY <3>1 DEF Then
    <3> QED  BY <1>4, <2>1, <2>4, <3>2
  <2>5. CASE at = "interface_again"
    <3>1. Script(at) = <<"pool", "pool">>
      BY <2>5, Stages, ScriptOf DEF SurveyScript
    <3>2. Then(at, ok) = "pool"
      BY <3>1 DEF Then
    <3> QED  BY <1>4, <2>1, <2>5, <3>2
  <2>6. CASE at = "pool"
    <3>1. Script(at) = <<"finish", "finish">>
      BY <2>6, Stages, ScriptOf DEF SurveyScript
    <3>2. Then(at, ok) = "finish"
      BY <3>1 DEF Then
    <3> QED  BY <1>4, <2>1, <2>6, <3>2
  <2>7. CASE at = "wifi_table"
    <3>1. Script(at) = <<"wifi", "wireless_table">>
      BY <2>7, Stages, ScriptOf DEF collect_wireless
    <3>2. Then(at, ok) = IF ok THEN "wifi" ELSE "wireless_table"
      BY <3>1 DEF Then
    <3> QED  BY <1>4, <2>1, <2>7, <3>2
  <2>8. CASE at = "wifi"
    <3>1. Script(at) = <<"interface", "interface">>
      BY <2>8, Stages, ScriptOf DEF collect_wireless
    <3>2. Then(at, ok) = "interface"
      BY <3>1 DEF Then
    <3> QED  BY <1>4, <2>1, <2>8, <3>2
  <2>9. CASE at = "wireless_table"
    <3>1. Script(at) = <<"wireless", "interface">>
      BY <2>9, Stages, ScriptOf DEF collect_wireless
    <3>2. Then(at, ok) = IF ok THEN "wireless" ELSE "interface"
      BY <3>1 DEF Then
    <3> QED  BY <1>4, <2>1, <2>9, <3>2
  <2>10. CASE at = "wireless"
    <3>1. Script(at) = <<"interface", "interface">>
      BY <2>10, Stages, ScriptOf DEF collect_wireless
    <3>2. Then(at, ok) = "interface"
      BY <3>1 DEF Then
    <3> QED  BY <1>4, <2>1, <2>10, <3>2
  <2> QED  BY <2>1, <2>2, <2>3, <2>4, <2>5, <2>6, <2>7, <2>8, <2>9, <2>10, <1>4 DEF Sleeps
<1>5. CASE task.kind = "scan" /\ at # "identity"
  <2>1. StagesOf(task.kind) = {"ip_scan", "scan_lease"}
    BY <1>5, Stages DEF StagesOf
  <2>2. CASE at = "ip_scan"
    <3>1. Script(at) = <<"scan_lease", "fail">>
      BY <2>2, Stages, ScriptOf DEF ScanScript
    <3>2. Then(at, ok) = IF ok THEN "scan_lease" ELSE "fail"
      BY <3>1 DEF Then
    <3> QED  BY <1>5, <2>1, <2>2, <3>2
  <2>3. CASE at = "scan_lease"
    <3>1. Script(at) = <<"finish", "finish">>
      BY <2>3, Stages, ScriptOf DEF ScanScript
    <3>2. Then(at, ok) = "finish"
      BY <3>1 DEF Then
    <3> QED  BY <1>5, <2>1, <2>3, <3>2
  <2> QED  BY <2>1, <2>2, <2>3, <1>5
<1> QED  BY <1>0, <1>1, <1>2, <1>3, <1>4, <1>5 DEF Kinds

(* No script goes back to the beginning or rests.                          *)
LEMMA StagesApart ==
  ASSUME NEW kind \in Kinds
  PROVE  StagesOf(kind) \cap {"idle", "begin", "identity", "finish", "fail"} = {}
  BY Stages DEF StagesOf, Kinds

-----------------------------------------------------------------------------
(* The invariant holds at first, with no task and no answer.               *)
LEMMA InitIInv == Init => IInv
<1> SUFFICES ASSUME Init PROVE IInv
  OBVIOUS
<1>1. DOMAIN got = {} /\ Idle /\ owed = 0 /\ result = None /\ at = "idle"
  BY DEF Init, Idle
<1>2. InScript
  BY <1>1 DEF InScript
<1>3. SnifferTraced
  BY <1>1 DEF SnifferTraced, SnifferAccounted
<1>4. BtestFromAnswer
  BY <1>1 DEF BtestFromAnswer, Ended
<1> QED  BY <1>2, <1>3, <1>4 DEF IInv

(* Wherever a task's script goes on, fails or ends, the invariant goes     *)
(* with it.                                                                *)
LEMMA Proceeding ==
  ASSUME IInv, ~Idle, NEW stage, NEW answers, NEW caveats,
         Proceed(stage, answers, caveats), UNCHANGED <<task, sniffer>>,
         stage \in {"identity", "finish", "fail"} \union StagesOf(task.kind),
         "start" \in DOMAIN answers =>
            stage \in {"capturing", "stop", "host", "protocol", "finish", "fail"},
         "start" \in DOMAIN answers /\ stage \in {"host", "protocol", "finish"} =>
            sniffer = "stopped" \/ "unstopped" \in caveats,
         task.kind = "btest" /\ stage = "finish" =>
            /\ answers.bandwidth \in Answers.bandwidth
            /\ parse_btest(answers.bandwidth, task).ok
  PROVE  IInv'
<1>1. task \in Tasks /\ task.kind \in Kinds /\ owed = 1
  BY HostAssumption DEF IInv, InScript
<1>2. CASE stage = "finish"
  <2>1. /\ got' = answers /\ notes' = caveats /\ owed' = 0 /\ at' = "idle"
        /\ result' = [status |-> "ok", findings |-> Findings(task, answers),
                      notes |-> caveats]
    BY <1>1, <1>2 DEF Proceed, Leave
  <2>2. InScript'
    BY <2>1 DEF InScript, Idle
  <2>3. SnifferTraced'
    BY <1>2, <2>1 DEF SnifferTraced, SnifferAccounted, Ended, Idle
  <2>4. BtestFromAnswer'
    <3>1. SUFFICES ASSUME task.kind = "btest" PROVE BtestFromAnswer'
      BY DEF BtestFromAnswer, Ended
    <3>2. Findings(task, answers) = <<parse_btest(answers.bandwidth, task)>>
      BY <3>1 DEF Findings
    <3>3. parse_btest(got.bandwidth, task)' = parse_btest(answers.bandwidth, task)
      BY <2>1 DEF parse_btest
    <3> QED  BY <1>2, <2>1, <3>1, <3>2, <3>3 DEF BtestFromAnswer
  <2> QED  BY <2>2, <2>3, <2>4 DEF IInv
<1>3. CASE stage = "fail"
  <2>1. /\ got' = << >> /\ owed' = 0 /\ at' = "idle"
        /\ result' = [status |-> "failed", findings |-> << >>, notes |-> {}]
    BY <1>1, <1>3 DEF Proceed, failure_body, Leave
  <2>2. DOMAIN got' = {} /\ result'.status = "failed"
    BY <2>1
  <2> QED  BY <2>1, <2>2 DEF IInv, InScript, SnifferTraced, SnifferAccounted,
                             BtestFromAnswer, Ended, Idle
<1>4. CASE stage \notin {"finish", "fail"}
  <2>1. /\ got' = answers /\ notes' = caveats /\ owed' = 1 /\ at' = stage
        /\ acted' = FALSE /\ result' = None
    BY <1>1, <1>4 DEF Proceed, IInv, InScript
  <2>2. stage # "idle"
    BY <1>1, StagesApart
  <2> QED  BY <1>1, <1>4, <2>1, <2>2 DEF IInv, InScript, SnifferTraced,
                             SnifferAccounted, BtestFromAnswer, Ended, Idle
<1> QED  BY <1>2, <1>3, <1>4

-----------------------------------------------------------------------------
(* Every step keeps the invariant.                                         *)
LEMMA NextIInv == IInv /\ [Next]_vars => IInv'
<1> SUFFICES ASSUME IInv, [Next]_vars PROVE IInv'
  OBVIOUS
<1>1. ASSUME NEW t \in Tasks, run_host_task(t) PROVE IInv'
  <2>1. /\ task' = t /\ at' = "begin" /\ owed' = 1 /\ DOMAIN got' = {}
        /\ result' = None
    BY <1>1 DEF run_host_task, IInv, InScript, Idle
  <2> QED  BY <2>1 DEF IInv, InScript, SnifferTraced, SnifferAccounted,
                       BtestFromAnswer, Ended, Idle
<1>2. CASE Begin
  <2>0. ~Idle /\ task \in Tasks /\ task.kind \in Kinds /\ "start" \notin DOMAIN got
    BY <1>2, HostAssumption DEF Begin, Idle, IInv, InScript, SnifferTraced
  <2>1. CASE ~task.router
    <3>1. /\ at' = "idle" /\ owed' = 0 /\ "start" \notin DOMAIN got'
          /\ result'.status = "skipped"
      BY <1>2, <2>0, <2>1 DEF Begin, enqueue_skipped, Leave, IInv, InScript
    <3> QED  BY <3>1 DEF IInv, InScript, SnifferTraced, SnifferAccounted,
                         BtestFromAnswer, Ended, Idle
  <2>2. CASE task.router
    <3>1. PICK stage, answers, caveats :
              /\ Proceed(stage, answers, caveats)
              /\ answers = got /\ stage \in {"fail", "identity", FirstRequest(task)}
      BY <1>2, <2>2 DEF Begin
    <3>2. /\ stage \in {"identity", "fail"} \union StagesOf(task.kind)
          /\ stage # "finish"
      BY <2>0, <3>1, Stages DEF FirstRequest, StagesOf, Kinds
    <3> QED  BY <1>2, <2>0, <3>1, <3>2, Proceeding DEF Begin
  <2> QED  BY <2>1, <2>2
<1>3. CASE RouterActs
  BY <1>3 DEF RouterActs, IInv, InScript, SnifferTraced, SnifferAccounted,
              BtestFromAnswer, Ended, Idle
<1>4. CASE Answered
  <2>0. /\ ~Idle /\ task \in Tasks
        /\ at \in {"identity"} \union (StagesOf(task.kind) \ Sleeps)
    BY <1>4 DEF Answered, Asking, Idle, IInv, InScript
  <2>1. PICK answer \in Answers[at] :
            Proceed(Then(at, Usable(at, answer)), With(got, at, answer), notes)
    BY <1>4 DEF Answered
  <2>u. PICK ok \in BOOLEAN : ok = Usable(at, answer)
    <3>1. Usable(at, answer) \in BOOLEAN
      BY DEF Usable
    <3> QED  BY <3>1
  <2>2. PICK stage, answers, caveats :
            /\ ok = Usable(at, answer) /\ stage = Then(at, ok)
            /\ answers = With(got, at, answer) /\ caveats = notes
            /\ Proceed(stage, answers, caveats)
    BY <2>1, <2>u
  <2>3. DOMAIN answers = DOMAIN got \union {at} /\ answers[at] = answer
    BY <2>2 DEF With
  <2>4. /\ stage \in {"finish", "fail"} \union StagesOf(task.kind)
        /\ at = "start" => stage \in {"capturing", "fail"}
        /\ at = "stop" => stage = "host"
        /\ at = "host" => stage = "protocol"
        /\ at = "protocol" => stage = "finish"
        /\ task.kind = "btest" /\ stage = "finish" => at = "bandwidth" /\ ok
    BY <2>0, <2>2, ThenFacts
  <2>5. "start" \in DOMAIN answers => at \in {"start", "stop", "host", "protocol"}
    BY <2>0, <2>3 DEF IInv, SnifferTraced, Sleeps
  <2>6. "start" \in DOMAIN answers /\ stage \in {"host", "protocol", "finish"} =>
            sniffer = "stopped" \/ "unstopped" \in caveats
    BY <1>4, <2>2, <2>3, <2>4, <2>5 DEF Answered, IInv, SnifferTraced
  <2>7. task.kind = "btest" /\ stage = "finish" =>
            /\ answers.bandwidth \in Answers.bandwidth
            /\ parse_btest(answers.bandwidth, task).ok
    BY <2>1, <2>2, <2>3, <2>4 DEF Usable
  <2> QED  BY <1>4, <2>0, <2>2, <2>4, <2>5, <2>6, <2>7, Proceeding DEF Answered
<1>5. CASE CountersRead
  <2>0. /\ ~Idle /\ task \in Tasks /\ "start" \notin DOMAIN got
        /\ at \in {"interface", "interface_again"}
        /\ at \in {"identity"} \union (StagesOf(task.kind) \ Sleeps)
    BY <1>5 DEF CountersRead, Idle, IInv, InScript, SnifferTraced, Sleeps
  <2>1. PICK row, stage, answers, caveats :
            /\ stage = Then(at, TRUE) /\ answers = With(got, at, row)
            /\ Proceed(stage, answers, caveats)
    BY <1>5 DEF CountersRead
  <2>2. DOMAIN answers = DOMAIN got \union {at}
    BY <2>1 DEF With
  <2>3. /\ stage \in {"finish", "fail"} \union StagesOf(task.kind)
        /\ task.kind = "btest" => stage # "finish"
    BY <2>0, <2>1, ThenFacts
  <2> QED  BY <1>5, <2>0, <2>1, <2>2, <2>3, Proceeding DEF CountersRead
<1>6. CASE Failed
  <2>0. /\ ~Idle /\ task \in Tasks
        /\ at \in {"identity"} \union (StagesOf(task.kind) \ Sleeps)
    BY <1>6 DEF Failed, Asking, Idle, IInv, InScript, Sleeps
  <2>1. PICK stage, answers, caveats :
            /\ stage = Then(at, FALSE) /\ answers = got
            /\ caveats = notes \union Caveats(at)
            /\ Proceed(stage, answers, caveats)
    BY <1>6 DEF Failed
  <2>2. /\ stage \in {"finish", "fail"} \union StagesOf(task.kind)
        /\ at = "stop" => stage = "host"
        /\ at = "host" => stage = "protocol"
        /\ at = "protocol" => stage = "finish"
        /\ task.kind = "btest" => stage # "finish"
    BY <2>0, <2>1, ThenFacts
  <2>3. "start" \in DOMAIN answers => at \in {"stop", "host", "protocol"}
    BY <2>0, <2>1 DEF IInv, SnifferTraced, Sleeps
  <2>4. at = "stop" => "unstopped" \in caveats
    BY <2>1 DEF Caveats
  <2>5. "start" \in DOMAIN answers /\ stage \in {"host", "protocol", "finish"} =>
            sniffer = "stopped" \/ "unstopped" \in caveats
    BY <2>1, <2>2, <2>3, <2>4 DEF IInv, SnifferTraced
  <2> QED  BY <1>6, <2>0, <2>1, <2>2, <2>3, <2>5, Proceeding DEF Failed
<1>7. CASE Tick
  BY <1>7 DEF Tick, IInv, InScript, SnifferTraced, SnifferAccounted,
              BtestFromAnswer, Ended, Idle
<1>8. CASE Wake
  <2>0. ~Idle /\ task \in Tasks /\ task.kind \in Kinds /\ at \in StagesOf(task.kind)
    BY <1>8, HostAssumption DEF Wake, Idle, IInv, InScript
  <2>1. PICK stage, answers, caveats :
            /\ stage = IF at = "capturing" THEN "stop" ELSE "interface_again"
            /\ answers = got /\ Proceed(stage, answers, caveats)
    BY <1>8 DEF Wake
  <2>2. stage \in StagesOf(task.kind)
    BY <1>8, <2>0, <2>1, Stages DEF Wake, StagesOf, Kinds
  <2>3. "start" \in DOMAIN answers => stage = "stop"
    BY <1>8, <2>0, <2>1 DEF IInv, SnifferTraced, Wake
  <2> QED  BY <1>8, <2>0, <2>1, <2>2, <2>3, Proceeding DEF Wake
<1>9. CASE TimeLimit
  <2>1. /\ ~Idle /\ owed' = 0 /\ at' = "idle" /\ DOMAIN got' = {}
        /\ result'.status = "failed"
    BY <1>9 DEF TimeLimit, failure_body, Leave, IInv, InScript
  <2> QED  BY <2>1 DEF IInv, InScript, SnifferTraced, SnifferAccounted,
                       BtestFromAnswer, Ended, Idle
<1>10. CASE Stop
  <2>1. ~Idle /\ owed' = 0 /\ at' = "idle" /\ DOMAIN got' = {} /\ result' = None
    BY <1>10 DEF Stop, IInv, InScript
  <2> QED  BY <2>1 DEF IInv, InScript, SnifferTraced, SnifferAccounted,
                       BtestFromAnswer, Ended, Idle
<1>11. ASSUME NEW n, Frames(n) PROVE IInv'
  <2>1. UNCHANGED <<task, at, acted, got, notes, result, owed, sniffer>>
    BY <1>11 DEF Frames
  <2> QED  BY <2>1 DEF IInv, InScript, SnifferTraced, SnifferAccounted,
                       BtestFromAnswer, Ended, Idle, parse_btest
<1>12. CASE Bounce
  <2>1. UNCHANGED <<task, at, acted, got, notes, result, owed, sniffer>>
    BY <1>12 DEF Bounce
  <2> QED  BY <2>1 DEF IInv, InScript, SnifferTraced, SnifferAccounted,
                       BtestFromAnswer, Ended, Idle
<1>13. CASE UNCHANGED vars
  BY <1>13 DEF vars, IInv, InScript, SnifferTraced, SnifferAccounted,
               BtestFromAnswer, Ended, Idle
<1> QED  BY <1>1, <1>2, <1>3, <1>4, <1>5, <1>6, <1>7, <1>8, <1>9, <1>10, <1>11,
            <1>12, <1>13 DEF Next

(* In every reachable state a task stands in its own script, the sniffer   *)
(* is accounted for and a bandwidth test is what its answer says.          *)
THEOREM HostInvariance == Spec => []IInv
<1> QED  BY InitIInv, NextIInv, PTL DEF Spec

(* Every task taken up leaves exactly one result, whatever the router      *)
(* refuses, loses or delays and whichever limit strikes first              *)
(* (run_host_task).                                                        *)
THEOREM EveryTaskHasOneResult == Spec => []OneResult
<1>1. IInv => OneResult
  BY DEF IInv, InScript, OneResult
<1> QED  BY <1>1, HostInvariance, PTL

(* A packet capture reported as good leaves the sniffer stopped or says    *)
(* that it could not be stopped (run_packet_capture).                      *)
THEOREM SnifferIsAccountedFor == Spec => []SnifferAccounted
<1>1. IInv => SnifferAccounted
  BY DEF IInv, SnifferTraced
<1> QED  BY <1>1, HostInvariance, PTL

(* No load a router reported exceeds the worst one.                        *)
LEMMA WorstIsWorst ==
  ASSUME NEW row, row.local_cpu.ok => row.local_cpu.n \in Nat,
         row.remote_cpu.ok => row.remote_cpu.n \in Nat,
         NEW c \in Reported(row.local_cpu) \union Reported(row.remote_cpu)
  PROVE  c \in 0..100 /\ worst_cpu(row) \in 0..100 /\ c <= worst_cpu(row)
<1>1. ASSUME NEW n \in Nat PROVE Min({n, 100}) \in 0..100
  BY MinNat
<1> DEFINE loads == Reported(row.local_cpu) \union Reported(row.remote_cpu)
                    \union {0}
<1>2. Reported(row.local_cpu) \subseteq 0..100
  BY <1>1 DEF Reported
<1>3. Reported(row.remote_cpu) \subseteq 0..100
  BY <1>1 DEF Reported
<1>4. loads \subseteq 0..100 /\ loads # {} /\ c \in loads
  BY <1>2, <1>3
<1>5. worst_cpu(row) = Max(loads)
  BY DEF worst_cpu
<1> HIDE DEF loads
<1>6. Max(loads) \in loads /\ \A k \in loads : k <= Max(loads)
  BY <1>4, MaxNat
<1> QED  BY <1>4, <1>5, <1>6

(* A rate measured while the CPU of either router was busy is never        *)
(* presented as the link's, a refused test never as a measurement          *)
(* (btest::parse).                                                         *)
THEOREM BtestHidesNothing == Spec => []BtestHonest
<1>1. IInv => BtestHonest
  <2> SUFFICES ASSUME IInv, Ended("btest") PROVE BtestHonest
    BY DEF BtestHonest
  <2> DEFINE rows == got.bandwidth
             last == Last(rows)
  <2>1. /\ rows \in Answers.bandwidth /\ parse_btest(rows, task).ok
        /\ result.findings[1] = parse_btest(rows, task)
    BY DEF IInv, BtestFromAnswer
  <2>2. rows # << >> /\ ~Refusal(rows)
    BY <2>1 DEF parse_btest
  <2>3. parse_btest(rows, task).verdict = cpu_verdict(worst_cpu(last))
    BY <2>2 DEF parse_btest
  <2>4. /\ last.local_cpu.ok => last.local_cpu.n \in Nat
        /\ last.remote_cpu.ok => last.remote_cpu.n \in Nat
    BY <2>1, <2>2, HostAssumption
  <2>5. ASSUME result.findings[1].verdict = "link_limited",
               NEW c \in Reported(last.local_cpu) \union Reported(last.remote_cpu)
        PROVE  c < CPU_BUSY_PCT
    <3>1. c \in 0..100 /\ worst_cpu(last) \in 0..100 /\ c <= worst_cpu(last)
      BY <2>4, WorstIsWorst
    <3>2. cpu_verdict(worst_cpu(last)) = "link_limited"
      BY <2>1, <2>3, <2>5
    <3> QED  BY <3>1, <3>2 DEF cpu_verdict, CPU_BUSY_PCT, CPU_SATURATED_PCT
  <2>6. rows # <<last>> \/ last.status # {"connect"}
    <3> SUFFICES ASSUME rows = <<last>>, last.status = {"connect"} PROVE FALSE
      OBVIOUS
    <3>1. PICK row : row = last
      OBVIOUS
    <3>2. rows = <<row>> /\ row.status = {"connect"}
      BY <3>1
    <3> QED  BY <2>2, <3>2 DEF Refusal
  <2> QED  BY <2>5, <2>6 DEF BtestHonest
<1> QED  BY <1>1, HostInvariance, PTL

-----------------------------------------------------------------------------
(* The interface's counters.                                               *)
IsNic(n) ==
    /\ DOMAIN n = {"name", "rx_broadcast", "rx_multicast", "running", "present"}
    /\ n.rx_broadcast \in Nat /\ n.rx_multicast \in Nat

Growth(y, x) == saturating_sub(y.rx_broadcast, x.rx_broadcast)
                + saturating_sub(y.rx_multicast, x.rx_multicast)

(* From the first reading on the counters have grown by no more than what  *)
(* arrived, and so it is with the second reading.                          *)
CountersTraced ==
    /\ flood \in Nat
    /\ at \in {"rate_sample", "interface_again"} =>
          /\ IsNic(nic) /\ "interface" \in DOMAIN got
          /\ \A x \in got.interface : IsNic(x) /\ Growth(nic, x) <= flood
    /\ "interface_again" \in DOMAIN got =>
          /\ at \in {"idle", "pool"} /\ "interface" \in DOMAIN got
          /\ \A x \in got.interface, y \in got.interface_again :
                IsNic(x) /\ IsNic(y) /\ Growth(y, x) <= flood

(* Frames that arrive add their number to the growth at most.              *)
LEMMA GrowthAdds ==
  ASSUME NEW x, IsNic(x), NEW y, IsNic(y), NEW n \in Nat, NEW z,
         \/ z = [y EXCEPT !.rx_broadcast = @ + n]
         \/ z = [y EXCEPT !.rx_multicast = @ + n]
  PROVE  IsNic(z) /\ Growth(z, x) <= Growth(y, x) + n /\ Growth(y, x) \in Nat
  BY DEF IsNic, Growth, saturating_sub

(* An interface that counts from zero has not grown.                       *)
LEMMA GrowthRestarts ==
  ASSUME NEW x, IsNic(x), NEW y, IsNic(y), NEW r, NEW p
  PROVE  LET z == [y EXCEPT !.rx_broadcast = 0, !.rx_multicast = 0,
                            !.running = r, !.present = p]
         IN  IsNic(z) /\ Growth(z, x) = 0
<1> DEFINE z == [y EXCEPT !.rx_broadcast = 0, !.rx_multicast = 0,
                          !.running = r, !.present = p]
<1>1. DOMAIN z = DOMAIN y
  OBVIOUS
<1>2. z.rx_broadcast = 0 /\ z.rx_multicast = 0
  BY DEF IsNic
<1> HIDE DEF z
<1>3. IsNic(z) /\ Growth(z, x) = 0
  BY <1>1, <1>2 DEF IsNic, Growth, saturating_sub
<1> QED  BY <1>3 DEF z

(* Wherever a task's script goes on or ends, the counters' account goes    *)
(* with it, as long as neither reading is touched.                         *)
LEMMA CountersProceed ==
  ASSUME CountersTraced, IInv, ~Idle, NEW stage, NEW answers, NEW caveats,
         Proceed(stage, answers, caveats), UNCHANGED <<nic, flood>>,
         stage \notin {"rate_sample", "interface_again"},
         "interface_again" \in DOMAIN answers =>
            /\ stage \in {"pool", "finish", "fail"} /\ "interface" \in DOMAIN answers
            /\ \A x \in answers.interface, y \in answers.interface_again :
                  IsNic(x) /\ IsNic(y) /\ Growth(y, x) <= flood
  PROVE  CountersTraced'
<1>1. CASE stage = "finish"
  <2>1. got' = answers /\ at' = "idle"
    BY <1>1 DEF Proceed, Leave
  <2> QED  BY <2>1 DEF CountersTraced
<1>2. CASE stage = "fail"
  <2>1. DOMAIN got' = {} /\ at' = "idle"
    BY <1>2 DEF Proceed, failure_body, Leave
  <2> QED  BY <2>1 DEF CountersTraced
<1>3. CASE stage \notin {"finish", "fail"}
  <2>1. got' = answers /\ at' = stage
    BY <1>3 DEF Proceed
  <2> QED  BY <1>3, <2>1 DEF CountersTraced
<1> QED  BY <1>1, <1>2, <1>3

(* Every step keeps the counters' account.                                 *)
LEMMA NextCounters == CountersTraced /\ IInv /\ [Next]_vars => CountersTraced'
<1> SUFFICES ASSUME CountersTraced, IInv, [Next]_vars PROVE CountersTraced'
  OBVIOUS
<1>1. ASSUME NEW t \in Tasks, run_host_task(t) PROVE CountersTraced'
  <2>1. at' = "begin" /\ DOMAIN got' = {} /\ flood' = 0
    BY <1>1 DEF run_host_task
  <2> QED  BY <2>1 DEF CountersTraced
<1>2. CASE Begin
  <2>0. /\ ~Idle /\ task.kind \in Kinds /\ "interface_again" \notin DOMAIN got
    BY <1>2, HostAssumption DEF Begin, Idle, IInv, InScript, CountersTraced
  <2>1. CASE ~task.router
    <3>1. at' = "idle" /\ got' = got /\ flood' = flood
      BY <1>2, <2>1 DEF Begin, enqueue_skipped, Leave
    <3> QED  BY <2>0, <3>1 DEF CountersTraced
  <2>2. CASE task.router
    <3>1. PICK stage, answers, caveats :
              /\ Proceed(stage, answers, caveats)
              /\ answers = got /\ stage \in {"fail", "identity", FirstRequest(task)}
      BY <1>2, <2>2 DEF Begin
    <3>2. stage \notin {"rate_sample", "interface_again"}
      BY <2>0, <3>1 DEF FirstRequest, Kinds
    <3> QED  BY <1>2, <2>0, <3>1, <3>2, CountersProceed DEF Begin
  <2> QED  BY <2>1, <2>2
<1>3. CASE Answered
  <2>0. /\ ~Idle /\ task \in Tasks
        /\ at \notin {"interface", "interface_again", "rate_sample"}
        /\ at \in {"identity"} \union (StagesOf(task.kind) \ Sleeps)
    BY <1>3 DEF Answered, Asking, Idle, IInv, InScript, Sleeps
  <2>1. PICK answer \in Answers[at] :
            Proceed(Then(at, Usable(at, answer)), With(got, at, answer), notes)
    BY <1>3 DEF Answered
  <2>u. PICK ok \in BOOLEAN : ok = Usable(at, answer)
    <3>1. Usable(at, answer) \in BOOLEAN
      BY DEF Usable
    <3> QED  BY <3>1
  <2>2. PICK stage, answers, caveats :
            /\ stage = Then(at, ok) /\ answers = With(got, at, answer)
            /\ Proceed(stage, answers, caveats)
    BY <2>1, <2>u
  <2>3. /\ DOMAIN answers = DOMAIN got \union {at}
        /\ \A s \in DOMAIN got \ {at} : answers[s] = got[s]
    BY <2>2 DEF With
  <2>4. /\ stage \notin {"rate_sample", "interface_again"}
        /\ at = "pool" => stage = "finish"
    BY <2>0, <2>2, ThenFacts
  <2>5. "interface_again" \in DOMAIN answers =>
            /\ at = "pool" /\ "interface" \in DOMAIN answers
            /\ answers.interface = got.interface
            /\ answers.interface_again = got.interface_again
            /\ "interface_again" \in DOMAIN got
    BY <2>0, <2>3 DEF CountersTraced, Idle
  <2>6. "interface_again" \in DOMAIN answers =>
            \A x \in answers.interface, y \in answers.interface_again :
                IsNic(x) /\ IsNic(y) /\ Growth(y, x) <= flood
    BY <2>5 DEF CountersTraced
  <2> QED  BY <1>3, <2>0, <2>2, <2>4, <2>5, <2>6, CountersProceed DEF Answered
<1>4. CASE CountersRead
  <2>0. ~Idle /\ task \in Tasks /\ "interface_again" \notin DOMAIN got
    BY <1>4 DEF CountersRead, Idle, IInv, InScript, CountersTraced
  <2>1. PICK row, stage, answers, caveats :
            /\ row = IF nic'.present THEN {nic'} ELSE {}
            /\ stage = Then(at, TRUE) /\ answers = With(got, at, row)
            /\ Proceed(stage, answers, caveats)
    BY <1>4 DEF CountersRead
  <2>2. DOMAIN answers = DOMAIN got \union {at} /\ answers[at] = row
    BY <2>1 DEF With
  <2>3. CASE at = "interface"
    <3>1. IsNic(nic') /\ flood' = flood
      BY <1>4, <2>3, HostAssumption DEF CountersRead, IsNic
    <3>2. Growth(nic', nic') = 0
      BY <3>1 DEF Growth, saturating_sub, IsNic
    <3>3. at \in StagesOf(task.kind) \ Sleeps
      BY <2>3 DEF IInv, InScript, Idle, Sleeps
    <3>4. CASE stage = "rate_sample"
      <4>1. got' = answers /\ at' = "rate_sample"
        BY <2>1, <3>4 DEF Proceed
      <4>2. "interface" \in DOMAIN answers /\ "interface_again" \notin DOMAIN answers
        BY <2>0, <2>2, <2>3
      <4>3. \A x \in answers.interface : x = nic'
        BY <2>1, <2>2, <2>3
      <4> QED  BY <3>1, <3>2, <4>1, <4>2, <4>3 DEF CountersTraced
    <3>5. CASE stage = "pool"
      <4>1. got' = answers /\ at' = "pool"
        BY <2>1, <3>5 DEF Proceed
      <4>2. "interface_again" \notin DOMAIN answers
        BY <2>0, <2>2, <2>3
      <4> QED  BY <3>1, <4>1, <4>2 DEF CountersTraced
    <3>6. stage \in {"rate_sample", "pool"}
      <4>1. Script(at) = <<"rate_sample", "pool">>
        BY <2>3, Stages, ScriptOf DEF SurveyScript
      <4> QED  BY <2>1, <4>1 DEF Then
    <3> QED  BY <3>4, <3>5, <3>6
  <2>4. CASE at = "interface_again"
    <3>1. UNCHANGED <<nic, flood>>
      BY <1>4, <2>4 DEF CountersRead
    <3>2. at \in StagesOf(task.kind) \ Sleeps
      BY <2>4 DEF IInv, InScript, Idle, Sleeps
    <3>3. stage = "pool"
      BY <2>0, <2>1, <2>4, <3>2, ThenFacts
    <3>4. "interface" \in DOMAIN answers /\ answers.interface = got.interface
      BY <2>1, <2>4 DEF With, CountersTraced
    <3>5. \A y \in answers.interface_again : y = nic
      BY <2>1, <2>2, <2>4, <3>1
    <3>6. \A x \in answers.interface, y \in answers.interface_again :
              IsNic(x) /\ IsNic(y) /\ Growth(y, x) <= flood
      BY <2>4, <3>4, <3>5 DEF CountersTraced
    <3> QED  BY <2>0, <2>1, <3>1, <3>3, <3>4, <3>6, CountersProceed
  <2> QED  BY <1>4, <2>3, <2>4 DEF CountersRead
<1>5. CASE Failed
  <2>0. /\ ~Idle /\ task \in Tasks
        /\ at \in {"identity"} \union (StagesOf(task.kind) \ Sleeps)
    BY <1>5 DEF Failed, Asking, Idle, IInv, InScript, Sleeps
  <2>1. PICK stage, answers, caveats :
            /\ stage = Then(at, FALSE) /\ answers = got
            /\ Proceed(stage, answers, caveats)
    BY <1>5 DEF Failed
  <2>2. CASE stage = "rate_sample"
    <3>1. Script(at) = <<"rate_sample", "pool">>
      BY <2>0, <2>1, <2>2, ThenFacts, Stages, ScriptOf DEF SurveyScript
    <3>2. stage = "pool"
      BY <2>1, <3>1 DEF Then
    <3> QED  BY <2>2, <3>2
  <2>3. stage # "interface_again" /\ (at = "pool" => stage = "finish")
    BY <2>0, <2>1, ThenFacts
  <2>4. "interface_again" \in DOMAIN answers =>
            /\ stage = "finish" /\ "interface" \in DOMAIN answers
            /\ \A x \in answers.interface, y \in answers.interface_again :
                  IsNic(x) /\ IsNic(y) /\ Growth(y, x) <= flood
    BY <2>0, <2>1, <2>3 DEF CountersTraced, Idle
  <2> QED  BY <1>5, <2>0, <2>1, <2>2, <2>3, <2>4, CountersProceed DEF Failed
<1>6. CASE Wake
  <2>1. CASE at = "capturing"
    <3>1. PICK stage, answers, caveats :
              stage = "stop" /\ answers = got /\ Proceed(stage, answers, caveats)
      BY <1>6, <2>1 DEF Wake
    <3> QED  BY <1>6, <2>1, <3>1, CountersProceed DEF Wake, CountersTraced, Idle
  <2>2. CASE at = "rate_sample"
    <3>1. at' = "interface_again" /\ UNCHANGED <<got, nic, flood>>
      BY <1>6, <2>2 DEF Wake, Proceed
    <3> QED  BY <2>2, <3>1 DEF CountersTraced
  <2> QED  BY <1>6, <2>1, <2>2 DEF Wake
<1>7. CASE RouterActs \/ Tick \/ UNCHANGED vars
  <2>1. UNCHANGED <<at, got, nic, flood>>
    BY <1>7 DEF RouterActs, Tick, vars
  <2> QED  BY <2>1 DEF CountersTraced
<1>8. CASE TimeLimit \/ Stop
  <2>1. at' = "idle" /\ DOMAIN got' = {} /\ flood' = flood
    BY <1>8 DEF TimeLimit, Stop, failure_body, Leave
  <2> QED  BY <2>1 DEF CountersTraced
<1>9. ASSUME NEW n \in {500, 1000}, Frames(n) PROVE CountersTraced'
  <2>1. /\ at = "rate_sample" /\ UNCHANGED <<at, got>> /\ flood' = flood + n
        /\ \/ nic' = [nic EXCEPT !.rx_broadcast = @ + n]
           \/ nic' = [nic EXCEPT !.rx_multicast = @ + n]
    BY <1>9, Zenon DEF Frames
  <2>2. IsNic(nic) /\ "interface_again" \notin DOMAIN got /\ flood \in Nat
    BY <2>1 DEF CountersTraced
  <2>3. PICK old, new : old = nic /\ new = nic'
    OBVIOUS
  <2>4. IsNic(old) /\ n \in Nat
    BY <2>2, <2>3
  <2>5. \/ new = [old EXCEPT !.rx_broadcast = @ + n]
        \/ new = [old EXCEPT !.rx_multicast = @ + n]
    BY <2>1, <2>3, Zenon
  <2>6. IsNic(nic')
    <3>1. IsNic(new)
      BY <2>4, <2>5 DEF IsNic
    <3> QED  BY <2>3, <3>1
  <2>7. ASSUME NEW x \in got.interface
        PROVE  IsNic(x) /\ Growth(nic', x) <= flood + n
    <3>1. IsNic(x) /\ Growth(nic, x) <= flood
      BY <2>1 DEF CountersTraced
    <3>2. Growth(new, x) <= Growth(old, x) + n /\ Growth(old, x) \in Nat
      <4>1. CASE new = [old EXCEPT !.rx_broadcast = @ + n]
        BY <2>4, <3>1, <4>1, GrowthAdds
      <4>2. CASE new = [old EXCEPT !.rx_multicast = @ + n]
        BY <2>4, <3>1, <4>2, GrowthAdds
      <4> QED  BY <2>5, <4>1, <4>2
    <3>3. Growth(new, x) \in Int
      BY <2>3, <2>6, <3>1 DEF Growth, saturating_sub, IsNic
    <3> QED  BY <2>2, <2>3, <3>1, <3>2, <3>3
  <2> QED  BY <2>1, <2>2, <2>6, <2>7 DEF CountersTraced
<1>10. CASE Bounce
  <2>1. at = "rate_sample" /\ UNCHANGED <<at, got, flood>>
    BY <1>10 DEF Bounce
  <2>2. PICK r \in {"true", "false"}, p \in BOOLEAN :
            nic' = [nic EXCEPT !.rx_broadcast = 0, !.rx_multicast = 0,
                               !.running = r, !.present = p]
    BY <1>10, Zenon DEF Bounce
  <2>3. IsNic(nic) /\ "interface_again" \notin DOMAIN got /\ flood \in Nat
    BY <2>1 DEF CountersTraced
  <2>4. PICK old, new : old = nic /\ new = nic'
    OBVIOUS
  <2>5. new = [old EXCEPT !.rx_broadcast = 0, !.rx_multicast = 0,
                          !.running = r, !.present = p]
    BY <2>2, <2>4, Zenon
  <2>6. ASSUME NEW x, IsNic(x) PROVE IsNic(nic') /\ Growth(nic', x) <= flood
    <3>1. IsNic(old)
      BY <2>3, <2>4
    <3>2. IsNic(new) /\ Growth(new, x) = 0
      BY <2>5, <2>6, <3>1, GrowthRestarts, ZenonT(60)
    <3> QED  BY <2>3, <2>4, <3>2
  <2>7. IsNic(nic')
    BY <2>3, <2>6
  <2> QED  BY <2>1, <2>3, <2>6, <2>7 DEF CountersTraced
<1> QED  BY <1>1, <1>2, <1>3, <1>4, <1>5, <1>6, <1>7, <1>8, <1>9, <1>10 DEF Next

(* A rate that would be called a storm was seen only where that many       *)
(* frames arrived.                                                         *)
RatesEarned ==
    Idle => \A i \in collect(got).interfaces :
        i.rx_broadcast_per_s + i.rx_multicast_per_s >= BROADCAST_STORM_PPS
        => flood >= RATE_SAMPLE * BROADCAST_STORM_PPS

(* The counters' account holds throughout.                                 *)
LEMMA CountersInvariance == Spec => []CountersTraced
<1>1. Init => CountersTraced
  <2> SUFFICES ASSUME Init PROVE CountersTraced
    OBVIOUS
  <2>1. DOMAIN got = {} /\ at = "idle" /\ flood = 0
    BY DEF Init
  <2> QED  BY <2>1 DEF CountersTraced
<1> QED  BY <1>1, HostInvariance, NextCounters, PTL DEF Spec

(* Where the counters are accounted for, so are the rates.                 *)
LEMMA RatesFollow == CountersTraced => RatesEarned
<1> SUFFICES ASSUME CountersTraced,
                    NEW i \in collect(got).interfaces,
                    i.rx_broadcast_per_s + i.rx_multicast_per_s
                      >= BROADCAST_STORM_PPS
             PROVE  flood >= RATE_SAMPLE * BROADCAST_STORM_PPS
  BY DEF RatesEarned
<1>1. collect(got).interfaces =
          IF "interface_again" \in DOMAIN got
          THEN interface_rates(got.interface, got.interface_again) ELSE {}
  BY DEF collect, Snapshot, Read
<1>2. /\ "interface_again" \in DOMAIN got
      /\ i \in interface_rates(got.interface, got.interface_again)
  BY <1>1
<1>3. PICK b \in got.interface_again :
          /\ \E y \in got.interface : y.name = b.name
          /\ LET a == CHOOSE x \in got.interface : x.name = b.name
             IN  /\ i.rx_broadcast_per_s =
                       saturating_sub(b.rx_broadcast, a.rx_broadcast) \div 2
                 /\ i.rx_multicast_per_s =
                       saturating_sub(b.rx_multicast, a.rx_multicast) \div 2
  BY <1>2 DEF interface_rates, RATE_SAMPLE
<1>4. PICK a \in got.interface :
          /\ i.rx_broadcast_per_s =
                saturating_sub(b.rx_broadcast, a.rx_broadcast) \div 2
          /\ i.rx_multicast_per_s =
                saturating_sub(b.rx_multicast, a.rx_multicast) \div 2
  BY <1>3
<1>5. PICK p \in Nat, q \in Nat :
          /\ p = saturating_sub(b.rx_broadcast, a.rx_broadcast)
          /\ q = saturating_sub(b.rx_multicast, a.rx_multicast)
  BY <1>2 DEF CountersTraced, IsNic, saturating_sub
<1>6. p + q <= flood /\ flood \in Nat
  BY <1>2, <1>5 DEF CountersTraced, Growth
<1>7. p \div 2 + q \div 2 >= 500
  BY <1>4, <1>5 DEF BROADCAST_STORM_PPS
<1> QED  BY <1>6, <1>7 DEF BROADCAST_STORM_PPS, RATE_SAMPLE

(* However the interface bounced, went away or came back between the two   *)
(* readings, the rates the survey computes never amount to a storm unless  *)
(* the frames arrived (collect_interface_rates).                           *)
THEOREM StormRatesAreEarned == Spec => []RatesEarned
<1> QED  BY RatesFollow, CountersInvariance, PTL

-----------------------------------------------------------------------------
(* What a table's rows are.                                                *)
LEMMA TableFacts ==
  ASSUME NEW s, IsTable(s)
  PROVE  /\ Len(s) \in Nat /\ DOMAIN s = 1..Len(s)
         /\ ToSet(s) = {s[i] : i \in 1..Len(s)}
         /\ s = << >> <=> Len(s) = 0
  BY DEF IsTable, ToSet

(* A function on an interval from 1 is a table.                            *)
LEMMA TableOf ==
  ASSUME NEW n \in Nat, NEW X, NEW f \in [1..n -> X]
  PROVE  /\ IsTable(f) /\ Len(f) = n
         /\ ToSet(f) = {f[i] : i \in 1..n}
<1>1. DOMAIN f = 1..n
  OBVIOUS
<1>2. ToSet(f) = {f[i] : i \in 1..n}
  BY <1>1 DEF ToSet
<1>3. f \in [1..n -> ToSet(f)]
  BY <1>2
<1>4. f \in Seq(ToSet(f)) /\ Len(f) = n
  <2>1. PICK Y : Y = ToSet(f)
    OBVIOUS
  <2>2. f \in Seq(Y)
    BY <1>3, <2>1
  <2>3. Len(f) = n
    BY <1>1, <2>2
  <2> QED  BY <2>1, <2>2, <2>3
<1> QED  BY <1>2, <1>4 DEF IsTable

(* One table after another.                                                *)
LEMMA Joined ==
  ASSUME NEW s, IsTable(s), NEW t, IsTable(t)
  PROVE  IsTable(s \o t) /\ ToSet(s \o t) = ToSet(s) \union ToSet(t)
<1>1. PICK X : X = ToSet(s) \union ToSet(t)
  OBVIOUS
<1>2. s \in Seq(X) /\ t \in Seq(X)
  BY <1>1 DEF IsTable
<1>3. /\ Len(s \o t) = Len(s) + Len(t) /\ Len(s) \in Nat /\ Len(t) \in Nat
      /\ DOMAIN (s \o t) = 1..(Len(s) + Len(t))
      /\ \A i \in 1..(Len(s) + Len(t)) :
            (s \o t)[i] = IF i <= Len(s) THEN s[i] ELSE t[i - Len(s)]
  BY <1>2
<1>4. ToSet(s) = {s[i] : i \in 1..Len(s)} /\ ToSet(t) = {t[i] : i \in 1..Len(t)}
  BY TableFacts
<1>5. ToSet(s \o t) = {(s \o t)[i] : i \in 1..(Len(s) + Len(t))}
  BY <1>3 DEF ToSet
<1>6. ToSet(s \o t) \subseteq X
  <2>1. \A i \in 1..(Len(s) + Len(t)) : i <= Len(s) => i \in 1..Len(s)
    BY <1>3
  <2>2. \A i \in 1..(Len(s) + Len(t)) : ~(i <= Len(s)) => i - Len(s) \in 1..Len(t)
    BY <1>3
  <2> QED  BY <1>1, <1>3, <1>4, <1>5, <2>1, <2>2
<1>7. ASSUME NEW i \in 1..Len(s) PROVE s[i] \in ToSet(s \o t)
  <2>1. i \in 1..(Len(s) + Len(t)) /\ i <= Len(s)
    BY <1>3
  <2> QED  BY <1>3, <1>5, <2>1
<1>8. ASSUME NEW i \in 1..Len(t) PROVE t[i] \in ToSet(s \o t)
  <2>1. /\ Len(s) + i \in 1..(Len(s) + Len(t)) /\ ~(Len(s) + i <= Len(s))
        /\ (Len(s) + i) - Len(s) = i
    BY <1>3
  <2> QED  BY <1>3, <1>5, <2>1
<1>9. ToSet(s \o t) = X
  BY <1>1, <1>4, <1>6, <1>7, <1>8
<1>10. s \o t \in Seq(X)
  BY <1>2
<1> QED  BY <1>1, <1>9, <1>10 DEF IsTable

(* The rows at some positions of a table are a table, and those are its    *)
(* rows.                                                                   *)
LEMMA RowsOf ==
  ASSUME NEW s, IsTable(s), NEW I, I \subseteq 1..Len(s)
  PROVE  /\ IsTable(Rows(s, I)) /\ Len(Rows(s, I)) = Cardinality(I)
         /\ Cardinality(I) \in Nat
         /\ ToSet(Rows(s, I)) = {s[i] : i \in I}
<1>1. PICK n \in Nat : n = Len(s) /\ I \in SUBSET (1..n)
  BY TableFacts
<1>2. /\ Cardinality(I) \in Nat /\ Len(Rows(s, I)) = Cardinality(I)
      /\ DOMAIN Rows(s, I) = 1..Cardinality(I)
      /\ \A k \in 1..Cardinality(I) : Nth(I, k) \in I /\ Rows(s, I)[k] = s[Nth(I, k)]
      /\ \A i \in I : \E k \in 1..Cardinality(I) : Nth(I, k) = i
  BY <1>1, RowsFacts
<1>3. Rows(s, I) \in Seq(ToSet(s))
  BY RowsType DEF IsTable
<1>4. ToSet(Rows(s, I)) = {Rows(s, I)[k] : k \in 1..Cardinality(I)}
  BY <1>2 DEF ToSet
<1>5. ToSet(Rows(s, I)) = {s[i] : i \in I}
  <2>1. ASSUME NEW k \in 1..Cardinality(I) PROVE Rows(s, I)[k] \in {s[i] : i \in I}
    BY <1>2
  <2>2. ASSUME NEW i \in I PROVE s[i] \in ToSet(Rows(s, I))
    BY <1>2, <1>4
  <2> QED  BY <1>4, <2>1, <2>2
<1>6. IsTable(Rows(s, I))
  <2>1. Rows(s, I) \in [1..Cardinality(I) -> ToSet(Rows(s, I))]
    BY <1>2, <1>3, <1>4
  <2> QED  BY <1>2, <2>1, TableOf
<1> QED  BY <1>2, <1>5, <1>6

(* A finite set, written down in some order.                               *)
LEMMA Listed ==
  ASSUME NEW S, IsFiniteSet(S)
  PROVE  IsTable(SetToSeq(S)) /\ ToSet(SetToSeq(S)) = S
<1> DEFINE n == Cardinality(S)
<1>1. n \in Nat /\ ExistsBijection(1..n, S)
  BY FS_CardinalityType
<1>2. PICK f \in [1..n -> S] : IsInjective(f) /\ \A x \in S : \E i \in 1..n : f[i] = x
  BY <1>1 DEF ExistsBijection, Bijection, Injection, Surjection
<1>3. SetToSeq(S) \in [1..n -> S] /\ IsInjective(SetToSeq(S))
  BY <1>2 DEF SetToSeq
<1>4. PICK g \in [1..n -> S] : g = SetToSeq(S) /\ g \in Injection(1..n, S)
  BY <1>3 DEF Injection
<1>5. IsFiniteSet(1..n) /\ Cardinality(1..n) = n
  <2>1. /\ IsFiniteSet(1..n)
        /\ Cardinality(1..n) = IF 1 > n THEN 0 ELSE n - 1 + 1
    BY <1>1, FS_Interval
  <2> QED  BY <1>1, <2>1
<1>6. g \in Surjection(1..n, S)
  BY <1>4, <1>5, FS_Injection
<1>7. \A x \in S : \E i \in 1..n : g[i] = x
  BY <1>6 DEF Surjection
<1>8. IsTable(g) /\ ToSet(g) = {g[i] : i \in 1..n}
  BY <1>1, TableOf
<1> QED  BY <1>4, <1>7, <1>8

(* The rows of a table are finitely many.                                  *)
LEMMA RowsFinite ==
  ASSUME NEW s, IsTable(s)
  PROVE  IsFiniteSet(ToSet(s))
<1>1. Len(s) \in Nat /\ ToSet(s) = {s[i] : i \in 1..Len(s)}
  BY TableFacts
<1>2. IsFiniteSet(1..Len(s))
  BY <1>1, FS_Interval
<1>3. [i \in 1..Len(s) |-> s[i]] \in Surjection(1..Len(s), ToSet(s))
  BY <1>1 DEF Surjection
<1> QED  BY <1>2, <1>3, FS_Surjection

(* Nothing, and one row, are tables.                                       *)
LEMMA ShortTables ==
  /\ IsTable(<< >>) /\ ToSet(<< >>) = {}
  /\ \A x : IsTable(<<x>>) /\ ToSet(<<x>>) = {x}
<1>1. ToSet(<< >>) = {} /\ IsTable(<< >>)
  BY DEF ToSet, IsTable
<1>2. ASSUME NEW x PROVE IsTable(<<x>>) /\ ToSet(<<x>>) = {x}
  <2>1. ToSet(<<x>>) = {x}
    BY DEF ToSet
  <2> QED  BY <2>1 DEF IsTable
<1> QED  BY <1>1, <1>2

(* A rule that names something makes one finding of it, or none.           *)
LEMMA NamingFacts ==
  ASSUME NEW code, NEW severity, NEW names
  PROVE  /\ IsTable(Naming(code, severity, names))
         /\ ToSet(Naming(code, severity, names))
               = IF names = {} THEN {} ELSE {Finding(code, severity, names)}
  BY ShortTables DEF Naming

-----------------------------------------------------------------------------
(* The survey's rules.                                                     *)
GoodSnapshot(s) ==
    /\ IsTable(s.clients) /\ IsTable(s.radios) /\ IsTable(s.neighbour_aps)
    /\ IsTable(s.arp) /\ IsTable(s.leases)
    /\ IsFiniteSet(s.interfaces) /\ s.dhcp_pool_size \in Nat

Meaningful(s, m) == \E c \in ToSet(s.clients) : c.mac = m /\ rate_is_meaningful(c)

(* A slow client is one whose rate is meaningful.                          *)
LEMMA SlowRule ==
  ASSUME NEW s, GoodSnapshot(s)
  PROVE  /\ IsTable(slow_client_airtime(s))
         /\ \A f \in ToSet(slow_client_airtime(s)) :
               /\ f.code = "wifi.slow_client_airtime"
               /\ \A m \in f.names : Meaningful(s, m)
<1> DEFINE on(i) == Where(s.clients,
                LAMBDA c : c.interface = i /\ rate_is_meaningful(c))
           slow(i) == Where(on(i), LAMBDA c : c.tx_rate_bps <= SLOW_RATE_BPS)
           fastest(i) == Max({c.tx_rate_bps : c \in ToSet(on(i))})
           slowest(i) == Min({c.tx_rate_bps : c \in ToSet(slow(i))})
           serious(i) == \/ 4 * Len(slow(i)) >= Len(on(i))
                         \/ slowest(i) = 0 \/ fastest(i) \div 20 >= slowest(i)
           interfaces == {c.interface : c \in ToSet(s.clients)}
           troubled == {i \in interfaces :
                           /\ Len(on(i)) >= MIN_CLIENTS_FOR_CONTENTION
                           /\ slow(i) # << >>}
           of(i) == Finding("wifi.slow_client_airtime",
                            IF serious(i) THEN "critical" ELSE "warning",
                            Macs(ToSet(slow(i))))
           found == {of(i) : i \in troubled}
<1>1. slow_client_airtime(s) = SetToSeq(found)
  BY DEF slow_client_airtime
<1>2. IsTable(s.clients)
  BY DEF GoodSnapshot
<1>3. ASSUME NEW i
      PROVE  /\ IsTable(on(i))
             /\ \A c \in ToSet(on(i)) : c \in ToSet(s.clients) /\ rate_is_meaningful(c)
  <2> DEFINE I == {k \in 1..Len(s.clients) :
                     s.clients[k].interface = i /\ rate_is_meaningful(s.clients[k])}
  <2>1. on(i) = Rows(s.clients, I)
    BY DEF Where
  <2>2. /\ IsTable(Rows(s.clients, I))
        /\ ToSet(Rows(s.clients, I)) = {s.clients[k] : k \in I}
    <3>1. I \subseteq 1..Len(s.clients)
      OBVIOUS
    <3> HIDE DEF I
    <3> QED  BY <1>2, <3>1, RowsOf
  <2>3. ToSet(s.clients) = {s.clients[k] : k \in 1..Len(s.clients)}
    BY <1>2, TableFacts
  <2> HIDE DEF on
  <2> QED  BY <2>1, <2>2, <2>3
<1> HIDE DEF on
<1>4. ASSUME NEW i, NEW c \in ToSet(slow(i)) PROVE c \in ToSet(on(i))
  <2> DEFINE I == {k \in 1..Len(on(i)) : on(i)[k].tx_rate_bps <= SLOW_RATE_BPS}
  <2>1. slow(i) = Rows(on(i), I)
    BY DEF Where
  <2>2. ToSet(Rows(on(i), I)) = {on(i)[k] : k \in I}
    <3>1. I \subseteq 1..Len(on(i))
      OBVIOUS
    <3> HIDE DEF I
    <3> QED  BY <1>3, <3>1, RowsOf
  <2>3. ToSet(on(i)) = {on(i)[k] : k \in 1..Len(on(i))}
    BY <1>3, TableFacts
  <2> HIDE DEF slow
  <2> QED  BY <2>1, <2>2, <2>3
<1>5. ASSUME NEW i PROVE /\ of(i).code = "wifi.slow_client_airtime"
                         /\ \A m \in of(i).names : Meaningful(s, m)
  <2>1. /\ of(i).code = "wifi.slow_client_airtime"
        /\ of(i).names = {c.mac : c \in ToSet(slow(i))}
    BY DEF Finding, Macs
  <2> HIDE DEF slow, of
  <2> QED  BY <1>3, <1>4, <2>1 DEF Meaningful
<1> HIDE DEF slow, of, serious
<1>6. IsFiniteSet(found)
  <2>1. IsFiniteSet(ToSet(s.clients))
    BY <1>2, RowsFinite
  <2>2. [c \in ToSet(s.clients) |-> c.interface] \in Surjection(ToSet(s.clients), interfaces)
    BY DEF Surjection
  <2>3. IsFiniteSet(interfaces)
    BY <2>1, <2>2, FS_Surjection
  <2>4. IsFiniteSet(troubled)
    <3>1. troubled \in SUBSET interfaces
      OBVIOUS
    <3> HIDE DEF troubled, interfaces
    <3> QED  BY <2>3, <3>1, FS_Subset
  <2>5. [i \in troubled |-> of(i)] \in Surjection(troubled, found)
    <3> HIDE DEF troubled
    <3> QED  BY DEF Surjection
  <2> HIDE DEF found, troubled
  <2> QED  BY <2>4, <2>5, FS_Surjection
<1>7. IsTable(SetToSeq(found)) /\ ToSet(SetToSeq(found)) = found
  <2> HIDE DEF found
  <2> QED  BY <1>6, Listed
<1>8. \A f \in found : \E i : f = of(i)
  <2> HIDE DEF troubled
  <2> QED  OBVIOUS
<1> HIDE DEF found
<1> QED  BY <1>1, <1>5, <1>7, <1>8

(* Weak clients, and strong ones at a slow rate that is meaningful.        *)
LEMMA SignalRules ==
  ASSUME NEW s, GoodSnapshot(s)
  PROVE  /\ IsTable(weak_signal_clients(s))
         /\ \A f \in ToSet(weak_signal_clients(s)) : f.code = "wifi.weak_signal"
         /\ IsTable(rate_signal_mismatch(s))
         /\ \A f \in ToSet(rate_signal_mismatch(s)) :
               /\ f.code = "wifi.rate_signal_mismatch"
               /\ \A m \in f.names : Meaningful(s, m)
<1>1. /\ IsTable(weak_signal_clients(s))
      /\ \A f \in ToSet(weak_signal_clients(s)) : f.code = "wifi.weak_signal"
  <2>1. PICK weak : weak_signal_clients(s) = Naming("wifi.weak_signal", "warning", weak)
    BY DEF weak_signal_clients
  <2> QED  BY <2>1, NamingFacts DEF Finding
<1> DEFINE names == Macs(Filter(s.clients, LAMBDA c :
                       /\ rate_is_meaningful(c)
                       /\ c.signal_dbm >= STRONG_SIGNAL_DBM
                       /\ c.tx_rate_bps <= SLOW_RATE_BPS))
<1>2. \A m \in names : Meaningful(s, m)
  BY DEF Macs, Filter, Meaningful
<1>3. rate_signal_mismatch(s) = Naming("wifi.rate_signal_mismatch", "warning", names)
  BY DEF rate_signal_mismatch
<1> HIDE DEF names
<1>4. /\ IsTable(rate_signal_mismatch(s))
      /\ \A f \in ToSet(rate_signal_mismatch(s)) :
            f.code = "wifi.rate_signal_mismatch" /\ f.names = names
  BY <1>3, NamingFacts DEF Finding
<1> QED  BY <1>1, <1>2, <1>4

(* Clients could be steered where there is a radio to steer them to.       *)
LEMMA SteeringRule ==
  ASSUME NEW s, GoodSnapshot(s)
  PROVE  /\ IsTable(band_steering_opportunity(s))
         /\ \A f \in ToSet(band_steering_opportunity(s)) :
               f.code = "wifi.band_steering_opportunity" /\ s.radios # << >>
<1>1. ASSUME NEW r \in ToSet(s.radios) PROVE s.radios # << >>
  BY ShortTables
<1>2. CASE ~\E r \in ToSet(s.radios) : r.band = "5ghz"
  BY <1>2, ShortTables DEF band_steering_opportunity
<1>3. CASE \E r \in ToSet(s.radios) : r.band = "5ghz"
  <2>1. PICK names : band_steering_opportunity(s)
                       = Naming("wifi.band_steering_opportunity", "info", names)
    BY <1>3 DEF band_steering_opportunity
  <2> QED  BY <1>1, <1>3, <2>1, NamingFacts DEF Finding
<1> QED  BY <1>2, <1>3

(* A finding for each radio that shares its channel.                       *)
LEMMA ContentionRule ==
  ASSUME NEW s, GoodSnapshot(s)
  PROVE  /\ IsTable(co_channel_contention(s))
         /\ \A f \in ToSet(co_channel_contention(s)) :
               f.code = "wifi.co_channel_contention"
<1> DEFINE contenders(r) == Where(s.neighbour_aps, LAMBDA n :
                              /\ n.frequency_mhz = r.frequency_mhz
                              /\ n.signal_dbm >= SIGNIFICANT_AP_DBM)
           shared == Where(s.radios, LAMBDA r :
                       r.frequency_mhz > 0 /\ Len(contenders(r)) >= 2)
           of(i) == Finding("wifi.co_channel_contention",
                            IF Len(contenders(shared[i])) >= 4 THEN "critical"
                            ELSE "warning",
                            {shared[i].name})
<1>1. co_channel_contention(s) = [i \in 1..Len(shared) |-> of(i)]
  BY DEF co_channel_contention
<1>2. Len(shared) \in Nat
  <2> DEFINE I == {k \in 1..Len(s.radios) : s.radios[k].frequency_mhz > 0
                                          /\ Len(contenders(s.radios[k])) >= 2}
  <2>1. shared = Rows(s.radios, I)
    BY DEF Where
  <2>2. I \subseteq 1..Len(s.radios)
    OBVIOUS
  <2> HIDE DEF I, shared
  <2> QED  BY <2>1, <2>2, RowsOf DEF GoodSnapshot
<1>3. \A i : of(i).code = "wifi.co_channel_contention"
  BY DEF Finding
<1> HIDE DEF shared, of
<1>4. PICK n \in Nat : n = Len(shared)
  BY <1>2
<1>5. PICK X : X = {of(i) : i \in 1..n}
  OBVIOUS
<1>6. PICK f \in [1..n -> X] : f = [i \in 1..n |-> of(i)]
  BY <1>5
<1>7. IsTable(f) /\ ToSet(f) = {f[i] : i \in 1..n}
  BY TableOf
<1> QED  BY <1>1, <1>3, <1>4, <1>6, <1>7

(* A storm is called on a rate at or above the threshold.                  *)
LEMMA StormRule ==
  ASSUME NEW s, GoodSnapshot(s)
  PROVE  /\ IsTable(broadcast_storm(s))
         /\ \A f \in ToSet(broadcast_storm(s)) :
               /\ f.code = "network.broadcast_storm"
               /\ \E i \in s.interfaces :
                     i.rx_broadcast_per_s + i.rx_multicast_per_s >= BROADCAST_STORM_PPS
<1> DEFINE stormy == {x \in s.interfaces :
                        /\ x.running
                        /\ x.rx_broadcast_per_s + x.rx_multicast_per_s
                             >= BROADCAST_STORM_PPS}
           of(i) == Finding("network.broadcast_storm", "critical", {i.name})
           found == {of(i) : i \in stormy}
<1>1. broadcast_storm(s) = SetToSeq(found)
  BY DEF broadcast_storm
<1>2. \A i : of(i).code = "network.broadcast_storm"
  BY DEF Finding
<1> HIDE DEF of
<1>3. IsFiniteSet(stormy)
  <2>1. stormy \in SUBSET s.interfaces
    OBVIOUS
  <2> HIDE DEF stormy
  <2> QED  BY <2>1, FS_Subset DEF GoodSnapshot
<1>4. \A i \in stormy : /\ i \in s.interfaces
                      /\ i.rx_broadcast_per_s + i.rx_multicast_per_s
                           >= BROADCAST_STORM_PPS
  OBVIOUS
<1> HIDE DEF stormy
<1>5. [i \in stormy |-> of(i)] \in Surjection(stormy, found)
  BY DEF Surjection
<1>6. \A f \in found : \E i \in stormy : f = of(i)
  OBVIOUS
<1> HIDE DEF found
<1>7. IsFiniteSet(found)
  BY <1>3, <1>5, FS_Surjection
<1>8. IsTable(SetToSeq(found)) /\ ToSet(SetToSeq(found)) = found
  BY <1>7, Listed
<1> QED  BY <1>1, <1>2, <1>4, <1>6, <1>8

(* An address used twice is one the router has an entry for.               *)
LEMMA DuplicateRule ==
  ASSUME NEW s, GoodSnapshot(s)
  PROVE  /\ IsTable(duplicate_addresses(s))
         /\ \A f \in ToSet(duplicate_addresses(s)) :
               f.code = "network.duplicate_address" /\ s.arp # << >>
<1> DEFINE entries == Filter(s.arp, LAMBDA e : e.complete)
           macs(a) == {e.mac : e \in {x \in entries : x.address = a}}
           addresses == {e.address : e \in entries}
           twice == {x \in addresses : Cardinality(macs(x)) > 1}
           of(a) == Finding("network.duplicate_address", "critical", {a})
           found == {of(a) : a \in twice}
<1>1. duplicate_addresses(s) = SetToSeq(found)
  BY DEF duplicate_addresses
<1>2. \A a : of(a).code = "network.duplicate_address"
  BY DEF Finding
<1> HIDE DEF of, macs
<1>3. entries \in SUBSET ToSet(s.arp)
  BY DEF Filter
<1> HIDE DEF entries
<1>4. IsFiniteSet(entries)
  <2>1. IsFiniteSet(ToSet(s.arp))
    BY RowsFinite DEF GoodSnapshot
  <2> QED  BY <1>3, <2>1, FS_Subset
<1>5. [e \in entries |-> e.address] \in Surjection(entries, addresses)
  BY DEF Surjection
<1>6. twice \in SUBSET addresses /\ \A a \in twice : \E e \in entries : TRUE
  OBVIOUS
<1> HIDE DEF addresses
<1>7. IsFiniteSet(addresses)
  BY <1>4, <1>5, FS_Surjection
<1> HIDE DEF twice
<1>8. IsFiniteSet(twice)
  BY <1>6, <1>7, FS_Subset
<1>9. [a \in twice |-> of(a)] \in Surjection(twice, found)
  BY DEF Surjection
<1>10. \A f \in found : \E a \in twice : f = of(a)
  OBVIOUS
<1> HIDE DEF found
<1>11. IsFiniteSet(found)
  BY <1>8, <1>9, FS_Surjection
<1>12. IsTable(SetToSeq(found)) /\ ToSet(SetToSeq(found)) = found
  BY <1>11, Listed
<1>13. ASSUME NEW e \in ToSet(s.arp) PROVE s.arp # << >>
  BY ShortTables
<1> QED  BY <1>1, <1>2, <1>3, <1>6, <1>10, <1>12, <1>13

(* A stray is in the router's table and in no lease.                       *)
Stray(s, a) ==
    \E e \in ToSet(s.arp) :
        e.address = a /\ ~\E l \in ToSet(s.leases) : same_mac(l.mac, e.mac)

(* Only strays are called so, and only where there are leases.             *)
LEMMA UnleasedRule ==
  ASSUME NEW s, GoodSnapshot(s)
  PROVE  /\ IsTable(unleased_devices(s))
         /\ \A f \in ToSet(unleased_devices(s)) :
               /\ f.code = "network.unleased_device"
               /\ s.leases # << >> /\ s.arp # << >>
               /\ \A a \in f.names : Stray(s, a)
<1>1. CASE s.leases = << >>
  BY <1>1, ShortTables DEF unleased_devices
<1>2. CASE s.leases # << >>
  <2> DEFINE names == {e.address : e \in Filter(s.arp, LAMBDA e :
                          e.complete /\ ~e.from_dhcp
                          /\ ~\E l \in ToSet(s.leases) :
                                  same_mac(l.mac, e.mac))}
  <2>1. unleased_devices(s) = Naming("network.unleased_device", "info", names)
    BY <1>2 DEF unleased_devices
  <2>2. \A a \in names : Stray(s, a)
    BY DEF Filter, Stray
  <2>3. ASSUME NEW e \in ToSet(s.arp) PROVE s.arp # << >>
    BY ShortTables
  <2>4. names # {} => s.arp # << >>
    BY <2>2, <2>3 DEF Stray
  <2> HIDE DEF names
  <2>5. /\ IsTable(unleased_devices(s))
        /\ \A f \in ToSet(unleased_devices(s)) :
              f.code = "network.unleased_device" /\ f.names = names /\ names # {}
    BY <2>1, NamingFacts DEF Finding
  <2> QED  BY <1>2, <2>2, <2>4, <2>5
<1> QED  BY <1>1, <1>2

(* Pressure on a pool needs a pool and leases.                             *)
LEMMA PressureRule ==
  ASSUME NEW s, GoodSnapshot(s)
  PROVE  /\ IsTable(dhcp_pool_pressure(s))
         /\ \A f \in ToSet(dhcp_pool_pressure(s)) :
               /\ f.code = "network.dhcp_pool_pressure"
               /\ s.dhcp_pool_size # 0 /\ s.leases # << >>
<1> DEFINE active == Len(Where(s.leases, LAMBDA l : l.active))
           I == {k \in 1..Len(s.leases) : s.leases[k].active}
           severity == IF 100 * active >= 95 * s.dhcp_pool_size THEN "critical"
                       ELSE "warning"
<1>1. CASE s.dhcp_pool_size = 0 \/ 100 * active < 85 * s.dhcp_pool_size
  BY <1>1, ShortTables DEF dhcp_pool_pressure
<1>2. CASE ~(s.dhcp_pool_size = 0 \/ 100 * active < 85 * s.dhcp_pool_size)
  <2>1. dhcp_pool_pressure(s)
          = <<Finding("network.dhcp_pool_pressure", severity, {})>>
    BY <1>2 DEF dhcp_pool_pressure
  <2>2. s.leases # << >>
    <3>1. SUFFICES ASSUME s.leases = << >> PROVE FALSE
      OBVIOUS
    <3>2. active = Cardinality(I)
      <4>1. Where(s.leases, LAMBDA l : l.active) = Rows(s.leases, I)
        BY DEF Where
      <4>2. I \subseteq 1..Len(s.leases)
        OBVIOUS
      <4> HIDE DEF I
      <4> QED  BY <4>1, <4>2, RowsOf DEF GoodSnapshot
    <3>3. I = {}
      BY <3>1
    <3>4. active = 0
      BY <3>2, <3>3, FS_EmptySet
    <3> QED  BY <1>2, <3>4 DEF GoodSnapshot
  <2> HIDE DEF severity
  <2> QED  BY <1>2, <2>1, <2>2, ShortTables DEF Finding
<1> QED  BY <1>1, <1>2

(* Sorting adds no finding.                                                *)
LEMMA SortingAddsNone ==
  ASSUME NEW found, IsTable(found)
  PROVE  /\ IsTable(most_severe_first(found))
         /\ ToSet(most_severe_first(found)) \subseteq ToSet(found)
<1> DEFINE of(severity) == Where(found, LAMBDA f : f.severity = severity)
<1>1. ASSUME NEW severity
      PROVE  IsTable(of(severity)) /\ ToSet(of(severity)) \subseteq ToSet(found)
  <2> DEFINE I == {i \in 1..Len(found) : found[i].severity = severity}
  <2>1. of(severity) = Rows(found, I)
    BY DEF Where
  <2>2. I \in SUBSET (1..Len(found))
    OBVIOUS
  <2> HIDE DEF I
  <2>3. IsTable(Rows(found, I)) /\ ToSet(Rows(found, I)) = {found[i] : i \in I}
    BY <2>2, RowsOf
  <2>4. ToSet(found) = {found[i] : i \in 1..Len(found)}
    BY TableFacts
  <2> HIDE DEF of
  <2> QED  BY <2>1, <2>2, <2>3, <2>4
<1>2. most_severe_first(found) = of("critical") \o of("warning") \o of("info")
  BY DEF most_severe_first
<1> HIDE DEF of
<1>3. PICK a, b, c : a = of("critical") /\ b = of("warning") /\ c = of("info")
  OBVIOUS
<1>4. /\ IsTable(a) /\ IsTable(b) /\ IsTable(c)
      /\ ToSet(a) \union ToSet(b) \union ToSet(c) \subseteq ToSet(found)
  BY <1>1, <1>3
<1>5. IsTable(a \o b) /\ ToSet(a \o b) = ToSet(a) \union ToSet(b)
  BY <1>4, Joined
<1>6. IsTable((a \o b) \o c) /\ ToSet((a \o b) \o c) = ToSet(a \o b) \union ToSet(c)
  BY <1>4, <1>5, Joined
<1> QED  BY <1>2, <1>3, <1>4, <1>5, <1>6

(* What each finding of a survey says is so of the snapshot.               *)
Earned(s, f) ==
    /\ f.code \in {"wifi.slow_client_airtime", "wifi.rate_signal_mismatch"} =>
          \A m \in f.names : Meaningful(s, m)
    /\ f.code = "wifi.band_steering_opportunity" => s.radios # << >>
    /\ f.code = "network.broadcast_storm" =>
          \E i \in s.interfaces :
             i.rx_broadcast_per_s + i.rx_multicast_per_s >= BROADCAST_STORM_PPS
    /\ f.code = "network.duplicate_address" => s.arp # << >>
    /\ f.code = "network.unleased_device" =>
          s.leases # << >> /\ s.arp # << >> /\ \A a \in f.names : Stray(s, a)
    /\ f.code = "network.dhcp_pool_pressure" =>
          s.dhcp_pool_size # 0 /\ s.leases # << >>

(* Every finding of a survey is earned.                                    *)
LEMMA AnalyseEarned ==
  ASSUME NEW s, GoodSnapshot(s)
  PROVE  IsTable(analyse(s)) /\ \A f \in ToSet(analyse(s)) : Earned(s, f)
<1> DEFINE Ok(t) == IsTable(t) /\ \A f \in ToSet(t) : Earned(s, f)
<1>1. Ok(slow_client_airtime(s))
  BY SlowRule DEF Earned
<1>2. Ok(weak_signal_clients(s)) /\ Ok(rate_signal_mismatch(s))
  BY SignalRules DEF Earned
<1>3. Ok(band_steering_opportunity(s))
  BY SteeringRule DEF Earned
<1>4. Ok(co_channel_contention(s))
  BY ContentionRule DEF Earned
<1>5. Ok(broadcast_storm(s))
  BY StormRule DEF Earned
<1>6. Ok(duplicate_addresses(s))
  BY DuplicateRule DEF Earned
<1>7. Ok(unleased_devices(s))
  BY UnleasedRule DEF Earned
<1>8. Ok(dhcp_pool_pressure(s))
  BY PressureRule DEF Earned
<1>9. ASSUME NEW a, NEW b, Ok(a), Ok(b) PROVE Ok(a \o b)
  BY <1>9, Joined
<1>10. PICK found :
          /\ Ok(found)
          /\ analyse(s) = most_severe_first(found)
  <2> HIDE DEF Ok
  <2> DEFINE a == slow_client_airtime(s) \o weak_signal_clients(s)
             b == a \o rate_signal_mismatch(s)
             c == b \o band_steering_opportunity(s)
             d == c \o co_channel_contention(s)
             e == d \o broadcast_storm(s)
             f == e \o duplicate_addresses(s)
             g == f \o unleased_devices(s)
             h == g \o dhcp_pool_pressure(s)
  <2>1. analyse(s) = most_severe_first(h)
    BY DEF analyse
  <2>2. Ok(a)
    BY <1>1, <1>2, <1>9
  <2> HIDE DEF a
  <2>3. Ok(b)
    BY <1>2, <1>9, <2>2
  <2> HIDE DEF b
  <2>4. Ok(c)
    BY <1>3, <1>9, <2>3
  <2> HIDE DEF c
  <2>5. Ok(d)
    BY <1>4, <1>9, <2>4
  <2> HIDE DEF d
  <2>6. Ok(e)
    BY <1>5, <1>9, <2>5
  <2> HIDE DEF e
  <2>7. Ok(f)
    BY <1>6, <1>9, <2>6
  <2> HIDE DEF f
  <2>8. Ok(g)
    BY <1>7, <1>9, <2>7
  <2> HIDE DEF g
  <2>9. Ok(h)
    BY <1>8, <1>9, <2>8
  <2> QED  BY <2>1, <2>9
<1> QED  BY <1>10, SortingAddsNone

-----------------------------------------------------------------------------
(* The parsers.                                                            *)

(* A row for each row, those that pass the test: what it is made of.       *)
LEMMA Parsed ==
  ASSUME NEW rows, IsTable(rows), NEW made, DOMAIN made = 1..Len(rows),
         made = [i \in 1..Len(rows) |-> made[i]], NEW I \in SUBSET (1..Len(rows))
  PROVE  /\ IsTable(made) /\ Len(made) = Len(rows)
         /\ IsTable(Rows(made, I))
         /\ \A x \in ToSet(Rows(made, I)) : \E i \in I : x = made[i] /\ rows[i] \in ToSet(rows)
<1>1. PICK n \in Nat : n = Len(rows) /\ ToSet(rows) = {rows[i] : i \in 1..n}
  BY TableFacts
<1>2. PICK X : X = {made[i] : i \in 1..n}
  OBVIOUS
<1>3. made \in [1..n -> X]
  BY <1>1, <1>2
<1>4. IsTable(made) /\ Len(made) = n
  BY <1>1, <1>3, TableOf
<1>5. IsTable(Rows(made, I)) /\ ToSet(Rows(made, I)) = {made[i] : i \in I}
  <2>1. I \subseteq 1..Len(made)
    BY <1>1, <1>4
  <2> QED  BY <1>4, <2>1, RowsOf
<1>6. \A i \in I : rows[i] \in ToSet(rows)
  BY <1>1
<1> QED  BY <1>1, <1>4, <1>5, <1>6

(* Each entry of the router's table is one of its rows.                    *)
LEMMA ParsedArp ==
  ASSUME NEW rows, IsTable(rows)
  PROVE  /\ IsTable(parse_arp(rows))
         /\ \A e \in ToSet(parse_arp(rows)) : \E r \in ToSet(rows) :
               e.address = r.address /\ e.mac = r.mac
<1> DEFINE entry(r) == [address |-> r.address, mac |-> r.mac,
                        from_dhcp |-> bool_of(r.dhcp),
                        complete |-> bool_of(r.complete)]
           made == [i \in 1..Len(rows) |-> entry(rows[i])]
           I == {i \in 1..Len(made) : made[i].address # Blank}
<1>1. parse_arp(rows) = Rows(made, I)
  BY DEF parse_arp, Where
<1>2. Len(made) = Len(rows)
  BY TableFacts
<1>3. I \in SUBSET (1..Len(rows))
  BY <1>2
<1>4. /\ DOMAIN made = 1..Len(rows) /\ made = [i \in 1..Len(rows) |-> made[i]]
      /\ \A i \in 1..Len(rows) : made[i].address = rows[i].address
                               /\ made[i].mac = rows[i].mac
  OBVIOUS
<1> HIDE DEF made, I
<1>5. /\ IsTable(Rows(made, I))
      /\ \A x \in ToSet(Rows(made, I)) :
            \E i \in I : x = made[i] /\ rows[i] \in ToSet(rows)
  BY <1>3, <1>4, Parsed
<1> QED  BY <1>1, <1>3, <1>4, <1>5

(* The lease table is one.                                                 *)
LEMMA ParsedLeases ==
  ASSUME NEW rows, IsTable(rows)
  PROVE  IsTable(parse_leases(rows))
<1> DEFINE mac(r) == IF r.active_mac # NoMac THEN r.active_mac ELSE r.mac
           lease(r) == [address |-> first_non_empty(r, <<"active_address", "address">>),
                        mac |-> mac(r),
                        active |-> r.status = "bound" \/ r.active_address # Blank]
           made == [i \in 1..Len(rows) |-> lease(rows[i])]
           I == {i \in 1..Len(made) : made[i].mac # NoMac}
<1>1. parse_leases(rows) = Rows(made, I)
  BY DEF parse_leases, Where
<1> HIDE DEF lease
<1>2. Len(made) = Len(rows)
  BY TableFacts
<1>3. I \in SUBSET (1..Len(rows))
  BY <1>2
<1>4. DOMAIN made = 1..Len(rows) /\ made = [i \in 1..Len(rows) |-> made[i]]
  OBVIOUS
<1> HIDE DEF made, I
<1>5. IsTable(Rows(made, I))
  BY <1>3, <1>4, Parsed
<1> QED  BY <1>1, <1>5

(* Each client is a row of either stack's table, and has been quiet for    *)
(* as long as its row says.                                                *)
LEMMA ParsedClients ==
  ASSUME NEW rows, IsTable(rows)
  PROVE  /\ IsTable(parse_wifi_clients(rows)) /\ IsTable(parse_legacy_clients(rows))
         /\ \A c \in ToSet(parse_wifi_clients(rows))
                   \union ToSet(parse_legacy_clients(rows)) :
               \E r \in ToSet(rows) :
                  c.mac = r.mac /\ c.last_activity_s = parse_uptime(r.last_activity)
<1>1. /\ IsTable(parse_wifi_clients(rows))
      /\ \A c \in ToSet(parse_wifi_clients(rows)) : \E r \in ToSet(rows) :
            c.mac = r.mac /\ c.last_activity_s = parse_uptime(r.last_activity)
  <2> DEFINE client(r) == [mac |-> r.mac, interface |-> r.interface, band |-> r.band,
                           signal_dbm |-> num_of(r.signal),
                           tx_rate_bps |-> num_of(r.tx_rate),
                           last_activity_s |-> parse_uptime(r.last_activity)]
             made == [i \in 1..Len(rows) |-> client(rows[i])]
             I == {i \in 1..Len(made) : made[i].mac # NoMac}
  <2>1. parse_wifi_clients(rows) = Rows(made, I)
    BY DEF parse_wifi_clients, Where
  <2>2. Len(made) = Len(rows)
    BY TableFacts
  <2>3. I \in SUBSET (1..Len(rows))
    BY <2>2
  <2>4. /\ DOMAIN made = 1..Len(rows) /\ made = [i \in 1..Len(rows) |-> made[i]]
        /\ \A i \in 1..Len(rows) :
              /\ made[i].mac = rows[i].mac
              /\ made[i].last_activity_s = parse_uptime(rows[i].last_activity)
    OBVIOUS
  <2> HIDE DEF made, I
  <2>5. /\ IsTable(Rows(made, I))
        /\ \A x \in ToSet(Rows(made, I)) :
              \E i \in I : x = made[i] /\ rows[i] \in ToSet(rows)
    BY <2>3, <2>4, Parsed
  <2> QED  BY <2>1, <2>3, <2>4, <2>5
<1>2. /\ IsTable(parse_legacy_clients(rows))
      /\ \A c \in ToSet(parse_legacy_clients(rows)) : \E r \in ToSet(rows) :
            c.mac = r.mac /\ c.last_activity_s = parse_uptime(r.last_activity)
  <2> DEFINE client(r) == [mac |-> r.mac, interface |-> r.interface, band |-> r.band,
                           signal_dbm |-> num_of(r.signal),
                           tx_rate_bps |-> parse_legacy_rate(r.tx_rate),
                           last_activity_s |-> parse_uptime(r.last_activity)]
             made == [i \in 1..Len(rows) |-> client(rows[i])]
             I == {i \in 1..Len(made) : made[i].mac # NoMac}
  <2>1. parse_legacy_clients(rows) = Rows(made, I)
    BY DEF parse_legacy_clients, Where
  <2>2. Len(made) = Len(rows)
    BY TableFacts
  <2>3. I \in SUBSET (1..Len(rows))
    BY <2>2
  <2>4. /\ DOMAIN made = 1..Len(rows) /\ made = [i \in 1..Len(rows) |-> made[i]]
        /\ \A i \in 1..Len(rows) :
              /\ made[i].mac = rows[i].mac
              /\ made[i].last_activity_s = parse_uptime(rows[i].last_activity)
    OBVIOUS
  <2> HIDE DEF made, I
  <2>5. /\ IsTable(Rows(made, I))
        /\ \A x \in ToSet(Rows(made, I)) :
              \E i \in I : x = made[i] /\ rows[i] \in ToSet(rows)
    BY <2>3, <2>4, Parsed
  <2> QED  BY <2>1, <2>3, <2>4, <2>5
<1> QED  BY <1>1, <1>2

(* The radios of either stack are a table.                                 *)
LEMMA ParsedRadios ==
  ASSUME NEW rows, IsTable(rows)
  PROVE  IsTable(parse_wifi_radios(rows)) /\ IsTable(parse_legacy_radios(rows))
<1>0. Len(rows) \in Nat
  BY TableFacts
<1>1. IsTable(parse_wifi_radios(rows))
  <2> DEFINE radio(r) == [name |-> r.name, frequency_mhz |-> num_of(r.frequency),
                          band |-> first_non_empty(r, <<"channel_band", "band">>)]
             made == [i \in 1..Len(rows) |-> radio(rows[i])]
             I == {i \in 1..Len(made) : made[i].name # Blank}
  <2>1. parse_wifi_radios(rows) = Rows(made, I)
    BY DEF parse_wifi_radios, Where
  <2> HIDE DEF radio
  <2>2. Len(made) = Len(rows)
    BY <1>0
  <2>3. I \in SUBSET (1..Len(rows))
    BY <2>2
  <2>4. DOMAIN made = 1..Len(rows) /\ made = [i \in 1..Len(rows) |-> made[i]]
    OBVIOUS
  <2> HIDE DEF made, I
  <2>5. IsTable(Rows(made, I))
    BY <2>3, <2>4, Parsed
  <2> QED  BY <2>1, <2>5
<1>2. IsTable(parse_legacy_radios(rows))
  <2> DEFINE radio(r) == [name |-> r.name, frequency_mhz |-> num_of(r.frequency),
                          band |-> r.band]
             made == [i \in 1..Len(rows) |-> radio(rows[i])]
             I == {i \in 1..Len(made) : made[i].name # Blank}
  <2>1. parse_legacy_radios(rows) = Rows(made, I)
    BY DEF parse_legacy_radios, Where
  <2> HIDE DEF radio
  <2>2. Len(made) = Len(rows)
    BY <1>0
  <2>3. I \in SUBSET (1..Len(rows))
    BY <2>2
  <2>4. DOMAIN made = 1..Len(rows) /\ made = [i \in 1..Len(rows) |-> made[i]]
    OBVIOUS
  <2> HIDE DEF made, I
  <2>5. IsTable(Rows(made, I))
    BY <2>3, <2>4, Parsed
  <2> QED  BY <2>1, <2>5
<1> QED  BY <1>1, <1>2

(* The size of a pool is a natural number.                                 *)
LEMMA PoolSize ==
  ASSUME NEW pools \in Answers.pool
  PROVE  pool_size(pools) \in Nat
<1>1. /\ IsTable(pools)
      /\ \A parts \in ToSet(pools) :
            /\ IsTable(parts)
            /\ \A p \in ToSet(parts) : p.bare \/ (p.ok => {p.lo, p.hi} \subseteq Nat)
  BY AnswersAssumption
<1>2. ASSUME NEW parts \in ToSet(pools) PROVE count_range(parts) \in Nat
  <2> DEFINE of(p) == IF p.bare THEN 1
                      ELSE IF p.ok /\ p.hi >= p.lo THEN p.hi - p.lo + 1 ELSE 0
             ns == [i \in 1..Len(parts) |-> of(parts[i])]
  <2>1. count_range(parts) = Total(ns)
    BY DEF count_range, TotalOf
  <2>2. /\ Len(parts) \in Nat
        /\ \A i \in 1..Len(parts) : parts[i] \in ToSet(parts)
    BY <1>1, TableFacts
  <2>3. ASSUME NEW p \in ToSet(parts) PROVE of(p) \in Nat
    BY <1>1
  <2> HIDE DEF of
  <2>4. Len(ns) = Len(parts) /\ \A i \in 1..Len(parts) : ns[i] \in Nat
    BY <2>2, <2>3
  <2> HIDE DEF ns
  <2> QED  BY <2>1, <2>2, <2>4, TotalNat
<1> DEFINE ns == [i \in 1..Len(pools) |-> count_range(pools[i])]
<1>3. pool_size(pools) = Total(ns)
  BY DEF pool_size, TotalOf
<1>4. Len(pools) \in Nat /\ \A i \in 1..Len(pools) : pools[i] \in ToSet(pools)
  BY <1>1, TableFacts
<1>5. Len(ns) = Len(pools) /\ \A i \in 1..Len(pools) : ns[i] \in Nat
  BY <1>2, <1>4
<1> HIDE DEF ns
<1> QED  BY <1>3, <1>4, <1>5, TotalNat

(* A duration reads as the seconds it was written for, whatever its units. *)
LEMMA DurationsRead ==
  ASSUME NEW text, NEW secs, WrittenFor(text, secs)
  PROVE  parse_uptime(text) = secs
<1> DEFINE Units == {"w", "d", "h", "m", "s"}
           worth(part) == IF part[2] \in DOMAIN UnitSeconds
                          THEN part[1] * UnitSeconds[part[2]] ELSE 0
           ns == [i \in 1..Len(text) |-> worth(text[i])]
           seen(k, unit) == \E i \in 1..k : text[i][2] = unit
           count(k, unit) ==
               IF seen(k, unit) THEN text[CHOOSE i \in 1..k : text[i][2] = unit][1]
               ELSE 0
           sum(k) == 604800 * count(k, "w") + 86400 * count(k, "d")
                     + 3600 * count(k, "h") + 60 * count(k, "m") + count(k, "s")
<1>1. parse_uptime(text) = Total(ns)
  BY DEF parse_uptime, TotalOf
<1>2. /\ Len(text) \in Nat
      /\ \A i \in 1..Len(text) : text[i][1] \in Nat /\ text[i][2] \in Units
      /\ \A i, j \in 1..Len(text) : text[i][2] = text[j][2] => i = j
  BY DEF WrittenFor
<1>3. ASSUME NEW i \in 1..Len(text)
      PROVE  /\ text[i][2] = "w" => ns[i] = 604800 * text[i][1]
             /\ text[i][2] = "d" => ns[i] = 86400 * text[i][1]
             /\ text[i][2] = "h" => ns[i] = 3600 * text[i][1]
             /\ text[i][2] = "m" => ns[i] = 60 * text[i][1]
             /\ text[i][2] = "s" => ns[i] = text[i][1]
  <2>1. ns[i] = worth(text[i])
    OBVIOUS
  <2> HIDE DEF ns
  <2> QED  BY <1>2, <2>1, SMT DEF UnitSeconds
<1>4. Len(ns) = Len(text) /\ \A i \in 1..Len(text) : ns[i] \in Nat
  <2>1. ASSUME NEW i \in 1..Len(text) PROVE ns[i] \in Nat
    <3> HIDE DEF ns
    <3> QED  BY <1>2, <1>3
  <2> QED  BY <1>2, <2>1
<1> HIDE DEF ns
<1>5. PICK n \in Nat : n = Len(text)
  BY <1>2
<1>6. PICK f : RunningSum(f, ns, n) /\ Total(ns) = f[n]
  BY <1>4, <1>5, TotalFacts
<1>7. ASSUME NEW k \in 1..n, NEW i \in 1..k
      PROVE  count(k, text[i][2]) = text[i][1]
  <2>1. \A j \in 1..k : text[j][2] = text[i][2] => j = i
    BY <1>2, <1>5
  <2>2. (CHOOSE j \in 1..k : text[j][2] = text[i][2]) = i
    BY <2>1
  <2> QED  BY <2>2
<1>8. ASSUME NEW k \in 1..n, NEW unit \in Units, text[k][2] # unit
      PROVE  count(k, unit) = count(k - 1, unit)
  <2>1. k - 1 \in Nat /\ 1..k = 1..(k - 1) \union {k}
    OBVIOUS
  <2>2. CASE seen(k - 1, unit)
    <3>1. PICK i \in 1..(k - 1) : text[i][2] = unit
      BY <2>2
    <3>2. i \in 1..k /\ \A j \in 1..k : text[j][2] = unit => j = i
      BY <1>2, <1>5, <2>1, <3>1
    <3>3. \A j \in 1..(k - 1) : text[j][2] = unit => j = i
      BY <2>1, <3>2
    <3>4. (CHOOSE j \in 1..k : text[j][2] = unit) = i
      BY <3>1, <3>2
    <3>5. (CHOOSE j \in 1..(k - 1) : text[j][2] = unit) = i
      BY <3>1, <3>3
    <3> QED  BY <2>2, <3>1, <3>2, <3>4, <3>5
  <2>3. CASE ~seen(k - 1, unit)
    <3>1. ~seen(k, unit)
      BY <1>8, <2>1, <2>3
    <3> QED  BY <2>3, <3>1
  <2> QED  BY <2>2, <2>3
<1>9. ASSUME NEW k \in 1..n PROVE count(k - 1, text[k][2]) = 0
  <2>1. ~seen(k - 1, text[k][2])
    BY <1>2, <1>5
  <2> QED  BY <2>1
<1>10. ASSUME NEW k \in 0..n, NEW unit PROVE count(k, unit) \in Nat
  <2>1. CASE seen(k, unit)
    <3>1. PICK i : /\ i = CHOOSE j \in 1..k : text[j][2] = unit
                   /\ i \in 1..k
      BY <2>1
    <3>2. count(k, unit) = text[i][1]
      BY <2>1, <3>1
    <3> QED  BY <1>2, <1>5, <3>1, <3>2
  <2>2. CASE ~seen(k, unit)
    BY <2>2
  <2> QED  BY <2>1, <2>2
<1>11. count(0, "w") = 0 /\ count(0, "d") = 0 /\ count(0, "h") = 0
       /\ count(0, "m") = 0 /\ count(0, "s") = 0
  OBVIOUS
<1>12. ASSUME NEW unit \in Units
       PROVE  count(n, unit) = IF \E part \in ToSet(text) : part[2] = unit
                THEN (CHOOSE part \in ToSet(text) : part[2] = unit)[1] ELSE 0
  <2>1. ToSet(text) = {text[i] : i \in 1..n}
    BY <1>2, <1>5 DEF ToSet, WrittenFor
  <2>2. CASE seen(n, unit)
    <3>1. PICK i \in 1..n : text[i][2] = unit
      BY <2>2
    <3>2. \A part \in ToSet(text) : part[2] = unit => part = text[i]
      BY <1>2, <1>5, <2>1, <3>1
    <3>3. text[i] \in ToSet(text)
      BY <2>1
    <3>4. (CHOOSE part \in ToSet(text) : part[2] = unit) = text[i]
      BY <3>1, <3>2, <3>3
    <3>5. count(n, unit) = text[i][1]
      BY <1>7, <3>1
    <3> HIDE DEF count
    <3> QED  BY <3>1, <3>3, <3>4, <3>5
  <2>3. CASE ~seen(n, unit)
    BY <2>1, <2>3
  <2> QED  BY <2>2, <2>3
<1> HIDE DEF count
<1>13. secs = sum(n)
  BY <1>12, SMT DEF WrittenFor
<1>14. ASSUME NEW k \in 1..n PROVE sum(k) = sum(k - 1) + ns[k]
  <2>1. /\ k \in 1..Len(text) /\ k - 1 \in 0..n /\ k \in 0..n /\ k \in 1..k
        /\ text[k][2] \in Units
    BY <1>2, <1>5
  <2>2. count(k, text[k][2]) = text[k][1] /\ count(k - 1, text[k][2]) = 0
    BY <1>7, <1>9, <2>1
  <2>3. /\ k - 1 \in 0..n /\ k \in 0..n
        /\ \A unit \in {"w", "d", "h", "m", "s"} : unit \in Units
    BY <2>1
  <2>14. /\ count(k - 1, "w") \in Nat
         /\ count(k - 1, "d") \in Nat
         /\ count(k - 1, "h") \in Nat
         /\ count(k - 1, "m") \in Nat
         /\ count(k - 1, "s") \in Nat
    BY <1>10, <2>3
  <2>15. text[k][2] # "w" => count(k, "w") = count(k - 1, "w")
    BY <1>8, <2>3
  <2>16. text[k][2] # "d" => count(k, "d") = count(k - 1, "d")
    BY <1>8, <2>3
  <2>17. text[k][2] # "h" => count(k, "h") = count(k - 1, "h")
    BY <1>8, <2>3
  <2>18. text[k][2] # "m" => count(k, "m") = count(k - 1, "m")
    BY <1>8, <2>3
  <2>19. text[k][2] # "s" => count(k, "s") = count(k - 1, "s")
    BY <1>8, <2>3
  <2>9. PICK x \in Nat, y \in Nat : x = text[k][1] /\ y = ns[k]
    BY <1>2, <1>4, <1>5
  <2>10. PICK w \in Nat, d \in Nat : w = count(k - 1, "w") /\ d = count(k - 1, "d")
    BY <2>14
  <2>11. PICK h \in Nat, m \in Nat : h = count(k - 1, "h") /\ m = count(k - 1, "m")
    BY <2>14
  <2>12. PICK s \in Nat : s = count(k - 1, "s")
    BY <2>14
  <2>13. sum(k - 1) = 604800 * w + 86400 * d + 3600 * h + 60 * m + s
    BY <2>10, <2>11, <2>12, SMT
  <2>4. CASE text[k][2] = "w"
    <3>1. /\ count(k, "w") = x /\ count(k, "d") = d /\ count(k, "h") = h
          /\ count(k, "m") = m /\ count(k, "s") = s /\ w = 0
      BY <2>2, <2>9, <2>10, <2>11, <2>12, <2>15, <2>16, <2>17, <2>18, <2>19, <2>4
    <3>2. sum(k) = 604800 * x + 86400 * d + 3600 * h + 60 * m + s
      BY <3>1, SMT
    <3>3. y = 604800 * x
      BY <1>3, <2>1, <2>9, <2>4, SMT
    <3> QED  BY <2>9, <2>13, <3>1, <3>2, <3>3, SMT
  <2>5. CASE text[k][2] = "d"
    <3>1. /\ count(k, "w") = w /\ count(k, "d") = x /\ count(k, "h") = h
          /\ count(k, "m") = m /\ count(k, "s") = s /\ d = 0
      BY <2>2, <2>9, <2>10, <2>11, <2>12, <2>15, <2>16, <2>17, <2>18, <2>19, <2>5
    <3>2. sum(k) = 604800 * w + 86400 * x + 3600 * h + 60 * m + s
      BY <3>1, SMT
    <3>3. y = 86400 * x
      BY <1>3, <2>1, <2>9, <2>5, SMT
    <3> QED  BY <2>9, <2>13, <3>1, <3>2, <3>3, SMT
  <2>6. CASE text[k][2] = "h"
    <3>1. /\ count(k, "w") = w /\ count(k, "d") = d /\ count(k, "h") = x
          /\ count(k, "m") = m /\ count(k, "s") = s /\ h = 0
      BY <2>2, <2>9, <2>10, <2>11, <2>12, <2>15, <2>16, <2>17, <2>18, <2>19, <2>6
    <3>2. sum(k) = 604800 * w + 86400 * d + 3600 * x + 60 * m + s
      BY <3>1, SMT
    <3>3. y = 3600 * x
      BY <1>3, <2>1, <2>9, <2>6, SMT
    <3> QED  BY <2>9, <2>13, <3>1, <3>2, <3>3, SMT
  <2>7. CASE text[k][2] = "m"
    <3>1. /\ count(k, "w") = w /\ count(k, "d") = d /\ count(k, "h") = h
          /\ count(k, "m") = x /\ count(k, "s") = s /\ m = 0
      BY <2>2, <2>9, <2>10, <2>11, <2>12, <2>15, <2>16, <2>17, <2>18, <2>19, <2>7
    <3>2. sum(k) = 604800 * w + 86400 * d + 3600 * h + 60 * x + s
      BY <3>1, SMT
    <3>3. y = 60 * x
      BY <1>3, <2>1, <2>9, <2>7, SMT
    <3> QED  BY <2>9, <2>13, <3>1, <3>2, <3>3, SMT
  <2>8. CASE text[k][2] = "s"
    <3>1. /\ count(k, "w") = w /\ count(k, "d") = d /\ count(k, "h") = h
          /\ count(k, "m") = m /\ count(k, "s") = x /\ s = 0
      BY <2>2, <2>9, <2>10, <2>11, <2>12, <2>15, <2>16, <2>17, <2>18, <2>19, <2>8
    <3>2. sum(k) = 604800 * w + 86400 * d + 3600 * h + 60 * m + x
      BY <3>1, SMT
    <3>3. y = x
      BY <1>3, <2>1, <2>9, <2>8, SMT
    <3> QED  BY <2>9, <2>13, <3>1, <3>2, <3>3, SMT
  <2> QED  BY <2>1, <2>4, <2>5, <2>6, <2>7, <2>8, SMT
<1>15. sum(0) = 0
  BY <1>11, SMT
<1> HIDE DEF sum
<1> DEFINE T == {k \in 0..n : f[k] # sum(k)}
<1>16. T = {}
  <2>1. SUFFICES ASSUME T # {} PROVE FALSE
    OBVIOUS
  <2>2. T \subseteq Nat
    OBVIOUS
  <2>3. PICK m \in T : \A k \in T : m <= k
    <3> HIDE DEF T
    <3> QED  BY <2>1, <2>2, LeastNat
  <2>4. m \in 1..n /\ m - 1 \in 0..n
    BY <1>6, <1>15 DEF RunningSum
  <2>5. f[m - 1] = sum(m - 1)
    BY <2>3, <2>4
  <2> QED  BY <1>6, <1>14, <2>3, <2>4, <2>5 DEF RunningSum
<1> QED  BY <1>1, <1>6, <1>13, <1>16

Counters == {"interface", "interface_again"}

(* What has been read is what the router answered; a radio's frames and    *)
(* the hosts are never read by the same capture; a scan looks at the       *)
(* leases once it has the hosts; and a task reported as good was concluded *)
(* from what has been read, its one indispensable answer included.         *)
AnswersTraced ==
    /\ \A s \in DOMAIN got \ Counters : got[s] \in Answers[s]
    /\ "interface_again" \in DOMAIN got => IsFiniteSet(got.interface_again)
    /\ "sniff" \in DOMAIN got => at \in {"idle", "packet"} /\ "host" \notin DOMAIN got
    /\ "host" \in DOMAIN got => at \in {"idle", "protocol"}
    /\ at = "scan_lease" => "ip_scan" \in DOMAIN got
    /\ Idle /\ result # None /\ result.status = "ok" =>
          /\ \A t, g : t = task /\ g = got => result.findings = Findings(t, g)
          /\ task.kind = "trace" => "traceroute" \in DOMAIN got
          /\ task.kind = "scan" => "ip_scan" \in DOMAIN got

(* Wherever a task's script goes on, fails or ends, the account of the     *)
(* answers goes with it.                                                   *)
LEMMA AnswersProceed ==
  ASSUME IInv, ~Idle, NEW stage, NEW answers, NEW caveats,
         Proceed(stage, answers, caveats), UNCHANGED task,
         stage \in {"identity", "finish", "fail"} \union StagesOf(task.kind),
         \A s \in DOMAIN answers \ Counters : answers[s] \in Answers[s],
         "interface_again" \in DOMAIN answers => IsFiniteSet(answers.interface_again),
         "sniff" \in DOMAIN answers =>
            stage \in {"packet", "finish", "fail"} /\ "host" \notin DOMAIN answers,
         "host" \in DOMAIN answers => stage \in {"protocol", "finish", "fail"},
         stage = "scan_lease" => "ip_scan" \in DOMAIN answers,
         stage = "finish" =>
            /\ task.kind = "trace" => "traceroute" \in DOMAIN answers
            /\ task.kind = "scan" => "ip_scan" \in DOMAIN answers
  PROVE  AnswersTraced'
<1>0. task.kind \in Kinds
  BY HostAssumption DEF IInv, InScript
<1>1. CASE stage = "finish"
  <2>1. /\ got' = answers /\ at' = "idle"
        /\ result' = [status |-> "ok", findings |-> Findings(task, answers),
                      notes |-> caveats]
    BY <1>1 DEF Proceed, Leave
  <2>2. ASSUME NEW t, NEW g, t = task', g = got'
        PROVE  result'.findings = Findings(t, g)
    BY <2>1, <2>2
  <2>3. /\ \A s \in DOMAIN got' \ Counters : got'[s] \in Answers[s]
        /\ "interface_again" \in DOMAIN got' => IsFiniteSet(got'.interface_again)
        /\ "sniff" \in DOMAIN got' => "host" \notin DOMAIN got'
        /\ task'.kind = "trace" => "traceroute" \in DOMAIN got'
        /\ task'.kind = "scan" => "ip_scan" \in DOMAIN got'
    BY <1>1, <2>1
  <2> QED  BY <2>1, <2>2, <2>3 DEF AnswersTraced, Idle
<1>2. CASE stage = "fail"
  <2>1. /\ got' = << >> /\ at' = "idle"
        /\ result' = [status |-> "failed", findings |-> << >>, notes |-> {}]
    BY <1>2 DEF Proceed, failure_body, Leave
  <2>2. DOMAIN got' = {} /\ result'.status = "failed"
    BY <2>1
  <2> QED  BY <2>1, <2>2 DEF AnswersTraced
<1>3. CASE stage \notin {"finish", "fail"}
  <2>1. got' = answers /\ at' = stage
    BY <1>3 DEF Proceed
  <2>2. stage # "idle"
    BY <1>0, <1>3, StagesApart
  <2> QED  BY <1>3, <2>1, <2>2 DEF AnswersTraced, Idle
<1> QED  BY <1>1, <1>2, <1>3

(* Every step keeps the account of the answers.                            *)
LEMMA NextAnswers == AnswersTraced /\ IInv /\ [Next]_vars => AnswersTraced'
<1> SUFFICES ASSUME AnswersTraced, IInv, [Next]_vars PROVE AnswersTraced'
  OBVIOUS
<1>1. ASSUME NEW t \in Tasks, run_host_task(t) PROVE AnswersTraced'
  <2>1. at' = "begin" /\ DOMAIN got' = {}
    BY <1>1 DEF run_host_task
  <2> QED  BY <2>1 DEF AnswersTraced, Idle
<1>2. CASE Begin
  <2>0. ~Idle /\ task.kind \in Kinds
    BY <1>2, HostAssumption DEF Begin, Idle, IInv, InScript
  <2>1. CASE ~task.router
    <3>1. /\ at' = "idle" /\ got' = got /\ result'.status = "skipped"
      BY <1>2, <2>1 DEF Begin, enqueue_skipped, Leave
    <3> QED  BY <1>2, <3>1 DEF AnswersTraced, Begin
  <2>2. CASE task.router
    <3>1. PICK stage, answers, caveats :
              /\ Proceed(stage, answers, caveats)
              /\ answers = got /\ stage \in {"fail", "identity", FirstRequest(task)}
      BY <1>2, <2>2 DEF Begin
    <3>2. /\ stage \in {"identity", "fail"} \union StagesOf(task.kind)
          /\ stage \notin {"finish", "scan_lease"}
      BY <2>0, <3>1, Stages DEF FirstRequest, StagesOf, Kinds
    <3>3. "sniff" \notin DOMAIN got /\ "host" \notin DOMAIN got
      BY <1>2 DEF AnswersTraced, Begin
    <3> QED  BY <1>2, <2>0, <3>1, <3>2, <3>3, AnswersProceed DEF Begin, AnswersTraced
  <2> QED  BY <2>1, <2>2
<1>3. CASE Answered
  <2>0. /\ ~Idle /\ task \in Tasks
        /\ at \notin Counters
        /\ at \in {"identity"} \union (StagesOf(task.kind) \ Sleeps)
    BY <1>3 DEF Answered, Asking, Idle, IInv, InScript, Sleeps, Counters
  <2>1. PICK answer \in Answers[at] :
            Proceed(Then(at, Usable(at, answer)), With(got, at, answer), notes)
    BY <1>3 DEF Answered
  <2>u. PICK ok \in BOOLEAN : ok = Usable(at, answer)
    <3>1. Usable(at, answer) \in BOOLEAN
      BY DEF Usable
    <3> QED  BY <3>1
  <2>2. PICK stage, answers, caveats :
            /\ stage = Then(at, ok) /\ answers = With(got, at, answer)
            /\ Proceed(stage, answers, caveats)
    BY <2>1, <2>u
  <2>3. /\ DOMAIN answers = DOMAIN got \union {at} /\ answers[at] = answer
        /\ \A s \in DOMAIN got \ {at} : answers[s] = got[s]
    BY <2>2 DEF With
  <2>4. /\ stage \in {"finish", "fail"} \union StagesOf(task.kind)
        /\ at = "sniff" => stage \in {"packet", "fail"}
        /\ at = "packet" => stage = "finish"
        /\ at = "host" => stage = "protocol"
        /\ at = "protocol" => stage = "finish"
        /\ stage = "scan_lease" => at = "ip_scan"
        /\ task.kind = "trace" /\ stage = "finish" => at = "traceroute"
        /\ task.kind = "scan" /\ stage = "finish" => at = "scan_lease"
    BY <2>0, <2>2, ThenFacts
  <2>5. \A s \in DOMAIN answers \ Counters : answers[s] \in Answers[s]
    BY <2>1, <2>3 DEF AnswersTraced
  <2>6. "interface_again" \in DOMAIN answers => IsFiniteSet(answers.interface_again)
    BY <2>0, <2>3 DEF AnswersTraced, Counters
  <2>7. /\ "sniff" \in DOMAIN answers =>
              stage \in {"packet", "finish", "fail"} /\ "host" \notin DOMAIN answers
        /\ "host" \in DOMAIN answers => stage \in {"protocol", "finish", "fail"}
    BY <2>0, <2>3, <2>4 DEF AnswersTraced, Idle
  <2>8. /\ stage = "scan_lease" => "ip_scan" \in DOMAIN answers
        /\ stage = "finish" =>
              /\ task.kind = "trace" => "traceroute" \in DOMAIN answers
              /\ task.kind = "scan" => "ip_scan" \in DOMAIN answers
    BY <2>3, <2>4 DEF AnswersTraced
  <2> QED  BY <1>3, <2>0, <2>2, <2>4, <2>5, <2>6, <2>7, <2>8, AnswersProceed DEF Answered
<1>4. CASE CountersRead
  <2>0. /\ ~Idle /\ task \in Tasks /\ at \in Counters
        /\ at \in {"identity"} \union (StagesOf(task.kind) \ Sleeps)
        /\ "sniff" \notin DOMAIN got /\ "host" \notin DOMAIN got
    BY <1>4 DEF CountersRead, Idle, IInv, InScript, Sleeps, AnswersTraced, Counters
  <2>1. PICK row, stage, answers, caveats :
            /\ row = IF nic'.present THEN {nic'} ELSE {}
            /\ stage = Then(at, TRUE) /\ answers = With(got, at, row)
            /\ Proceed(stage, answers, caveats)
    BY <1>4 DEF CountersRead
  <2>2. /\ DOMAIN answers = DOMAIN got \union {at} /\ answers[at] = row
        /\ \A s \in DOMAIN got \ {at} : answers[s] = got[s]
    BY <2>1 DEF With
  <2>3. IsFiniteSet(row)
    BY <2>1, FS_EmptySet, FS_Singleton
  <2>4. /\ stage \in {"finish", "fail"} \union StagesOf(task.kind)
        /\ stage # "scan_lease"
        /\ stage = "finish" => task.kind \notin {"trace", "scan"}
    BY <2>0, <2>1, ThenFacts DEF Counters
  <2>5. \A s \in DOMAIN answers \ Counters : answers[s] \in Answers[s]
    BY <2>0, <2>2 DEF AnswersTraced
  <2>6. "interface_again" \in DOMAIN answers => IsFiniteSet(answers.interface_again)
    BY <2>2, <2>3 DEF AnswersTraced
  <2>7. "sniff" \notin DOMAIN answers /\ "host" \notin DOMAIN answers
    BY <2>0, <2>2 DEF Counters
  <2> QED  BY <1>4, <2>0, <2>1, <2>4, <2>5, <2>6, <2>7, AnswersProceed DEF CountersRead
<1>5. CASE Failed
  <2>0. /\ ~Idle /\ task \in Tasks
        /\ at \in {"identity"} \union (StagesOf(task.kind) \ Sleeps)
    BY <1>5 DEF Failed, Asking, Idle, IInv, InScript, Sleeps
  <2>1. PICK stage, answers, caveats :
            /\ stage = Then(at, FALSE) /\ answers = got
            /\ Proceed(stage, answers, caveats)
    BY <1>5 DEF Failed
  <2>2. /\ stage \in {"finish", "fail"} \union StagesOf(task.kind)
        /\ at = "packet" => stage = "finish"
        /\ at = "protocol" => stage = "finish"
        /\ stage # "scan_lease"
        /\ task.kind = "trace" => stage # "finish"
        /\ task.kind = "scan" /\ stage = "finish" => at = "scan_lease"
    BY <2>0, <2>1, ThenFacts
  <2>3. /\ "sniff" \in DOMAIN answers => stage = "finish" /\ "host" \notin DOMAIN answers
        /\ "host" \in DOMAIN answers => stage = "finish"
    BY <2>0, <2>1, <2>2 DEF AnswersTraced, Idle
  <2>4. stage = "finish" =>
              /\ task.kind = "trace" => "traceroute" \in DOMAIN answers
              /\ task.kind = "scan" => "ip_scan" \in DOMAIN answers
    BY <2>1, <2>2 DEF AnswersTraced
  <2> QED  BY <1>5, <2>0, <2>1, <2>2, <2>3, <2>4, AnswersProceed DEF Failed, AnswersTraced
<1>6. CASE Wake
  <2>0. /\ ~Idle /\ task \in Tasks /\ task.kind \in Kinds /\ at \in StagesOf(task.kind)
        /\ "sniff" \notin DOMAIN got /\ "host" \notin DOMAIN got
    BY <1>6, HostAssumption DEF Wake, Idle, IInv, InScript, AnswersTraced
  <2>1. PICK stage, answers, caveats :
            /\ stage = IF at = "capturing" THEN "stop" ELSE "interface_again"
            /\ answers = got /\ Proceed(stage, answers, caveats)
    BY <1>6 DEF Wake
  <2>2. stage \in StagesOf(task.kind) /\ stage \notin {"finish", "scan_lease"}
    BY <1>6, <2>0, <2>1, Stages DEF Wake, StagesOf, Kinds
  <2> QED  BY <1>6, <2>0, <2>1, <2>2, AnswersProceed DEF Wake, AnswersTraced
<1>7. CASE RouterActs \/ UNCHANGED vars
  <2>1. UNCHANGED <<task, at, got, result>>
    BY <1>7 DEF RouterActs, vars
  <2> QED  BY <2>1 DEF AnswersTraced, Idle
<1>8. CASE Tick
  <2>1. UNCHANGED <<task, at, got, result>>
    BY <1>8 DEF Tick
  <2> QED  BY <2>1 DEF AnswersTraced, Idle
<1>9. CASE TimeLimit
  <2>1. at' = "idle" /\ DOMAIN got' = {} /\ result'.status = "failed"
    BY <1>9 DEF TimeLimit, failure_body, Leave
  <2> QED  BY <2>1 DEF AnswersTraced
<1>10. CASE Stop
  <2>1. at' = "idle" /\ DOMAIN got' = {} /\ result' = None
    BY <1>10 DEF Stop, IInv, InScript
  <2> QED  BY <2>1 DEF AnswersTraced
<1>11. ASSUME NEW n, Frames(n) PROVE AnswersTraced'
  <2>1. UNCHANGED <<task, at, got, result>>
    BY <1>11 DEF Frames
  <2> QED  BY <2>1 DEF AnswersTraced, Idle
<1>12. CASE Bounce
  <2>1. UNCHANGED <<task, at, got, result>>
    BY <1>12 DEF Bounce
  <2> QED  BY <2>1 DEF AnswersTraced, Idle
<1> QED  BY <1>1, <1>2, <1>3, <1>4, <1>5, <1>6, <1>7, <1>8, <1>9, <1>10, <1>11,
            <1>12 DEF Next

(* The account of the answers holds throughout.                            *)
LEMMA AnswersInvariance == Spec => []AnswersTraced
<1>1. Init => AnswersTraced
  <2> SUFFICES ASSUME Init PROVE AnswersTraced
    OBVIOUS
  <2>1. DOMAIN got = {} /\ at = "idle" /\ result = None
    BY DEF Init
  <2> QED  BY <2>1 DEF AnswersTraced
<1> QED  BY <1>1, HostInvariance, NextAnswers, PTL DEF Spec

-----------------------------------------------------------------------------
(* The survey as a whole.                                                  *)

(* What a survey reads, by the part of the snapshot it goes into.          *)
LEMMA CollectFacts ==
  ASSUME NEW g
  PROVE  /\ collect(g).arp = IF "arp" \in DOMAIN g THEN parse_arp(g.arp) ELSE << >>
         /\ collect(g).leases
              = IF "lease" \in DOMAIN g THEN parse_leases(g.lease) ELSE << >>
         /\ collect(g).clients
              = IF "wifi_table" \in DOMAIN g THEN parse_wifi_clients(g.wifi_table)
                ELSE IF "wireless_table" \in DOMAIN g
                THEN parse_legacy_clients(g.wireless_table) ELSE << >>
         /\ collect(g).radios
              = IF "wifi_table" \in DOMAIN g
                THEN IF "wifi" \in DOMAIN g THEN parse_wifi_radios(g.wifi) ELSE << >>
                ELSE IF "wireless" \in DOMAIN g
                THEN parse_legacy_radios(g.wireless) ELSE << >>
         /\ collect(g).interfaces
              = IF "interface_again" \in DOMAIN g
                THEN interface_rates(g.interface, g.interface_again) ELSE {}
         /\ collect(g).dhcp_pool_size
              = IF "pool" \in DOMAIN g THEN pool_size(g.pool) ELSE 0
         /\ collect(g).neighbour_aps = << >>
<1>1. collect(g).arp = IF "arp" \in DOMAIN g THEN parse_arp(g.arp) ELSE << >>
  BY DEF collect, Snapshot, Read
<1>2. collect(g).leases
        = IF "lease" \in DOMAIN g THEN parse_leases(g.lease) ELSE << >>
  BY DEF collect, Snapshot, Read
<1>3. collect(g).clients
        = IF "wifi_table" \in DOMAIN g THEN parse_wifi_clients(g.wifi_table)
          ELSE IF "wireless_table" \in DOMAIN g
          THEN parse_legacy_clients(g.wireless_table) ELSE << >>
  BY DEF collect, Snapshot, Read
<1>4. collect(g).radios
        = IF "wifi_table" \in DOMAIN g
          THEN IF "wifi" \in DOMAIN g THEN parse_wifi_radios(g.wifi) ELSE << >>
          ELSE IF "wireless" \in DOMAIN g
          THEN parse_legacy_radios(g.wireless) ELSE << >>
  BY DEF collect, Snapshot, Read
<1>5. collect(g).interfaces
        = IF "interface_again" \in DOMAIN g
          THEN interface_rates(g.interface, g.interface_again) ELSE {}
  BY DEF collect, Snapshot, Read
<1>6. collect(g).dhcp_pool_size
        = IF "pool" \in DOMAIN g THEN pool_size(g.pool) ELSE 0
  BY DEF collect, Snapshot, Read
<1>7. collect(g).neighbour_aps = << >>
  BY DEF collect, Snapshot
<1> QED  BY <1>1, <1>2, <1>3, <1>4, <1>5, <1>6, <1>7

(* Whatever answered, the snapshot is one the rules can go by.             *)
LEMMA SnapshotIsGood ==
  ASSUME NEW g, \A s \in DOMAIN g \ Counters : g[s] \in Answers[s],
         "interface_again" \in DOMAIN g => IsFiniteSet(g.interface_again)
  PROVE  GoodSnapshot(collect(g))
<1>1. \A stage \in {"arp", "lease", "wifi_table", "wireless_table", "wifi", "wireless"} :
          stage \in DOMAIN g => IsTable(g[stage])
  BY AnswersAssumption DEF Counters
<1>2. IsTable(collect(g).arp)
  BY <1>1, CollectFacts, ParsedArp, ShortTables
<1>3. IsTable(collect(g).leases)
  BY <1>1, CollectFacts, ParsedLeases, ShortTables
<1>4. IsTable(collect(g).clients)
  BY <1>1, CollectFacts, ParsedClients, ShortTables
<1>5. IsTable(collect(g).radios)
  BY <1>1, CollectFacts, ParsedRadios, ShortTables
<1>6. IsTable(collect(g).neighbour_aps)
  BY CollectFacts, ShortTables
<1>7. collect(g).dhcp_pool_size \in Nat
  <2>1. "pool" \in DOMAIN g => g.pool \in Answers.pool
    BY DEF Counters
  <2> QED  BY <2>1, CollectFacts, PoolSize
<1>8. IsFiniteSet(collect(g).interfaces)
  <2>1. CASE "interface_again" \notin DOMAIN g
    BY <2>1, CollectFacts, FS_EmptySet
  <2>2. CASE "interface_again" \in DOMAIN g
    <3>1. PICK first, second : first = g.interface /\ second = g.interface_again
      OBVIOUS
    <3> DEFINE delta(b, key) ==
                   LET a == CHOOSE x \in first : x.name = b.name
                   IN  saturating_sub(b[key], a[key]) \div RATE_SAMPLE
               B == {x \in second : x.name # Blank /\ \E y \in first : y.name = x.name}
               of(b) == [name |-> b.name, running |-> bool_of(b.running),
                         rx_broadcast_per_s |-> delta(b, "rx_broadcast"),
                         rx_multicast_per_s |-> delta(b, "rx_multicast")]
    <3>2. interface_rates(first, second) = {of(b) : b \in B}
      BY DEF interface_rates
    <3>3. IsFiniteSet(second) /\ B \in SUBSET second
      BY <2>2, <3>1
    <3> HIDE DEF B, of
    <3>4. IsFiniteSet(B)
      BY <3>3, FS_Subset
    <3>5. [b \in B |-> of(b)] \in Surjection(B, {of(b) : b \in B})
      BY DEF Surjection
    <3>6. IsFiniteSet({of(b) : b \in B})
      BY <3>4, <3>5, FS_Surjection
    <3> QED  BY <2>2, <3>1, <3>2, <3>6, CollectFacts
  <2> QED  BY <2>1, <2>2
<1> QED  BY <1>2, <1>3, <1>4, <1>5, <1>6, <1>7, <1>8 DEF GoodSnapshot

(* What a survey that is reported as good found is earned.                 *)
LEMMA SurveyEarned ==
  ASSUME AnswersTraced, Ended("wifi")
  PROVE  /\ IsTable(result.findings)
         /\ \A f \in ToSet(result.findings) : Earned(collect(got), f)
<1>1. PICK t, g : t = task /\ g = got
  OBVIOUS
<1>2. result.findings = Findings(t, g) /\ t.kind = "wifi"
  BY <1>1 DEF AnswersTraced, Ended
<1>3. result.findings = analyse(collect(g))
  BY <1>2 DEF Findings
<1>4. GoodSnapshot(collect(g))
  BY <1>1, SnapshotIsGood DEF AnswersTraced
<1> QED  BY <1>1, <1>3, <1>4, AnalyseEarned

(* The codes and the names of the findings, where those are a table.       *)
LEMMA CodesAndNames ==
  ASSUME IsTable(result.findings)
  PROVE  /\ \A c \in Codes : \E f \in ToSet(result.findings) : f.code = c
         /\ \A c : \A n \in Named(c) :
               \E f \in ToSet(result.findings) : f.code = c /\ n \in f.names
<1>1. \A c \in Codes : \E f \in ToSet(result.findings) : f.code = c
  BY TableFacts DEF Codes
<1>2. ASSUME NEW c, NEW n \in Named(c)
      PROVE  \E f \in ToSet(result.findings) : f.code = c /\ n \in f.names
  BY DEF Named, Filter
<1> QED  BY <1>1, <1>2

(* A storm is reported only where the frames did arrive between the two    *)
(* readings of the counters, however the interface bounced, went away or   *)
(* came back in between (collect_interface_rates, broadcast_storm).        *)
THEOREM NoStormIsFalse == Spec => []NoFalseStorm
<1>1. AnswersTraced /\ CountersTraced => NoFalseStorm
  <2> SUFFICES ASSUME AnswersTraced, CountersTraced, Ended("wifi"),
                      "network.broadcast_storm" \in Codes
               PROVE  flood >= RATE_SAMPLE * BROADCAST_STORM_PPS
    BY DEF NoFalseStorm
  <2>1. PICK f \in ToSet(result.findings) :
            f.code = "network.broadcast_storm" /\ Earned(collect(got), f)
    BY SurveyEarned, CodesAndNames
  <2>2. PICK i \in collect(got).interfaces :
            i.rx_broadcast_per_s + i.rx_multicast_per_s >= BROADCAST_STORM_PPS
    BY <2>1 DEF Earned
  <2> QED  BY <2>2, RatesFollow DEF RatesEarned, Ended
<1> QED  BY <1>1, AnswersInvariance, CountersInvariance, PTL

(* No conclusion of a survey rests on an answer that is missing.           *)
LEMMA ConclusionsRest ==
  ASSUME AnswersTraced, CountersTraced, Ended("wifi"), NEW code \in Codes
  PROVE  RestsOn(code) \subseteq DOMAIN got
<1>1. PICK f \in ToSet(result.findings) : f.code = code /\ Earned(collect(got), f)
  BY SurveyEarned, CodesAndNames
<1>2. PICK g : g = got
  OBVIOUS
<1>3. /\ collect(g).arp # << >> => "arp" \in DOMAIN g
      /\ collect(g).leases # << >> => "lease" \in DOMAIN g
      /\ collect(g).dhcp_pool_size # 0 => "pool" \in DOMAIN g
      /\ collect(g).interfaces # {} => "interface_again" \in DOMAIN g
      /\ collect(g).radios # << >> =>
            IF "wifi_table" \in DOMAIN g THEN "wifi" \in DOMAIN g
            ELSE "wireless" \in DOMAIN g
  BY CollectFacts
<1>4. "interface_again" \in DOMAIN got => "interface" \in DOMAIN got
  BY DEF CountersTraced
<1>5. CASE code = "network.unleased_device"
  BY <1>1, <1>2, <1>3, <1>5 DEF Earned, RestsOn
<1>6. CASE code = "network.duplicate_address"
  BY <1>1, <1>2, <1>3, <1>6 DEF Earned, RestsOn
<1>7. CASE code = "network.dhcp_pool_pressure"
  BY <1>1, <1>2, <1>3, <1>7 DEF Earned, RestsOn
<1>8. CASE code = "network.broadcast_storm"
  BY <1>1, <1>2, <1>3, <1>4, <1>8 DEF Earned, RestsOn
<1>9. CASE code = "wifi.band_steering_opportunity"
  BY <1>1, <1>2, <1>3, <1>9 DEF Earned, RestsOn
<1>10. CASE code \notin {"network.unleased_device", "network.duplicate_address",
                         "network.dhcp_pool_pressure", "network.broadcast_storm",
                         "wifi.band_steering_opportunity"}
  BY <1>10 DEF RestsOn
<1> QED  BY <1>5, <1>6, <1>7, <1>8, <1>9, <1>10

(* A client whose rate is called slow was heard lately.                    *)
LEMMA AccusedLately ==
  ASSUME AnswersTraced, Ended("wifi"),
         NEW m \in Named("wifi.slow_client_airtime")
                    \union Named("wifi.rate_signal_mismatch")
  PROVE  \E r \in ToSet(Table) : r.mac = m /\ r.quiet_for <= IDLE_AFTER_S
<1>1. Meaningful(collect(got), m)
  BY SurveyEarned, CodesAndNames DEF Earned
<1>2. PICK g : g = got
  OBVIOUS
<1>3. PICK c \in ToSet(collect(g).clients) : c.mac = m /\ c.last_activity_s <= IDLE_AFTER_S
  BY <1>1, <1>2 DEF Meaningful, rate_is_meaningful
<1>4. PICK stage \in {"wifi_table", "wireless_table"} :
          /\ stage \in DOMAIN g /\ Table = g[stage]
          /\ c \in ToSet(parse_wifi_clients(g[stage]))
                     \union ToSet(parse_legacy_clients(g[stage]))
  <2>1. CASE "wifi_table" \in DOMAIN g
    BY <1>2, <1>3, <2>1, CollectFacts DEF Table
  <2>2. CASE "wifi_table" \notin DOMAIN g
    <3>1. "wireless_table" \in DOMAIN g
      BY <1>3, <2>2, CollectFacts, ShortTables
    <3> QED  BY <1>2, <1>3, <2>2, <3>1, CollectFacts DEF Table
  <2> QED  BY <2>1, <2>2
<1>5. g[stage] \in Answers[stage]
  BY <1>2, <1>4 DEF AnswersTraced, Counters
<1>6. /\ IsTable(g[stage])
      /\ \A r \in ToSet(g[stage]) : WrittenFor(r.last_activity, r.quiet_for)
  BY <1>5, AnswersAssumption
<1>7. PICK rows : rows = g[stage]
  OBVIOUS
<1>8. PICK r \in ToSet(rows) :
          c.mac = r.mac /\ c.last_activity_s = parse_uptime(r.last_activity)
  BY <1>4, <1>6, <1>7, ParsedClients
<1>9. parse_uptime(r.last_activity) = r.quiet_for
  BY <1>6, <1>7, <1>8, DurationsRead
<1> QED  BY <1>3, <1>4, <1>7, <1>8, <1>9

(* A device that holds a lease is a stray to neither the survey nor the    *)
(* scan.                                                                   *)
LEMMA LeasesAreSeen == AnswersTraced => LeasedIsManaged
<1> SUFFICES ASSUME AnswersTraced PROVE LeasedIsManaged
  OBVIOUS
<1>0. PICK t, g : t = task /\ g = got
  OBVIOUS
<1>1. ASSUME Ended("wifi"), "lease" \in DOMAIN got,
             NEW a \in Named("network.unleased_device")
      PROVE  \E e \in Filter(got.arp, LAMBDA e : e.address = a) :
                e.mac.device \notin LeasedDevices(got.lease)
  <2>1. Stray(collect(g), a) /\ collect(g).arp # << >>
    BY <1>0, <1>1, SurveyEarned, CodesAndNames DEF Earned
  <2>2. collect(g).arp = parse_arp(g.arp) /\ "arp" \in DOMAIN g
    BY <2>1, CollectFacts
  <2>3. collect(g).leases = parse_leases(g.lease)
    BY <1>0, <1>1, CollectFacts
  <2>4. PICK e \in ToSet(parse_arp(g.arp)) :
            /\ e.address = a
            /\ ~\E l \in ToSet(parse_leases(g.lease)) : same_mac(l.mac, e.mac)
    BY <2>1, <2>2, <2>3 DEF Stray
  <2>5. IsTable(g.arp)
    BY <1>0, <2>2, AnswersAssumption DEF AnswersTraced, Counters
  <2>6. PICK r \in ToSet(g.arp) : e.address = r.address /\ e.mac = r.mac
    BY <2>5, ParsedArp
  <2>7. r.mac.device \notin LeasedDevices(g.lease)
    BY <2>4, <2>6 DEF LeasedDevices, same_mac
  <2>8. r \in Filter(g.arp, LAMBDA x : x.address = a)
    BY <2>4, <2>6 DEF Filter
  <2> QED  BY <1>0, <2>7, <2>8
<1>2. ASSUME Ended("scan"), "scan_lease" \in DOMAIN got,
             NEW m \in Named("scan.unmanaged_host")
      PROVE  m.device \notin LeasedDevices(got.scan_lease)
  <2>1. result.findings = Findings(t, g) /\ t.kind = "scan"
    BY <1>0, <1>2 DEF AnswersTraced, Ended
  <2>2. PICK hosts, leases :
            /\ result.findings = analyse_scan(hosts, leases)
            /\ leases = parse_leases(g.scan_lease)
    BY <1>0, <1>2, <2>1 DEF Findings, Read
  <2> DEFINE stray == {h.mac : h \in {x \in ToSet(hosts) : x.mac # NoMac
                           /\ ~\E l \in ToSet(leases) : same_mac(l.mac, x.mac)}}
             first == Naming("scan.mac_multiple_addresses", "warning",
                             mac_multiple_addresses(hosts))
             second == IF leases = << >> THEN << >>
                       ELSE Naming("scan.unmanaged_host", "info", stray)
  <2>3. result.findings = first \o second
    BY <2>2 DEF analyse_scan
  <2>4. IsTable(first) /\ \A f \in ToSet(first) : f.code # "scan.unmanaged_host"
    BY NamingFacts DEF Finding
  <2>5. IsTable(second) /\ \A f \in ToSet(second) : f.names = stray
    <3> HIDE DEF stray
    <3> QED  BY NamingFacts, ShortTables DEF Finding
  <2>6. \A n \in stray : ~\E l \in ToSet(leases) : same_mac(l.mac, n)
    OBVIOUS
  <2> HIDE DEF first, second, stray
  <2>7. m \in stray
    <3>1. IsTable(first \o second)
          /\ ToSet(first \o second) = ToSet(first) \union ToSet(second)
      BY <2>4, <2>5, Joined
    <3>2. PICK f \in ToSet(first \o second) :
              f.code = "scan.unmanaged_host" /\ m \in f.names
      BY <1>2, <2>3, <3>1, CodesAndNames
    <3> QED  BY <2>4, <2>5, <3>1, <3>2
  <2> QED  BY <1>0, <2>2, <2>6, <2>7 DEF LeasedDevices, same_mac
<1> QED  BY <1>1, <1>2 DEF LeasedIsManaged

(* A survey draws no conclusion from what failed to answer, accuses no     *)
(* client of a rate it was last heard at too long ago, in whatever units   *)
(* the router writes how long, and neither it nor a scan takes a device    *)
(* that holds a lease for a stray (analyse, rate_is_meaningful,            *)
(* unleased_devices, analyse_scan).                                        *)
THEOREM SurveyIsGrounded == Spec => []SurveyGrounded
<1>1. AnswersTraced /\ CountersTraced => SurveyGrounded
  BY ConclusionsRest, AccusedLately, LeasesAreSeen DEF SurveyGrounded
<1> QED  BY <1>1, AnswersInvariance, CountersInvariance, PTL

-----------------------------------------------------------------------------
(* The path.                                                               *)

(* A column of natural numbers has a bound.                                *)
LEMMA Bounded ==
  ASSUME NEW n \in Nat, NEW ns, \A i \in 1..n : ns[i] \in Nat
  PROVE  \E b \in Nat : \A i \in 1..n : ns[i] <= b
<1> DEFINE ms == [i \in 1..n |-> ns[i]]
<1>1. Len(ms) = n /\ \A i \in 1..n : ms[i] = ns[i] /\ ms[i] \in Nat
  OBVIOUS
<1> HIDE DEF ms
<1>2. Total(ms) \in Nat /\ \A i \in 1..n : ms[i] <= Total(ms)
  BY <1>1, TotalNat
<1> QED  BY <1>1, <1>2

(* Of positions with a value each, there is a first with the largest.      *)
LEMMA FirstOfTheLargest ==
  ASSUME NEW n \in Nat, NEW S \in SUBSET (1..n), S # {}, NEW v,
         \A i \in S : v[i] \in Nat
  PROVE  \E i \in S : \A j \in S : v[j] < v[i] \/ (v[j] = v[i] /\ i <= j)
<1>0. S \in SUBSET Nat
  OBVIOUS
<1> DEFINE ns == [i \in 1..n |-> IF i \in S THEN v[i] ELSE 0]
           T == {v[i] : i \in S}
<1>1. \A i \in 1..n : ns[i] \in Nat /\ (i \in S => ns[i] = v[i])
  OBVIOUS
<1> HIDE DEF ns
<1>2. PICK b \in Nat : \A i \in 1..n : ns[i] <= b
  BY <1>1, Bounded
<1>3. T \subseteq 0..b /\ T # {}
  <2>1. ASSUME NEW i \in S PROVE v[i] \in 0..b
    <3>1. i \in 1..n /\ v[i] \in Nat
      OBVIOUS
    <3> QED  BY <1>1, <1>2, <3>1
  <2> QED  BY <2>1
<1>4. PICK m \in T : \A k \in T : k <= m
  <2> HIDE DEF T
  <2> QED  BY <1>3, GreatestNat
<1> DEFINE U == {i \in S : v[i] = m}
<1>5. U \subseteq Nat /\ U # {}
  <2>1. PICK i \in S : v[i] = m
    BY <1>4
  <2>2. i \in U
    BY <2>1
  <2>3. \A j \in S : j \in Nat
    BY <1>0
  <2> QED  BY <2>2, <2>3
<1>6. PICK i \in U : \A j \in U : i <= j
  <2> HIDE DEF U
  <2> QED  BY <1>5, LeastNat
<1>7. ASSUME NEW j \in S PROVE v[j] < v[i] \/ (v[j] = v[i] /\ i <= j)
  <2>1. v[j] \in Nat /\ v[i] = m /\ m \in Nat /\ v[j] <= m
    BY <1>4
  <2>2. CASE v[j] = m
    BY <1>6, <2>1, <2>2
  <2> QED  BY <2>1, <2>2
<1> QED  BY <1>7

(* Only the last round is kept, whole.                                     *)
LEMMA LastRound ==
  ASSUME NEW rows, IsTable(rows), \A r \in ToSet(rows) : r.section \in Nat
  PROVE  /\ IsTable(last_section(rows))
         /\ ToSet(last_section(rows)) \subseteq ToSet(rows)
         /\ \E s \in {rows[i].section : i \in 1..Len(rows)} \union {0} :
               /\ \A i \in 1..Len(rows) : rows[i].section <= s
               /\ Len(last_section(rows))
                    = Cardinality({i \in 1..Len(rows) : rows[i].section = s})
<1>1. PICK n \in Nat : n = Len(rows)
  BY TableFacts
<1>2. ToSet(rows) = {rows[i] : i \in 1..n} /\ (rows = << >> <=> n = 0)
  BY <1>1, TableFacts
<1>3. CASE rows = << >>
  <2>1. last_section(rows) = rows /\ n = 0
    BY <1>2, <1>3 DEF last_section
  <2>2. {i \in 1..n : rows[i].section = 0} = {}
    BY <2>1
  <2>3. Len(rows) = Cardinality({i \in 1..n : rows[i].section = 0})
    BY <1>1, <2>1, <2>2, FS_EmptySet
  <2>4. \A i \in 1..n : rows[i].section <= 0
    BY <2>1
  <2> QED  BY <1>1, <2>1, <2>3, <2>4
<1>4. CASE rows # << >>
  <2> DEFINE T == {rows[i].section : i \in 1..n}
             ns == [i \in 1..n |-> rows[i].section]
  <2>1. \A i \in 1..n : ns[i] = rows[i].section /\ ns[i] \in Nat
    BY <1>2
  <2> HIDE DEF ns
  <2>2. PICK b \in Nat : \A i \in 1..n : ns[i] <= b
    BY <2>1, Bounded
  <2>3. T \subseteq 0..b /\ T # {}
    <3>1. 1 \in 1..n
      BY <1>2, <1>4
    <3> QED  BY <2>1, <2>2, <3>1
  <2>4. PICK s : s = Max(T)
    OBVIOUS
  <2>5. s \in T /\ \A k \in T : k <= s
    <3> HIDE DEF T
    <3> QED  BY <2>3, <2>4, MaxNat
  <2>6. PICK I \in SUBSET (1..n) : I = {i \in 1..n : rows[i].section = s}
    OBVIOUS
  <2>7. last_section(rows) = Rows(rows, I)
    BY <1>1, <1>4, <2>4, <2>6 DEF last_section, Where
  <2>8. /\ IsTable(Rows(rows, I)) /\ Len(Rows(rows, I)) = Cardinality(I)
        /\ ToSet(Rows(rows, I)) = {rows[i] : i \in I}
    BY <1>1, <2>6, RowsOf
  <2>9. \A i \in 1..n : rows[i].section <= s
    BY <2>5
  <2>10. ToSet(last_section(rows)) \subseteq ToSet(rows)
    BY <1>2, <2>7, <2>8
  <2> QED  BY <1>1, <2>5, <2>6, <2>7, <2>8, <2>9, <2>10
<1> QED  BY <1>3, <1>4

(* What the hops of a traceroute are: each at its own distance.            *)
GoodHops(hops) ==
    /\ IsTable(hops)
    /\ \A i \in 1..Len(hops) :
          hops[i].ttl = i /\ hops[i].loss_pct \in Nat /\ hops[i].avg_ms \in Nat

(* The hops of any answer of the router are good, and of one round.        *)
LEMMA TracedHops ==
  ASSUME NEW rows \in Answers.traceroute
  PROVE  GoodHops(parse_traceroute(rows)) /\ OneRound(rows)
<1>1. /\ IsTable(rows)
      /\ \A r \in ToSet(rows) : r.section \in Nat /\ r.loss \in Nat /\ r.avg \in Nat
  BY AnswersAssumption
<1>2. PICK last : last = last_section(rows)
  OBVIOUS
<1>3. PICK s \in {rows[i].section : i \in 1..Len(rows)} \union {0} :
          /\ \A i \in 1..Len(rows) : rows[i].section <= s
          /\ Len(last) = Cardinality({i \in 1..Len(rows) : rows[i].section = s})
  BY <1>1, <1>2, LastRound
<1>4. IsTable(last) /\ ToSet(last) \subseteq ToSet(rows)
  BY <1>1, <1>2, LastRound
<1>5. PICK m \in Nat : m = Len(last) /\ ToSet(last) = {last[i] : i \in 1..m}
  BY <1>4, TableFacts
<1> DEFINE hops == [i \in 1..m |-> [ttl |-> i, address |-> last[i].address,
                                    loss_pct |-> last[i].loss, avg_ms |-> last[i].avg]]
<1>6. parse_traceroute(rows) = hops
  BY <1>2, <1>5 DEF parse_traceroute
<1>7. \A i \in 1..m : /\ hops[i].ttl = i /\ hops[i].loss_pct = last[i].loss
                     /\ hops[i].avg_ms = last[i].avg
  OBVIOUS
<1>8. \A i \in 1..m : last[i].loss \in Nat /\ last[i].avg \in Nat
  BY <1>1, <1>4, <1>5
<1>9. hops \in [1..m -> ToSet(hops)]
  BY DEF ToSet
<1> HIDE DEF hops
<1>10. IsTable(hops) /\ Len(hops) = m
  BY <1>9, TableOf
<1>11. GoodHops(hops)
  BY <1>7, <1>8, <1>10 DEF GoodHops
<1>12. OneRound(rows)
  BY <1>3, <1>5, <1>6, <1>10 DEF OneRound
<1> QED  BY <1>6, <1>11, <1>12

(* Of the hops, those that responded, in their order.                      *)
GoodPath(hops, hs) ==
    /\ IsTable(hs)
    /\ \A k \in 1..Len(hs) :
          /\ hs[k].loss_pct \in Nat /\ hs[k].avg_ms \in Nat /\ hs[k].ttl \in Nat
          /\ hops[hs[k].ttl] = hs[k]
    /\ \A k, l \in 1..Len(hs) : k < l => hs[k].ttl < hs[l].ttl

(* The hops that responded are a path.                                     *)
LEMMA Responding ==
  ASSUME NEW hops, GoodHops(hops)
  PROVE  /\ GoodPath(hops, Where(hops, responded))
         /\ Where(hops, responded) # << >> => hops # << >>
<1>1. PICK m \in Nat : m = Len(hops)
  BY TableFacts DEF GoodHops
<1>2. PICK I \in SUBSET (1..m) : I = {i \in 1..m : responded(hops[i])}
  OBVIOUS
<1>3. PICK hs : hs = Rows(hops, I) /\ Where(hops, responded) = hs
  BY <1>1, <1>2 DEF Where
<1>4. PICK c \in Nat : c = Cardinality(I)
  BY <1>2, RowsFacts
<1>5. /\ Len(hs) = c
      /\ \A k \in 1..c : Nth(I, k) \in I /\ hs[k] = hops[Nth(I, k)]
      /\ \A k, l \in 1..c : k < l => Nth(I, k) < Nth(I, l)
  <2>1. /\ Len(Rows(hops, I)) = c
        /\ \A k \in 1..c : Nth(I, k) \in I /\ Rows(hops, I)[k] = hops[Nth(I, k)]
        /\ \A k, l \in 1..c : k < l => Nth(I, k) < Nth(I, l)
    BY <1>4, RowsFacts
  <2> QED  BY <1>3, <2>1
<1>6. IsTable(hs)
  <2>1. I \subseteq 1..Len(hops) /\ IsTable(hops)
    BY <1>1 DEF GoodHops
  <2>2. IsTable(Rows(hops, I))
    BY <2>1, RowsOf
  <2> QED  BY <1>3, <2>2
<1>7. \A k \in 1..c : hs[k].ttl = Nth(I, k) /\ Nth(I, k) \in 1..m
  BY <1>1, <1>2, <1>5 DEF GoodHops
<1>8. GoodPath(hops, hs)
  BY <1>1, <1>5, <1>6, <1>7 DEF GoodPath, GoodHops
<1>9. hs # << >> => hops # << >>
  <2>1. SUFFICES ASSUME hops = << >> PROVE hs = << >>
    OBVIOUS
  <2>2. I = {}
    BY <1>1, <1>2, <2>1
  <2>3. c = 0
    BY <1>4, <2>2, FS_EmptySet
  <2> QED  BY <1>5, <1>6, <2>3, TableFacts
<1> QED  BY <1>3, <1>8, <1>9

(* The findings with a code, in their order.                               *)
LEMMA CodedFacts ==
  ASSUME NEW found, IsTable(found), NEW code
  PROVE  /\ Coded(found, code) # << >> <=> \E f \in ToSet(found) : f.code = code
         /\ Coded(found, code) # << >> =>
               Coded(found, code)[1] \in ToSet(found)
               /\ Coded(found, code)[1].code = code
<1>1. PICK I : I = {i \in 1..Len(found) : found[i].code = code}
  OBVIOUS
<1>2. Coded(found, code) = Rows(found, I)
  BY <1>1 DEF Coded, Where
<1>3. PICK s : s = Rows(found, I)
  OBVIOUS
<1>4. IsTable(s) /\ ToSet(s) = {found[i] : i \in I}
  BY <1>1, <1>3, RowsOf
<1>5. ToSet(found) = {found[i] : i \in 1..Len(found)}
  BY TableFacts
<1>6. /\ Len(s) \in Nat /\ ToSet(s) = {s[i] : i \in 1..Len(s)}
      /\ s = << >> <=> Len(s) = 0
  BY <1>4, TableFacts
<1>7. s # << >> => 1 \in 1..Len(s)
  BY <1>6
<1>8. s # << >> <=> ToSet(s) # {}
  BY <1>6, <1>7
<1>9. \A f \in ToSet(s) : f \in ToSet(found) /\ f.code = code
  BY <1>1, <1>4, <1>5
<1>10. \A f \in ToSet(found) : f.code = code => f \in ToSet(s)
  BY <1>1, <1>4, <1>5
<1>11. s # << >> => s[1] \in ToSet(s)
  BY <1>6, <1>7
<1> QED  BY <1>2, <1>3, <1>8, <1>9, <1>10, <1>11

(* A step that is reported is the largest that lasts to the end.           *)
LEMMA StepNamed ==
  ASSUME NEW hops, NEW hs, GoodPath(hops, hs), Steps(hs) # {}
  PROVE  \E w \in Steps(hs) :
            /\ \E severity :
                 latency_step(hs, TRUE)
                   = <<Finding("path.latency_step", severity,
                               <<hs[w].ttl, hs[w + 1].ttl>>)>>
            /\ \A i \in Steps(hs) : hs[i + 1].avg_ms - hs[i].avg_ms
                                      <= hs[w + 1].avg_ms - hs[w].avg_ms
<1> DEFINE v == [i \in Steps(hs) |-> hs[i + 1].avg_ms - hs[i].avg_ms]
<1>1. PICK c \in Nat : c = Len(hs)
  BY TableFacts DEF GoodPath
<1>2. Steps(hs) \in SUBSET (1..c)
  BY <1>1 DEF Steps
<1>3. ASSUME NEW i \in Steps(hs)
      PROVE  hs[i + 1].avg_ms - hs[i].avg_ms \in Nat
  <2>1. i \in 1..c /\ i + 1 \in 1..c /\ hs[i + 1].avg_ms - hs[i].avg_ms >= 30
    BY <1>1 DEF Steps, LATENCY_STEP_MS
  <2>2. PICK a \in Nat, b \in Nat : a = hs[i].avg_ms /\ b = hs[i + 1].avg_ms
    BY <1>1, <2>1 DEF GoodPath
  <2> QED  BY <2>1, <2>2
<1>4. \A i \in Steps(hs) : v[i] = hs[i + 1].avg_ms - hs[i].avg_ms /\ v[i] \in Nat
  BY <1>3
<1> HIDE DEF v
<1>5. \E i \in Steps(hs) : \A j \in Steps(hs) : v[j] < v[i] \/ (v[j] = v[i] /\ i <= j)
  BY <1>2, <1>4, FirstOfTheLargest
<1> DEFINE rise(i) == hs[i + 1].avg_ms - hs[i].avg_ms
           Worst(i) == \A j \in Steps(hs) :
                          rise(j) < rise(i) \/ (rise(j) = rise(i) /\ i <= j)
<1>6. \E i \in Steps(hs) : Worst(i)
  BY <1>4, <1>5
<1>7. PICK severity :
          latency_step(hs, TRUE)
            = <<Finding("path.latency_step", severity,
                        <<hs[CHOOSE i \in Steps(hs) : Worst(i)].ttl,
                          hs[(CHOOSE i \in Steps(hs) : Worst(i)) + 1].ttl>>)>>
  BY DEF latency_step
<1>8. PICK w \in Steps(hs) : w = (CHOOSE i \in Steps(hs) : Worst(i)) /\ Worst(w)
  <2> HIDE DEF Worst
  <2> QED  BY <1>6
<1>9. \A i \in Steps(hs) : rise(i) <= rise(w)
  <2>1. \A i \in Steps(hs) : rise(i) \in Nat
    BY <1>3
  <2> HIDE DEF rise
  <2> QED  BY <1>8, <2>1
<1> QED  BY <1>7, <1>8, <1>9

(* Where loss lasts to the end, the hop it is said to start at is the      *)
(* first that loses, and not beyond the one behind the last clean hop.     *)
LEMMA OnsetInTime ==
  ASSUME NEW hops, NEW hs, GoodPath(hops, hs), hs # << >>,
         Last(hs).loss_pct >= REAL_LOSS_PCT
  PROVE  \E k \in 1..Lasting(hs) : /\ onset(hs) = hs[k] /\ k \notin Lossless(hs)
                                   /\ 1..(k - 1) \subseteq Lossless(hs)
<1> DEFINE clean == Lossless(hs)
           lossy == {i \in 1..Len(hs) : hs[i].loss_pct >= REAL_LOSS_PCT}
           upto == clean \union {0}
<1>1. PICK c \in Nat : c = Len(hs) /\ c # 0
  BY TableFacts DEF GoodPath
<1>2. \A i \in 1..c : hs[i].loss_pct \in Nat /\ hs[i].ttl \in Nat
  BY <1>1 DEF GoodPath
<1>3. hs[c].loss_pct >= 2
  BY <1>1 DEF Last, REAL_LOSS_PCT
<1>4. \A i \in 1..c : i \in clean <=> i \notin lossy
  BY <1>1, <1>2 DEF REAL_LOSS_PCT, Lossless
<1>5. c \in lossy /\ lossy \subseteq 1..c
  BY <1>1, <1>3 DEF REAL_LOSS_PCT
<1>6. upto \subseteq 0..(c - 1) /\ upto # {}
  <2>1. ASSUME NEW i \in clean PROVE i \in 0..(c - 1)
    <3>1. i \in 1..c
      BY <1>1 DEF Lossless
    <3>2. i # c
      BY <1>1, <1>4, <1>5, <3>1
    <3> HIDE DEF clean
    <3> QED  BY <3>1, <3>2
  <2>2. 0 \in 0..(c - 1)
    BY <1>1
  <2> QED  BY <2>1, <2>2
<1>7. PICK m : m = Max(upto)
  OBVIOUS
<1>8. m \in 0..(c - 1) /\ \A k \in upto : k <= m
  <2> HIDE DEF upto
  <2>1. c - 1 \in Nat
    BY <1>1
  <2> QED  BY <1>6, <1>7, <2>1, MaxNat
<1>9. m + 1 \in 1..c /\ m + 1 \notin clean
  <2>1. m + 1 \in 1..c /\ m \in Nat
    BY <1>8
  <2>2. m + 1 \in clean => m + 1 <= m
    <3> HIDE DEF clean
    <3> QED  BY <1>8
  <2> HIDE DEF clean
  <2> QED  BY <2>1, <2>2
<1>10. m + 1 \in lossy
  BY <1>4, <1>9
<1>11. PICK l : l = Min(lossy)
  OBVIOUS
<1>12. l \in lossy /\ \A i \in lossy : l <= i
  <2>1. lossy \subseteq Nat /\ lossy # {}
    BY <1>5
  <2> HIDE DEF lossy
  <2> QED  BY <1>11, <2>1, MinNat
<1>13. onset(hs) = hs[l]
  BY <1>11 DEF onset
<1>14. l \in 1..(m + 1) /\ l \notin clean
  <2> HIDE DEF clean, lossy
  <2> QED  BY <1>4, <1>5, <1>8, <1>10, <1>12
<1>15. 1..(l - 1) \subseteq clean
  <2>1. l \in 1..c
    BY <1>5, <1>12
  <2> HIDE DEF clean, lossy
  <2>2. ASSUME NEW i \in 1..(l - 1) PROVE i \in clean
    <3>1. i \in 1..c /\ ~(l <= i)
      BY <2>1
    <3> QED  BY <1>4, <1>12, <3>1
  <2> QED  BY <2>2
<1>16. m + 1 = Lasting(hs)
  BY <1>7 DEF Lasting
<1> QED  BY <1>13, <1>14, <1>15, <1>16

(* The findings of a path, by where they come from.                        *)
LEMMA PathParts ==
  ASSUME NEW a, IsTable(a), NEW b, IsTable(b), NEW c, IsTable(c), NEW d, IsTable(d),
         NEW e, IsTable(e)
  PROVE  /\ IsTable(a \o b \o c \o d \o e)
         /\ ToSet(a \o b \o c \o d \o e)
              = ToSet(a) \union ToSet(b) \union ToSet(c) \union ToSet(d) \union ToSet(e)
<1>1. PICK x : x = a \o b
  OBVIOUS
<1>2. IsTable(x) /\ ToSet(x) = ToSet(a) \union ToSet(b)
  BY <1>1, Joined
<1>3. PICK y : y = x \o c
  OBVIOUS
<1>4. IsTable(y) /\ ToSet(y) = ToSet(x) \union ToSet(c)
  BY <1>2, <1>3, Joined
<1>5. PICK z : z = y \o d
  OBVIOUS
<1>6. IsTable(z) /\ ToSet(z) = ToSet(y) \union ToSet(d)
  BY <1>4, <1>5, Joined
<1>7. IsTable(z \o e) /\ ToSet(z \o e) = ToSet(z) \union ToSet(e)
  BY <1>6, Joined
<1> QED  BY <1>1, <1>2, <1>3, <1>4, <1>5, <1>6, <1>7

Answering(hops) == Where(hops, responded)

Reached(hs, target) == hs # << >> /\ Last(hs).address = target

Told(found, code) == {f \in ToSet(found) : f.code = code}

(* What is said of latency and of loss, and that something is said.        *)
LEMMA PathSaid ==
  ASSUME NEW hops, NEW hs, hs = Answering(hops), GoodPath(hops, hs),
         hs # << >> => hops # << >>,
         NEW target, NEW found, found = analyse_path(hops, target)
  PROVE  /\ IsTable(found)
         /\ hops # << >> /\ ~Reached(hs, target) => found # << >>
         /\ Told(found, "path.latency_step")
              = IF Reached(hs, target) THEN ToSet(latency_step(hs, TRUE)) ELSE {}
         /\ Told(found, "path.loss")
              = IF Reached(hs, target) THEN ToSet(path_loss(hs, TRUE)) ELSE {}
<1>0. PICK reached \in BOOLEAN : reached <=> Reached(hs, target)
  OBVIOUS
<1>1. CASE hops = << >> \/ hs = << >>
  <2>1. \/ found = << >> /\ hops = << >>
        \/ found = <<Finding("path.no_response", "critical", << >>)>>
    BY <1>1 DEF analyse_path, Answering
  <2>2. /\ IsTable(found) /\ (hops # << >> => found # << >>)
        /\ Told(found, "path.latency_step") = {} /\ Told(found, "path.loss") = {}
    <3>1. \A f \in ToSet(found) : f.code = "path.no_response"
      BY <2>1, ShortTables DEF Finding
    <3>2. IsTable(found) /\ (hops # << >> => found # << >>)
      BY <2>1, ShortTables
    <3> QED  BY <3>1, <3>2 DEF Told
  <2>3. ~Reached(hs, target)
    BY <1>1 DEF Reached
  <2> QED  BY <2>2, <2>3
<1>2. CASE hops # << >> /\ hs # << >>
  <2>1. reached = (Last(hs).address = target)
    BY <1>0, <1>2 DEF Reached
  <2> DEFINE a == IF reached THEN << >>
                  ELSE <<Finding("path.unreachable", "critical", <<Last(hs).ttl>>)>>
             b == latency_step(hs, reached)
             c == path_loss(hs, reached)
             d == routing_loop(hs)
             e == cgnat(hs)
  <2>2. found = a \o b \o c \o d \o e
    BY <1>2, <2>1 DEF analyse_path, Answering
  <2>3. /\ IsTable(a) /\ \A f \in ToSet(a) : f.code = "path.unreachable"
        /\ ~reached => ToSet(a) # {}
    BY ShortTables DEF Finding
  <2>4. /\ IsTable(b) /\ \A f \in ToSet(b) : f.code = "path.latency_step"
        /\ ~reached => ToSet(b) = {}
    <3>1. b = << >> \/ \E s, n : b = <<Finding("path.latency_step", s, n)>>
      BY DEF latency_step
    <3>2. ~reached => b = << >>
      BY DEF latency_step
    <3> HIDE DEF b
    <3> QED  BY <3>1, <3>2, ShortTables DEF Finding
  <2>5. /\ IsTable(c) /\ \A f \in ToSet(c) : f.code = "path.loss"
        /\ ~reached => ToSet(c) = {}
    <3>1. c = << >> \/ \E s, n : c = <<Finding("path.loss", s, n)>>
      BY DEF path_loss
    <3>2. ~reached => c = << >>
      BY DEF path_loss
    <3> HIDE DEF c
    <3> QED  BY <3>1, <3>2, ShortTables DEF Finding
  <2>6. /\ IsTable(d) /\ \A f \in ToSet(d) : f.code = "path.routing_loop"
    <3>1. PICK names : d = Naming("path.routing_loop", "critical", names)
      BY DEF routing_loop
    <3> HIDE DEF d
    <3> QED  BY <3>1, NamingFacts DEF Finding
  <2>7. /\ IsTable(e) /\ \A f \in ToSet(e) : f.code = "path.cgnat"
    <3>1. PICK names : e = Naming("path.cgnat", "info", names)
      BY DEF cgnat
    <3> HIDE DEF e
    <3> QED  BY <3>1, NamingFacts DEF Finding
  <2>8. reached => b = latency_step(hs, TRUE) /\ c = path_loss(hs, TRUE)
    OBVIOUS
  <2> HIDE DEF a, b, c, d, e
  <2>9. /\ IsTable(found)
        /\ ToSet(found)
             = ToSet(a) \union ToSet(b) \union ToSet(c) \union ToSet(d) \union ToSet(e)
    BY <2>2, <2>3, <2>4, <2>5, <2>6, <2>7, PathParts
  <2>10. Told(found, "path.latency_step") = ToSet(b)
    BY <2>3, <2>4, <2>5, <2>6, <2>7, <2>9 DEF Told
  <2>11. Told(found, "path.loss") = ToSet(c)
    BY <2>3, <2>4, <2>5, <2>6, <2>7, <2>9 DEF Told
  <2>12. ~reached => found # << >>
    BY <2>3, <2>9, ShortTables
  <2> QED  BY <1>0, <2>4, <2>5, <2>8, <2>9, <2>10, <2>11, <2>12
<1> QED  BY <1>1, <1>2

(* Of a path, no step that lasts to the end is missed and the one named    *)
(* lasts and is at least as large; loss is reported exactly where the      *)
(* target suffers it.                                                      *)
LEMMA PathIsSound ==
  ASSUME NEW rows, GoodHops(parse_traceroute(rows)), NEW target
  PROVE  PathSound(rows, target)
<1>1. PICK hops : hops = parse_traceroute(rows)
  OBVIOUS
<1>2. PICK hs : hs = Answering(hops)
  OBVIOUS
<1>3. PICK found : found = analyse_path(hops, target)
  OBVIOUS
<1>4. PICK step, loss : /\ step = Coded(found, "path.latency_step")
                        /\ loss = Coded(found, "path.loss")
  OBVIOUS
<1>5. GoodPath(hops, hs) /\ (hs # << >> => hops # << >>)
  BY <1>1, <1>2, Responding DEF Answering
<1>7. /\ IsTable(found)
      /\ hops # << >> /\ ~Reached(hs, target) => found # << >>
      /\ Told(found, "path.latency_step")
           = IF Reached(hs, target) THEN ToSet(latency_step(hs, TRUE)) ELSE {}
      /\ Told(found, "path.loss")
           = IF Reached(hs, target) THEN ToSet(path_loss(hs, TRUE)) ELSE {}
  BY <1>2, <1>3, <1>5, PathSaid
<1>8. /\ step # << >> <=> Told(found, "path.latency_step") # {}
      /\ step # << >> => step[1] \in Told(found, "path.latency_step")
      /\ loss # << >> <=> Told(found, "path.loss") # {}
      /\ loss # << >> => loss[1] \in Told(found, "path.loss")
  BY <1>4, <1>7, CodedFacts DEF Told
<1> DEFINE rtt(ttl) == hops[ttl].avg_ms
<1>9. CASE ~Reached(hs, target)
  <2>1. step = << >> /\ loss = << >> /\ (hops # << >> => found # << >>)
    BY <1>7, <1>8, <1>9
  <2> QED  BY <1>1, <1>2, <1>3, <1>4, <1>9, <2>1
           DEF PathSound, Answering, Reached
<1>10. CASE Reached(hs, target)
  <2>0. PICK c \in Nat : c = Len(hs) /\ c # 0
    BY <1>5, <1>10, TableFacts DEF GoodPath, Reached
  <2>1. \A k \in 1..c : /\ hs[k].loss_pct \in Nat /\ hs[k].avg_ms \in Nat
                       /\ rtt(hs[k].ttl) = hs[k].avg_ms
    BY <1>5, <2>0 DEF GoodPath
  <2>2. Last(hs) = hs[c]
    BY <2>0 DEF Last
  <2>3. ASSUME NEW i \in 1..(c - 1), RealStep(hs, i) PROVE i \in Steps(hs)
    <3>1. hs[c].avg_ms >= hs[i + 1].avg_ms
      <4>1. c \in (i + 1)..c
        BY <2>0
      <4> QED  BY <2>0, <2>3, <4>1 DEF RealStep
    <3>2. i + 1 \in 1..c
      BY <2>0
    <3>3. PICK x \in Nat, y \in Nat : x = hs[c].avg_ms /\ y = hs[i + 1].avg_ms
      BY <2>0, <2>1, <3>2
    <3>4. y <= x + 30
      BY <3>1, <3>3
    <3>5. persists(hs[i + 1], Last(hs).avg_ms)
      BY <2>2, <3>3, <3>4 DEF persists, LATENCY_STEP_MS
    <3> QED  BY <2>0, <2>3, <3>5 DEF Steps, RealStep
  <2>4. /\ \A i \in 1..(c - 1) : RealStep(hs, i) =>
              step # << >> /\ rtt(step[1].names[2]) - rtt(step[1].names[1])
                                >= hs[i + 1].avg_ms - hs[i].avg_ms
        /\ step # << >> => rtt(step[1].names[2]) - Last(hs).avg_ms <= LATENCY_STEP_MS
    <3>1. CASE Steps(hs) = {}
      <4>1. latency_step(hs, TRUE) = << >>
        BY <3>1 DEF latency_step
      <4>2. step = << >>
        BY <1>7, <1>8, <1>10, <4>1, ShortTables
      <4> QED  BY <2>3, <3>1, <4>2
    <3>2. CASE Steps(hs) # {}
      <4>0. PICK w \in Steps(hs) :
                /\ \E severity :
                     latency_step(hs, TRUE)
                       = <<Finding("path.latency_step", severity,
                                   <<hs[w].ttl, hs[w + 1].ttl>>)>>
                /\ \A i \in Steps(hs) : hs[i + 1].avg_ms - hs[i].avg_ms
                                          <= hs[w + 1].avg_ms - hs[w].avg_ms
        BY <1>5, <3>2, StepNamed
      <4>1. PICK severity :
                latency_step(hs, TRUE)
                  = <<Finding("path.latency_step", severity,
                              <<hs[w].ttl, hs[w + 1].ttl>>)>>
        BY <4>0
      <4>2. Told(found, "path.latency_step")
              = {Finding("path.latency_step", severity, <<hs[w].ttl, hs[w + 1].ttl>>)}
        BY <1>7, <1>10, <4>1, ShortTables
      <4>3. step # << >> /\ step[1].names = <<hs[w].ttl, hs[w + 1].ttl>>
        <5>1. step # << >>
          BY <1>8, <4>2
        <5>2. step[1] = Finding("path.latency_step", severity,
                                <<hs[w].ttl, hs[w + 1].ttl>>)
          BY <1>8, <4>2, <5>1
        <5> QED  BY <5>1, <5>2 DEF Finding
      <4>4. w \in 1..c /\ w + 1 \in 1..c
        BY <2>0 DEF Steps
      <4>5. /\ rtt(step[1].names[1]) = hs[w].avg_ms
            /\ rtt(step[1].names[2]) = hs[w + 1].avg_ms
        BY <2>1, <4>3, <4>4
      <4>6. PICK x \in Nat, y \in Nat : x = hs[c].avg_ms /\ y = hs[w + 1].avg_ms
        BY <2>0, <2>1, <4>4
      <4>7. y <= x + 30
        BY <2>2, <4>6 DEF Steps, persists, LATENCY_STEP_MS
      <4>8. y - x <= 30
        BY <4>6, <4>7
      <4>9. rtt(step[1].names[2]) - Last(hs).avg_ms <= LATENCY_STEP_MS
        BY <2>2, <4>5, <4>6, <4>8 DEF LATENCY_STEP_MS
      <4>10. ASSUME NEW i \in 1..(c - 1), RealStep(hs, i)
             PROVE  rtt(step[1].names[2]) - rtt(step[1].names[1])
                      >= hs[i + 1].avg_ms - hs[i].avg_ms
        <5>1. hs[i + 1].avg_ms - hs[i].avg_ms <= hs[w + 1].avg_ms - hs[w].avg_ms
          BY <2>3, <4>0, <4>10
        <5>2. i \in 1..c /\ i + 1 \in 1..c
          BY <2>0
        <5>3. PICK p \in Nat, q \in Nat : p = hs[i + 1].avg_ms /\ q = hs[i].avg_ms
          BY <2>1, <5>2
        <5>4. PICK z \in Nat : z = hs[w].avg_ms
          BY <2>1, <4>4
        <5> QED  BY <4>5, <4>6, <5>1, <5>3, <5>4
      <4> QED  BY <4>3, <4>9, <4>10
    <3> QED  BY <3>1, <3>2
  <2>5. loss # << >> <=> Last(hs).loss_pct >= REAL_LOSS_PCT
    <3>1. hs[c].loss_pct \in Nat
      BY <2>0, <2>1
    <3>2. CASE hs[c].loss_pct < 2
      <4>1. path_loss(hs, TRUE) = << >>
        BY <2>2, <3>2 DEF path_loss, REAL_LOSS_PCT
      <4>2. loss = << >>
        BY <1>7, <1>8, <1>10, <4>1, ShortTables
      <4>3. ~(hs[c].loss_pct >= 2)
        BY <3>1, <3>2
      <4> QED  BY <2>2, <4>2, <4>3 DEF REAL_LOSS_PCT
    <3>3. CASE ~(hs[c].loss_pct < 2)
      <4>1. PICK f : path_loss(hs, TRUE) = <<f>>
        BY <2>2, <3>3 DEF path_loss, REAL_LOSS_PCT
      <4>2. loss # << >>
        BY <1>7, <1>8, <1>10, <4>1, ShortTables
      <4> QED  BY <2>2, <3>1, <3>3, <4>2 DEF REAL_LOSS_PCT
    <3> QED  BY <3>2, <3>3
  <2>6. loss # << >> =>
          \E k \in 1..Lasting(hs) : /\ loss[1].names[1] = hs[k].ttl
                                    /\ k \notin Lossless(hs)
                                    /\ 1..(k - 1) \subseteq Lossless(hs)
    <3>1. SUFFICES ASSUME loss # << >>
                   PROVE  \E k \in 1..Lasting(hs) :
                             /\ loss[1].names[1] = hs[k].ttl
                             /\ k \notin Lossless(hs)
                             /\ 1..(k - 1) \subseteq Lossless(hs)
      OBVIOUS
    <3>2. PICK severity :
              path_loss(hs, TRUE) = <<Finding("path.loss", severity, <<onset(hs).ttl>>)>>
      <4>1. path_loss(hs, TRUE) # << >>
        BY <1>7, <1>8, <1>10, <3>1, ShortTables
      <4> QED  BY <4>1 DEF path_loss
    <3>3. Told(found, "path.loss") = {Finding("path.loss", severity, <<onset(hs).ttl>>)}
      BY <1>7, <1>10, <3>2, ShortTables
    <3>4. loss[1].names[1] = onset(hs).ttl
      BY <1>8, <3>1, <3>3 DEF Finding
    <3>5. \E k \in 1..Lasting(hs) : /\ onset(hs) = hs[k] /\ k \notin Lossless(hs)
                                    /\ 1..(k - 1) \subseteq Lossless(hs)
      BY <1>5, <1>10, <2>5, <3>1, OnsetInTime DEF Reached
    <3> QED  BY <3>4, <3>5
  <2> QED  BY <1>1, <1>2, <1>3, <1>4, <1>10, <2>0, <2>4, <2>5, <2>6
           DEF PathSound, Answering, Reached
<1> QED  BY <1>9, <1>10

(* A traceroute's findings are worth what they say, and the path is that   *)
(* of a single round (parse_traceroute, analyse_path).                     *)
THEOREM PathIsGrounded == Spec => []PathGrounded
<1>1. AnswersTraced => PathGrounded
  <2> SUFFICES ASSUME AnswersTraced, Ended("trace")
               PROVE  PathSound(got.traceroute, task.target) /\ OneRound(got.traceroute)
    BY DEF PathGrounded
  <2>1. PICK rows : rows = got.traceroute
    OBVIOUS
  <2>2. rows \in Answers.traceroute
    BY <2>1 DEF AnswersTraced, Ended, Counters
  <2> QED  BY <2>1, <2>2, TracedHops, PathIsSound
<1> QED  BY <1>1, AnswersInvariance, PTL

-----------------------------------------------------------------------------
(* The capture.                                                            *)

(* The busiest direction of each host.                                     *)
Speeds(s) == [i \in 1..Len(s) |-> busiest(s[i])]

(* One row more in a table, behind the first p.                            *)
LEMMA Inserted ==
  ASSUME NEW s, IsTable(s), NEW p \in 0..Len(s), NEW e
  PROVE  LET t == InsertAt(s, p + 1, e)
         IN  /\ IsTable(t) /\ Len(t) = Len(s) + 1
             /\ ToSet(t) = ToSet(s) \union {e}
             /\ \A k \in 1..(Len(s) + 1) :
                   t[k] = IF k <= p THEN s[k]
                          ELSE IF k = p + 1 THEN e ELSE s[k - 1]
<1>1. PICK n \in Nat : n = Len(s) /\ p \in 0..n /\ ToSet(s) = {s[i] : i \in 1..n}
  BY TableFacts
<1>2. PICK X : X = ToSet(s) \union {e}
  OBVIOUS
<1>3. s \in Seq(X) /\ e \in X
  BY <1>2 DEF IsTable
<1>4. PICK a : a = SubSeq(s, 1, p)
  OBVIOUS
<1>5. a \in Seq(X) /\ Len(a) = p /\ \A k \in 1..p : a[k] = s[k]
  <2>1. \A k \in 1..p : s[k] \in X
    BY <1>1, <1>2
  <2>2. /\ SubSeq(s, 1, p) \in Seq(X)
        /\ Len(SubSeq(s, 1, p)) = IF 1 <= p THEN p - 1 + 1 ELSE 0
        /\ \A k \in 1..(p - 1 + 1) : SubSeq(s, 1, p)[k] = s[1 + k - 1]
    BY <2>1, SubSeqProperties
  <2>3. p - 1 + 1 = p /\ (~(1 <= p) => p = 0) /\ \A k \in 1..p : 1 + k - 1 = k
    BY <1>1
  <2> QED  BY <1>4, <2>2, <2>3
<1>6. PICK b : b = SubSeq(s, p + 1, n)
  OBVIOUS
<1>7. b \in Seq(X) /\ Len(b) = n - p /\ \A k \in 1..(n - p) : b[k] = s[p + k]
  <2>1. \A k \in (p + 1)..n : s[k] \in X
    BY <1>1, <1>2
  <2>2. /\ SubSeq(s, p + 1, n) \in Seq(X)
        /\ Len(SubSeq(s, p + 1, n)) = IF p + 1 <= n THEN n - (p + 1) + 1 ELSE 0
        /\ \A k \in 1..(n - (p + 1) + 1) : SubSeq(s, p + 1, n)[k] = s[p + 1 + k - 1]
    <3>1. p + 1 \in Int /\ n \in Int
      BY <1>1
    <3> QED  BY <2>1, <3>1, SubSeqProperties
  <2>3. /\ n - (p + 1) + 1 = n - p /\ (~(p + 1 <= n) => n - p = 0)
        /\ \A k \in 1..(n - p) : p + 1 + k - 1 = p + k
    BY <1>1
  <2> QED  BY <1>6, <2>2, <2>3
<1>8. PICK c : c = a \o <<e>>
  OBVIOUS
<1>9. /\ c \in Seq(X) /\ Len(c) = p + 1
      /\ \A k \in 1..(p + 1) : c[k] = IF k <= p THEN s[k] ELSE e
  <2>1. <<e>> \in Seq(X) /\ Len(<<e>>) = 1 /\ <<e>>[1] = e
    BY <1>3
  <2>2. /\ a \o <<e>> \in Seq(X) /\ Len(a \o <<e>>) = p + 1
        /\ \A k \in 1..(p + 1) :
              (a \o <<e>>)[k] = IF k <= p THEN a[k] ELSE <<e>>[k - p]
    BY <1>5, <2>1, ConcatProperties
  <2>3. \A k \in 1..(p + 1) : ~(k <= p) => k - p = 1
    BY <1>1
  <2>4. \A k \in 1..(p + 1) : k <= p => k \in 1..p
    BY <1>1
  <2> QED  BY <1>5, <1>8, <2>1, <2>2, <2>3, <2>4
<1>10. PICK t : t = c \o b
  OBVIOUS
<1>11. InsertAt(s, p + 1, e) = t
  <2>1. (p + 1) - 1 = p
    BY <1>1
  <2> QED  BY <1>1, <1>4, <1>6, <1>8, <1>10, <2>1 DEF InsertAt
<1>12. /\ t \in Seq(X) /\ Len(t) = n + 1
       /\ \A k \in 1..(n + 1) : t[k] = IF k <= p + 1 THEN c[k] ELSE b[k - (p + 1)]
  <2>1. /\ c \o b \in Seq(X) /\ Len(c \o b) = (p + 1) + (n - p)
        /\ \A k \in 1..((p + 1) + (n - p)) :
              (c \o b)[k] = IF k <= p + 1 THEN c[k] ELSE b[k - (p + 1)]
    <3>1. PICK d : d = c \o b
      OBVIOUS
    <3>2. /\ d \in Seq(X) /\ Len(d) = Len(c) + Len(b)
          /\ \A k \in 1..(Len(c) + Len(b)) :
                d[k] = IF k <= Len(c) THEN c[k] ELSE b[k - Len(c)]
      BY <1>7, <1>9, <3>1, ConcatProperties
    <3> QED  BY <1>7, <1>9, <3>1, <3>2
  <2>2. (p + 1) + (n - p) = n + 1
    BY <1>1
  <2> QED  BY <1>10, <2>1, <2>2
<1>13. ASSUME NEW k \in 1..(n + 1)
       PROVE  t[k] = IF k <= p THEN s[k] ELSE IF k = p + 1 THEN e ELSE s[k - 1]
  <2>1. CASE k <= p + 1
    <3>1. t[k] = c[k]
      BY <1>12, <2>1
    <3>2. k \in 1..(p + 1) /\ (~(k <= p) => k = p + 1)
      BY <1>1, <2>1
    <3> QED  BY <1>9, <3>1, <3>2
  <2>2. CASE ~(k <= p + 1)
    <3>1. t[k] = b[k - (p + 1)]
      BY <1>12, <2>2
    <3>2. /\ k - (p + 1) \in 1..(n - p) /\ p + (k - (p + 1)) = k - 1
          /\ ~(k <= p) /\ k # p + 1
      BY <1>1, <2>2
    <3> QED  BY <1>7, <3>1, <3>2
  <2> QED  BY <2>1, <2>2
<1>14. DOMAIN t = 1..(n + 1)
  BY <1>12
<1>15. ToSet(t) = {t[k] : k \in 1..(n + 1)}
  BY <1>14 DEF ToSet
<1>16. ToSet(t) = X
  <2>1. ToSet(t) \subseteq X
    BY <1>12, <1>15
  <2>2. e \in ToSet(t)
    <3>1. p + 1 \in 1..(n + 1) /\ ~(p + 1 <= p)
      BY <1>1
    <3> QED  BY <1>13, <1>15, <3>1
  <2>3. ASSUME NEW i \in 1..n PROVE s[i] \in ToSet(t)
    <3>1. CASE i <= p
      <4>1. i \in 1..(n + 1)
        BY <1>1
      <4> QED  BY <1>13, <1>15, <3>1, <4>1
    <3>2. CASE ~(i <= p)
      <4>1. /\ i + 1 \in 1..(n + 1) /\ ~(i + 1 <= p) /\ i + 1 # p + 1
            /\ (i + 1) - 1 = i
        BY <1>1, <3>2
      <4> QED  BY <1>13, <1>15, <4>1
    <3> QED  BY <3>1, <3>2
  <2> QED  BY <1>1, <1>2, <2>1, <2>2, <2>3
<1>17. IsTable(t)
  BY <1>12, <1>16 DEF IsTable
<1> QED  BY <1>1, <1>2, <1>11, <1>12, <1>13, <1>16, <1>17

(* What a host that outdoes another is.                                    *)
LEMMA OutdoingFacts ==
  ASSUME NEW g, busiest(g) \in Nat, NEW h, busiest(h) \in Nat
  PROVE  IF Outdoes(g, h) THEN busiest(h) <= busiest(g) ELSE busiest(g) <= busiest(h)
<1>1. CASE busiest(g) > busiest(h)
  BY <1>1 DEF Outdoes
<1>2. CASE busiest(g) = busiest(h)
  BY <1>2
<1>3. CASE busiest(g) < busiest(h)
  <2>1. ~Outdoes(g, h)
    BY <1>3 DEF Outdoes
  <2> QED  BY <1>3, <2>1
<1> QED  BY <1>1, <1>2, <1>3

(* A ranking keeps the busiest host first.                                 *)
Ranking(s) ==
    /\ IsTable(s) /\ \A h \in ToSet(s) : busiest(h) \in Nat
    /\ \A h \in ToSet(s) : busiest(h) <= busiest(s[1])

(* A host placed in a ranking makes it a ranking of one host more.         *)
LEMMA PlacedFacts ==
  ASSUME NEW s, Ranking(s), NEW h, busiest(h) \in Nat
  PROVE  LET t == Placed(s, h)
         IN  /\ Ranking(t) /\ Len(t) = Len(s) + 1
             /\ ToSet(t) = ToSet(s) \union {h}
             /\ Total(Speeds(t)) = Total(Speeds(s)) + busiest(h)
<1>1. PICK n \in Nat : n = Len(s) /\ ToSet(s) = {s[i] : i \in 1..n} /\ DOMAIN s = 1..n
  BY TableFacts DEF Ranking
<1>2. PICK I \in SUBSET (1..n) : I = {i \in DOMAIN s : ~Outdoes(h, s[i])}
  BY <1>1
<1>3. PICK p \in 0..n : p = Cardinality(I) /\ (p = 0 => I = {})
  <2>1. IsFiniteSet(1..n) /\ Cardinality(1..n) = n
    <3>1. /\ IsFiniteSet(1..n)
          /\ Cardinality(1..n) = IF 1 > n THEN 0 ELSE n - 1 + 1
      BY FS_Interval
    <3> QED  BY <3>1
  <2>2. IsFiniteSet(I) /\ Cardinality(I) <= n
    BY <2>1, FS_Subset
  <2>3. Cardinality(I) \in Nat /\ (Cardinality(I) = 0 => I = {})
    BY <2>2, FS_CardinalityType, FS_EmptySet
  <2> QED  BY <2>2, <2>3
<1>4. PICK t : t = Placed(s, h) /\ t = InsertAt(s, p + 1, h)
  BY <1>2, <1>3 DEF Placed
<1>5. /\ IsTable(t) /\ Len(t) = n + 1
      /\ ToSet(t) = ToSet(s) \union {h}
      /\ \A k \in 1..(n + 1) :
            t[k] = IF k <= p THEN s[k] ELSE IF k = p + 1 THEN h ELSE s[k - 1]
  BY <1>1, <1>3, <1>4, Inserted DEF Ranking
<1>6. \A g \in ToSet(t) : busiest(g) \in Nat
  BY <1>5 DEF Ranking
<1>7. ASSUME NEW i \in 1..n PROVE s[i] \in ToSet(s) /\ busiest(s[i]) \in Nat
                                  /\ busiest(s[i]) <= busiest(s[1])
  BY <1>1 DEF Ranking
<1>8. \A g \in ToSet(t) : busiest(g) <= busiest(t[1])
  <2>1. CASE p = 0
    <3>1. t[1] = h
      BY <1>5, <2>1
    <3>2. \A i \in 1..n : busiest(s[i]) <= busiest(h)
      <4>1. \A i \in 1..n : Outdoes(h, s[i])
        BY <1>1, <1>2, <1>3, <2>1
      <4> QED  BY <1>7, <4>1, OutdoingFacts
    <3> QED  BY <1>1, <1>5, <3>1, <3>2
  <2>2. CASE p # 0
    <3>1. t[1] = s[1] /\ 1 \in 1..n
      <4>1. 1 \in 1..(n + 1) /\ 1 <= p /\ 1 \in 1..n
        BY <1>3, <2>2
      <4> QED  BY <1>5, <4>1
    <3>2. PICK i \in 1..n : ~Outdoes(h, s[i])
      <4>1. I # {}
        BY <1>3, <2>2, FS_EmptySet
      <4> QED  BY <1>2, <4>1
    <3>3. busiest(h) <= busiest(s[i])
      BY <1>7, <3>2, OutdoingFacts
    <3>4. busiest(h) <= busiest(s[1])
      BY <1>7, <3>1, <3>3
    <3> QED  BY <1>1, <1>5, <1>7, <3>1, <3>4
  <2> QED  BY <2>1, <2>2
<1>9. Total(Speeds(t)) = Total(Speeds(s)) + busiest(h)
  <2>1. PICK ns : ns = Speeds(s)
    OBVIOUS
  <2>2. PICK ms : ms = Speeds(t)
    OBVIOUS
  <2>3. PICK x \in Nat : x = busiest(h)
    OBVIOUS
  <2>4. Len(ns) = n /\ \A k \in 1..n : ns[k] = busiest(s[k]) /\ ns[k] \in Nat
    BY <1>1, <1>7, <2>1 DEF Speeds
  <2>5. Len(ms) = n + 1 /\ \A k \in 1..(n + 1) : ms[k] = busiest(t[k])
    BY <1>5, <2>2 DEF Speeds
  <2>6. ASSUME NEW k \in 1..(n + 1)
        PROVE  ms[k] = IF k <= p THEN ns[k] ELSE IF k = p + 1 THEN x ELSE ns[k - 1]
    <3>1. CASE k <= p
      <4>1. k \in 1..n
        BY <1>3, <3>1
      <4> QED  BY <1>5, <2>4, <2>5, <3>1, <4>1
    <3>2. CASE k = p + 1
      BY <1>3, <1>5, <2>3, <2>5, <3>2
    <3>3. CASE k > p + 1
      <4>1. k - 1 \in 1..n /\ ~(k <= p) /\ k # p + 1
        BY <1>3, <3>3
      <4> QED  BY <1>5, <2>4, <2>5, <4>1
    <3> QED  BY <1>3, <3>1, <3>2, <3>3
  <2>7. OneMore(ms, ns, n, p, x)
    BY <2>6 DEF OneMore
  <2>8. n \in Nat /\ Len(ns) = n /\ Len(ms) = n + 1 /\ \A k \in 1..n : ns[k] \in Nat
    BY <1>1, <2>4, <2>5 DEF Ranking, IsTable
  <2>9. Total(ms) = Total(ns) + x
    BY <1>3, <2>3, <2>7, <2>8, TotalInserted
  <2> QED  BY <2>1, <2>2, <2>3, <2>9
<1>10. Ranking(t)
  BY <1>5, <1>6, <1>8 DEF Ranking
<1> QED  BY <1>1, <1>4, <1>5, <1>9, <1>10

(* The ranking of the hosts so far exists along every prefix.              *)
LEMMA RankingExists ==
  ASSUME NEW H, NEW n \in Nat
  PROVE  \A m \in 0..n :
            \E f : f = [k \in 0..m |-> IF k = 0 THEN << >> ELSE Placed(f[k - 1], H[k])]
<1> DEFINE Ok(m) == \E f : f = [k \in 0..m |->
                        IF k = 0 THEN << >> ELSE Placed(f[k - 1], H[k])]
           T == {m \in 0..n : ~ Ok(m)}
<1>1. SUFFICES ASSUME T # {} PROVE FALSE
  OBVIOUS
<1>2. T \subseteq Nat
  <2> HIDE DEF Ok
  <2> QED  OBVIOUS
<1>3. PICK m \in T : \A k \in T : m <= k
  <2> HIDE DEF T
  <2> QED  BY <1>1, <1>2, LeastNat
<1>4. CASE m = 0
  <2> DEFINE f == [k \in 0..0 |-> << >>]
  <2>1. f = [k \in 0..0 |-> IF k = 0 THEN << >> ELSE Placed(f[k - 1], H[k])]
    OBVIOUS
  <2> QED  BY <2>1, <1>4
<1>5. CASE m # 0
  <2>1. m - 1 \in 0..n /\ Ok(m - 1)
    <3> HIDE DEF Ok
    <3> QED  BY <1>3, <1>5
  <2>2. PICK f : f = [k \in 0..(m - 1) |->
                         IF k = 0 THEN << >> ELSE Placed(f[k - 1], H[k])]
    BY <2>1
  <2> DEFINE h == [k \in 0..m |-> IF k = m THEN Placed(f[m - 1], H[m]) ELSE f[k]]
  <2>3. ASSUME NEW k \in 0..m
        PROVE  h[k] = IF k = 0 THEN << >> ELSE Placed(h[k - 1], H[k])
    BY <2>2, <1>5
  <2>4. h = [k \in 0..m |-> IF k = 0 THEN << >> ELSE Placed(h[k - 1], H[k])]
    BY <2>3
  <2> QED  BY <2>4
<1> QED  BY <1>4, <1>5

(* No hosts are a ranking of none.                                         *)
LEMMA NoneRanked ==
  /\ Ranking(<< >>) /\ Len(<< >>) = 0 /\ ToSet(<< >>) = {}
  /\ Total(Speeds(<< >>)) = 0
<1>1. ToSet(<< >>) = {} /\ Len(<< >>) = 0
  BY DEF ToSet
<1>2. Ranking(<< >>)
  BY <1>1 DEF Ranking, IsTable
<1>3. PICK ns : ns = Speeds(<< >>)
  OBVIOUS
<1>4. Len(ns) = 0 /\ 0 \in Nat /\ \A k \in 1..0 : ns[k] \in Nat
  BY <1>1, <1>3 DEF Speeds
<1>5. Total(ns) = 0
  BY <1>4, TotalNat
<1> QED  BY <1>1, <1>2, <1>3, <1>5

(* Hosts sorted with the busiest first are the same hosts, and as busy     *)
(* together.                                                               *)
LEMMA BusiestFirst ==
  ASSUME NEW H, NEW n \in Nat, Len(H) = n, \A i \in 1..n : busiest(H[i]) \in Nat
  PROVE  LET S == busiest_first(H)
         IN  /\ Ranking(S) /\ Len(S) = n /\ ToSet(S) = {H[i] : i \in 1..n}
             /\ Total(Speeds(S)) = Total(Speeds(H))
<1>1. \E f : f = [k \in 0..n |-> IF k = 0 THEN << >> ELSE Placed(f[k - 1], H[k])]
  <2>1. n \in 0..n
    OBVIOUS
  <2> QED  BY <2>1, RankingExists
<1>2. PICK f : /\ f = [k \in 0..n |->
                          IF k = 0 THEN << >> ELSE Placed(f[k - 1], H[k])]
               /\ busiest_first(H) = f[n]
  BY <1>1, Zenon DEF busiest_first
<1>3. f[0] = << >> /\ \A k \in 1..n : f[k] = Placed(f[k - 1], H[k])
  BY <1>2
<1>4. PICK ns : ns = Speeds(H)
  OBVIOUS
<1>5. Len(ns) = n /\ \A k \in 1..n : ns[k] = busiest(H[k]) /\ ns[k] \in Nat
  BY <1>4 DEF Speeds
<1>6. PICK g : RunningSum(g, ns, n) /\ Total(ns) = g[n]
  BY <1>5, TotalFacts
<1> DEFINE Good(k) == /\ Ranking(f[k]) /\ Len(f[k]) = k
                      /\ ToSet(f[k]) = {H[i] : i \in 1..k}
                      /\ Total(Speeds(f[k])) = g[k]
           T == {k \in 0..n : ~Good(k)}
<1>7. T = {}
  <2>1. SUFFICES ASSUME T # {} PROVE FALSE
    OBVIOUS
  <2>2. T \subseteq Nat
    <3> HIDE DEF Good
    <3> QED  OBVIOUS
  <2>3. PICK m \in T : \A k \in T : m <= k
    <3> HIDE DEF T
    <3> QED  BY <2>1, <2>2, LeastNat
  <2>4. m \in 0..n /\ ~Good(m)
    <3> HIDE DEF Good
    <3> QED  BY <2>3
  <2>5. CASE m = 0
    <3>1. {H[i] : i \in 1..0} = {}
      OBVIOUS
    <3>2. g[0] = 0
      BY <1>6 DEF RunningSum
    <3> QED  BY <1>3, <2>4, <2>5, <3>1, <3>2, NoneRanked
  <2>6. CASE m # 0
    <3>1. m \in 1..n /\ m - 1 \in 0..n
      BY <2>4, <2>6
    <3>2. Good(m - 1)
      <4> HIDE DEF Good
      <4> QED  BY <2>3, <3>1
    <3>3. PICK s, h, t : /\ s = f[m - 1] /\ h = H[m] /\ t = Placed(s, h)
                         /\ f[m] = t /\ busiest(h) \in Nat
      BY <1>3, <3>1
    <3>4. /\ Ranking(t) /\ Len(t) = Len(s) + 1
          /\ ToSet(t) = ToSet(s) \union {h}
          /\ Total(Speeds(t)) = Total(Speeds(s)) + busiest(h)
      <4>1. Ranking(s) /\ busiest(h) \in Nat
        BY <3>2, <3>3
      <4>2. /\ Ranking(Placed(s, h)) /\ Len(Placed(s, h)) = Len(s) + 1
            /\ ToSet(Placed(s, h)) = ToSet(s) \union {h}
            /\ Total(Speeds(Placed(s, h))) = Total(Speeds(s)) + busiest(h)
        BY <4>1, PlacedFacts
      <4> QED  BY <3>3, <4>2
    <3>5. Len(t) = m
      BY <3>1, <3>2, <3>3, <3>4
    <3>6. ToSet(t) = {H[i] : i \in 1..m}
      <4>1. {H[i] : i \in 1..m} = {H[i] : i \in 1..(m - 1)} \union {H[m]}
        <5>1. 1..m = (1..(m - 1)) \union {m}
          BY <3>1
        <5> QED  BY <5>1
      <4> QED  BY <3>2, <3>3, <3>4, <4>1
    <3>7. Total(Speeds(t)) = g[m]
      <4>1. g[m] = g[m - 1] + ns[m]
        BY <1>6, <3>1 DEF RunningSum
      <4>2. ns[m] = busiest(h)
        BY <1>5, <3>1, <3>3
      <4> QED  BY <3>2, <3>3, <3>4, <4>1, <4>2
    <3> QED  BY <2>4, <3>3, <3>4, <3>5, <3>6, <3>7
  <2> QED  BY <2>5, <2>6
<1>8. n \in 0..n /\ Good(n)
  <2>1. n \in 0..n
    OBVIOUS
  <2> HIDE DEF Good
  <2> QED  BY <1>7, <2>1
<1> QED  BY <1>2, <1>4, <1>6, <1>8

HostOf(r) == [address |-> r.address,
              tx_rate_bps |-> num_of(r.rate[1]), rx_rate_bps |-> num_of(r.rate[2]),
              total_bytes |-> num_of(r.total[1]) + num_of(r.total[2])]

Speed(r) == Max({num_of(r.rate[1]), num_of(r.rate[2])})

SpeedSum(rows) == TotalOf(rows, Speed)

Addressed(rows) == Where(rows, LAMBDA r : r.address # Blank)

Rated(rows) ==
    IsTable(rows) /\ \A r \in ToSet(rows) : \A k \in {1, 2} : num_of(r.rate[k]) \in Nat

(* The hosts are the rows with an address, sorted.                         *)
LEMMA HostsListed ==
  ASSUME NEW rows, IsTable(rows)
  PROVE  LET J == Addressed(rows)
         IN  /\ IsTable(J) /\ ToSet(J) \subseteq ToSet(rows)
             /\ parse_hosts(rows) = busiest_first([k \in 1..Len(J) |-> HostOf(J[k])])
<1>1. PICK n \in Nat : n = Len(rows) /\ ToSet(rows) = {rows[i] : i \in 1..n}
  BY TableFacts
<1>2. PICK I \in SUBSET (1..n) : I = {i \in 1..Len(rows) : rows[i].address # Blank}
  BY <1>1
<1>3. PICK J : J = Rows(rows, I)
  OBVIOUS
<1>4. Addressed(rows) = J
  BY <1>2, <1>3 DEF Addressed, Where
<1>5. IsTable(J) /\ Len(J) = Cardinality(I) /\ ToSet(J) = {rows[i] : i \in I}
  BY <1>1, <1>3, RowsOf
<1>6. PICK H : H = [i \in 1..Len(rows) |-> HostOf(rows[i])]
  OBVIOUS
<1>7. Len(H) = n
  BY <1>1, <1>6
<1>8. {i \in 1..Len(H) : H[i].address # Blank} = I
  BY <1>1, <1>2, <1>6, <1>7 DEF HostOf
<1>9. parse_hosts(rows) = busiest_first(Rows(H, I))
  <2>1. parse_hosts(rows) = busiest_first(Rows(H, {i \in 1..Len(H) : H[i].address # Blank}))
    BY <1>6 DEF parse_hosts, Where, HostOf
  <2> QED  BY <1>8, <2>1
<1>10. Rows(H, I) = [k \in 1..Len(J) |-> HostOf(J[k])]
  <2>1. \A k \in 1..Cardinality(I) : Nth(I, k) \in I /\ J[k] = rows[Nth(I, k)]
    BY <1>3, RowsFacts
  <2>2. \A k \in 1..Cardinality(I) : H[Nth(I, k)] = HostOf(J[k])
    BY <1>1, <1>6, <2>1
  <2> QED  BY <1>5, <2>2 DEF Rows
<1> QED  BY <1>1, <1>4, <1>5, <1>9, <1>10

(* What is said of the hosts, whatever they are.                           *)
LEMMA HostsSaid ==
  ASSUME NEW hosts, NEW found, found = analyse_hosts(hosts)
  PROVE  /\ IsTable(found)
         /\ \A f \in ToSet(found) : f.code \in {"capture.dominant_host",
                                                "capture.broadcast_storm_source"}
         /\ \A f \in ToSet(found) : f.code = "capture.dominant_host" =>
               f.names = {hosts[1].address} /\ hosts # << >>
         /\ hosts # << >> /\ Total(Speeds(hosts)) # 0 /\ Len(hosts) > 1
            /\ 2 * busiest(hosts[1]) >= Total(Speeds(hosts))
            => \E f \in ToSet(found) : f.code = "capture.dominant_host"
                                       /\ f.names = {hosts[1].address}
<1>1. PICK total : total = Total(Speeds(hosts))
  OBVIOUS
<1>2. TotalOf(hosts, busiest) = total
  BY <1>1 DEF TotalOf, Speeds
<1>3. CASE hosts = << >> \/ total = 0
  <2>1. found = << >>
    BY <1>2, <1>3 DEF analyse_hosts
  <2> QED  BY <1>1, <1>3, <2>1, ShortTables
<1>4. CASE hosts # << >> /\ total # 0
  <2>1. \E a, b, s, x :
           /\ found = a \o b
           /\ a = IF 2 * busiest(hosts[1]) >= total /\ Len(hosts) > 1
                  THEN <<Finding("capture.dominant_host", s, {hosts[1].address})>>
                  ELSE << >>
           /\ \/ b = <<Finding("capture.broadcast_storm_source", "critical", x)>>
              \/ b = << >>
    <3>1. PICK bum : bum = TotalOf(Where(hosts, LAMBDA h : is_broadcastish(h.address)),
                                   busiest)
      OBVIOUS
    <3>2. PICK x : x = {h.address : h \in Filter(hosts, LAMBDA h :
                                                   is_broadcastish(h.address))}
      OBVIOUS
    <3>3. PICK s : s = IF 10 * busiest(hosts[1]) >= 8 * total THEN "warning" ELSE "info"
      OBVIOUS
    <3>4. PICK a : a = IF 2 * busiest(hosts[1]) >= total /\ Len(hosts) > 1
                       THEN <<Finding("capture.dominant_host", s, {hosts[1].address})>>
                       ELSE << >>
      OBVIOUS
    <3>5. PICK b : b = IF bum > 0 /\ 10 * bum >= 3 * total
                       THEN <<Finding("capture.broadcast_storm_source", "critical", x)>>
                       ELSE << >>
      OBVIOUS
    <3>6. found = a \o b
      BY <1>2, <1>4, <3>1, <3>2, <3>3, <3>4, <3>5 DEF analyse_hosts
    <3> QED  BY <3>4, <3>5, <3>6
  <2>2. PICK a, b, s, x :
           /\ found = a \o b
           /\ a = IF 2 * busiest(hosts[1]) >= total /\ Len(hosts) > 1
                  THEN <<Finding("capture.dominant_host", s, {hosts[1].address})>>
                  ELSE << >>
           /\ \/ b = <<Finding("capture.broadcast_storm_source", "critical", x)>>
              \/ b = << >>
    BY <2>1
  <2>3. IsTable(a) /\ IsTable(b)
    BY <2>2, ShortTables
  <2>4. IsTable(found) /\ ToSet(found) = ToSet(a) \union ToSet(b)
    BY <2>2, <2>3, Joined
  <2>5. \A f \in ToSet(a) : f.code = "capture.dominant_host"
                            /\ f.names = {hosts[1].address}
    BY <2>2, ShortTables DEF Finding
  <2>6. \A f \in ToSet(b) : f.code = "capture.broadcast_storm_source"
    BY <2>2, ShortTables DEF Finding
  <2>7. 2 * busiest(hosts[1]) >= total /\ Len(hosts) > 1 => ToSet(a) # {}
    BY <2>2, ShortTables
  <2> QED  BY <1>1, <1>4, <2>4, <2>5, <2>6, <2>7
<1> QED  BY <1>3, <1>4

DominantNames(found) ==
    UNION {f.names : f \in {g \in ToSet(found) : g.code = "capture.dominant_host"}}

(* The host that carries more than half is named, and no host another      *)
(* outdid.                                                                 *)
LEMMA DominantNamed ==
  ASSUME NEW rows, Rated(rows), NEW found, found = analyse_hosts(parse_hosts(rows))
  PROVE  LET J == Addressed(rows)
         IN  /\ \A r \in ToSet(J) :
                   Len(J) > 1 /\ 2 * Speed(r) > SpeedSum(J)
                   => r.address \in DominantNames(found)
             /\ \A a \in DominantNames(found) : \E r \in ToSet(J) :
                   /\ r.address = a
                   /\ \A q \in ToSet(J) : Speed(q) <= Speed(r)
<1>1. PICK J : J = Addressed(rows)
  OBVIOUS
<1>2. /\ IsTable(J) /\ ToSet(J) \subseteq ToSet(rows)
      /\ parse_hosts(rows) = busiest_first([k \in 1..Len(J) |-> HostOf(J[k])])
  BY <1>1, HostsListed DEF Rated
<1>3. PICK n \in Nat : n = Len(J) /\ ToSet(J) = {J[i] : i \in 1..n}
  BY <1>2, TableFacts
<1>4. PICK H : H = [k \in 1..n |-> HostOf(J[k])]
  OBVIOUS
<1>5. Len(H) = n /\ \A k \in 1..n : H[k] = HostOf(J[k])
  BY <1>4
<1>6. ASSUME NEW r \in ToSet(J)
      PROVE  Speed(r) \in Nat /\ busiest(HostOf(r)) = Speed(r) /\ HostOf(r).address = r.address
  <2>1. PICK a \in Nat, b \in Nat : a = num_of(r.rate[1]) /\ b = num_of(r.rate[2])
    BY <1>2 DEF Rated
  <2>2. Speed(r) = Max({a, b}) /\ busiest(HostOf(r)) = Max({a, b})
    BY <2>1 DEF Speed, busiest, HostOf
  <2>3. Max({a, b}) \in Nat
    <3>1. Max({a, b}) = IF a <= b THEN b ELSE a
      BY MaxTwo
    <3> QED  BY <3>1
  <2> QED  BY <2>2, <2>3 DEF HostOf
<1>7. \A k \in 1..n : busiest(H[k]) = Speed(J[k]) /\ busiest(H[k]) \in Nat
  BY <1>3, <1>5, <1>6
<1>8. PICK S : S = parse_hosts(rows) /\ S = busiest_first(H)
  BY <1>2, <1>3, <1>4
<1>9. /\ Ranking(S) /\ Len(S) = n /\ ToSet(S) = {H[i] : i \in 1..n}
      /\ Total(Speeds(S)) = Total(Speeds(H))
  BY <1>5, <1>7, <1>8, BusiestFirst
<1>10. PICK ns : ns = Speeds(S)
  OBVIOUS
<1>11. Len(ns) = n /\ \A k \in 1..n : ns[k] = busiest(S[k]) /\ ns[k] \in Nat
  <2>1. \A k \in 1..n : S[k] \in ToSet(S)
    BY <1>9, TableFacts DEF Ranking
  <2> QED  BY <1>9, <1>10, <2>1 DEF Speeds, Ranking
<1>12. PICK T \in Nat : /\ T = Total(ns)
                        /\ \A i \in 1..n : ns[i] <= T
                        /\ \A i, j \in 1..n : i < j => ns[i] + ns[j] <= T
  BY <1>11, TotalNat
<1>13. SpeedSum(J) = T
  <2>1. Speeds(H) = [i \in 1..n |-> Speed(J[i])]
    BY <1>5, <1>7 DEF Speeds
  <2>2. SpeedSum(J) = Total([i \in 1..n |-> Speed(J[i])])
    BY <1>3 DEF SpeedSum, TotalOf
  <2> QED  BY <1>9, <1>10, <1>12, <2>1, <2>2
<1>14. ASSUME NEW i \in 1..n PROVE ns[i] <= ns[1]
  <2>1. S[i] \in ToSet(S)
    BY <1>9, TableFacts DEF Ranking
  <2>2. busiest(S[i]) <= busiest(S[1])
    BY <1>9, <2>1 DEF Ranking
  <2>3. 1 \in 1..n
    OBVIOUS
  <2> QED  BY <1>11, <2>2, <2>3
<1>15. ASSUME NEW r \in ToSet(J)
       PROVE  \E i \in 1..n : S[i] = HostOf(r) /\ ns[i] = Speed(r)
  <2>1. HostOf(r) \in ToSet(S)
    BY <1>3, <1>5, <1>9
  <2>2. PICK i \in 1..n : S[i] = HostOf(r)
    <3>1. ToSet(S) = {S[i] : i \in 1..n}
      BY <1>9, TableFacts DEF Ranking
    <3> QED  BY <2>1, <3>1
  <2> QED  BY <1>6, <1>11, <2>2
<1>16. ASSUME NEW r \in ToSet(J), n > 1, 2 * Speed(r) > T
       PROVE  r.address \in DominantNames(found)
  <2>1. PICK i \in 1..n : S[i] = HostOf(r) /\ ns[i] = Speed(r)
    BY <1>15
  <2>2. PICK x \in Nat, y \in Nat : x = ns[i] /\ y = ns[1] /\ x <= y
    BY <1>11, <1>14, <1>16
  <2>3. 2 * x > T
    BY <1>16, <2>1, <2>2
  <2>4. i = 1
    <3>1. SUFFICES ASSUME 1 < i PROVE FALSE
      OBVIOUS
    <3>2. 1 \in 1..n
      BY <1>16
    <3>3. ns[1] + ns[i] <= T
      BY <1>12, <3>1, <3>2
    <3> QED  BY <2>2, <2>3, <3>3
  <2>5. S[1].address = r.address /\ busiest(S[1]) = x
    BY <1>6, <1>11, <1>16, <2>1, <2>2, <2>4
  <2>6. T # 0 /\ 2 * busiest(S[1]) >= T
    <3>1. x <= T
      BY <1>12, <2>2
    <3>2. T # 0 /\ 2 * x >= T
      BY <2>2, <2>3, <3>1
    <3> QED  BY <2>5, <3>2
  <2>7. S # << >> /\ Len(S) > 1
    BY <1>9, <1>16, TableFacts DEF Ranking
  <2>8. PICK f \in ToSet(found) : f.code = "capture.dominant_host"
                                  /\ f.names = {S[1].address}
    BY <1>8, <1>10, <1>12, <2>6, <2>7, HostsSaid
  <2> QED  BY <2>5, <2>8 DEF DominantNames
<1>17. ASSUME NEW a \in DominantNames(found)
       PROVE  \E r \in ToSet(J) : /\ r.address = a
                                  /\ \A q \in ToSet(J) : Speed(q) <= Speed(r)
  <2>1. PICK f \in ToSet(found) : f.code = "capture.dominant_host" /\ a \in f.names
    BY <1>17 DEF DominantNames
  <2>2. f.names = {S[1].address} /\ S # << >>
    BY <1>8, <2>1, HostsSaid
  <2>3. 1 \in 1..n
    BY <1>9, <2>2, TableFacts DEF Ranking
  <2>4. S[1] \in ToSet(S)
    BY <1>9, <2>3, TableFacts DEF Ranking
  <2>5. PICK k \in 1..n : S[1] = HostOf(J[k])
    BY <1>5, <1>9, <2>4
  <2>6. J[k] \in ToSet(J)
    BY <1>3
  <2>7. J[k].address = a /\ Speed(J[k]) = ns[1]
    BY <1>6, <1>11, <2>1, <2>2, <2>3, <2>5, <2>6
  <2>8. \A q \in ToSet(J) : Speed(q) <= Speed(J[k])
    BY <1>14, <1>15, <2>7
  <2> QED  BY <2>6, <2>7, <2>8
<1> QED  BY <1>1, <1>3, <1>13, <1>16, <1>17

(* Nothing adds up to nothing.                                             *)
LEMMA NothingCounted ==
  ASSUME NEW frames, IsTable(frames), TotalOf(frames, copies) # 0
  PROVE  ToSet(frames) # {}
<1>1. SUFFICES ASSUME ToSet(frames) = {} PROVE FALSE
  OBVIOUS
<1>2. Len(frames) = 0
  BY <1>1, TableFacts
<1>3. PICK ns : ns = [i \in 1..Len(frames) |-> copies(frames[i])]
  OBVIOUS
<1>4. Len(ns) = 0 /\ 0 \in Nat /\ \A k \in 1..0 : ns[k] \in Nat
  BY <1>2, <1>3
<1>5. Total(ns) = 0
  BY <1>4, TotalNat
<1> QED  BY <1>3, <1>5 DEF TotalOf

DataCodes == {"capture.wifi_low_rate_frames", "capture.wifi_broadcast_heavy"}

DataFrames(frames) == Where(frames, rate_is_diagnostic)

(* Without a data frame nothing is said of the channel's speed or of       *)
(* broadcasts.                                                             *)
LEMMA WirelessSaid ==
  ASSUME NEW frames, IsTable(frames), NEW found, found = analyse_wireless(frames)
  PROVE  /\ IsTable(found)
         /\ \A f \in ToSet(found) : f.code \in DataCodes =>
               \E r \in ToSet(frames) : r.frame_type = "data"
<1>1. PICK I \in SUBSET (1..Len(frames)) :
              I = {i \in 1..Len(frames) : rate_is_diagnostic(frames[i])}
  OBVIOUS
<1>2. PICK data : data = DataFrames(frames) /\ data = Rows(frames, I)
  BY <1>1 DEF DataFrames, Where
<1>3. IsTable(data) /\ ToSet(data) = {frames[i] : i \in I}
  BY <1>2, RowsOf
<1>4. ToSet(data) # {} => \E r \in ToSet(frames) : r.frame_type = "data"
  <2>1. \A i \in I : frames[i] \in ToSet(frames) /\ frames[i].frame_type = "data"
    BY <1>1, TableFacts DEF rate_is_diagnostic
  <2> QED  BY <1>3, <2>1
<1>5. PICK d : d = TotalOf(data, copies)
  OBVIOUS
<1>6. d >= 20 => ToSet(data) # {}
  <2>1. SUFFICES ASSUME ToSet(data) = {} PROVE ~(d >= 20)
    OBVIOUS
  <2>2. d = 0
    BY <1>3, <1>5, <2>1, NothingCounted
  <2> QED  BY <2>2
<1>7. PICK n : n = TotalOf(frames, copies)
  OBVIOUS
<1>8. CASE n = 0
  <2>1. found = <<Finding("capture.wireless_silent", "info", {})>>
    BY <1>7, <1>8 DEF analyse_wireless
  <2> QED  BY <2>1, ShortTables DEF Finding, DataCodes
<1>9. CASE n # 0
  <2>1. \E a, b, c, e, sa, nb, nc, kinds :
           /\ found = a \o b \o c \o Naming("capture.wifi_frame_mix", "info", kinds) \o e
           /\ \/ a = << >>
              \/ a = <<Finding("capture.wifi_crc_errors", sa, {})>>
           /\ \/ b = << >>
              \/ b = <<Finding("capture.wifi_low_rate_frames", "warning", nb)>>
                 /\ d >= 20
           /\ \/ c = << >>
              \/ c = <<Finding("capture.wifi_dominant_transmitter", "info", nc)>>
           /\ \/ e = << >>
              \/ e = <<Finding("capture.wifi_broadcast_heavy", "warning", {})>>
                 /\ d >= 20
    <3> DEFINE nn == TotalOf(frames, copies)
               dd == TotalOf(Where(frames, rate_is_diagnostic), copies)
               crc == TotalOf(Where(frames, LAMBDA f : f.crc_error), copies)
               low == Where(Where(frames, rate_is_diagnostic), LAMBDA f :
                          f.rate_mbps > 0 /\ f.rate_mbps <= LOW_RATE_MBPS)
               bcast == TotalOf(Where(Where(frames, rate_is_diagnostic), is_broadcast), copies)
               talkers == {f.src : f \in Filter(frames, LAMBDA f : f.src # 0)}
               loudest == CHOOSE t \in talkers : \A u \in talkers :
                             \/ sent_by(frames, u) < sent_by(frames, t)
                             \/ sent_by(frames, u) = sent_by(frames, t) /\ t <= u
               kinds == {f.frame_type : f \in ToSet(frames)} \ {Blank}
               sa == IF 10 * crc >= 3 * nn THEN "critical" ELSE "warning"
               nb == {f.src : f \in ToSet(low)}
               a == IF 100 * crc >= 15 * nn
                    THEN <<Finding("capture.wifi_crc_errors", sa, {})>> ELSE << >>
               b == IF dd >= MIN_DATA_FRAMES /\ 10 * TotalOf(low, copies) >= 4 * dd
                    THEN <<Finding("capture.wifi_low_rate_frames", "warning", nb)>>
                    ELSE << >>
               c == IF Cardinality(talkers) > 1 /\ 2 * sent_by(frames, loudest) >= nn
                    THEN <<Finding("capture.wifi_dominant_transmitter", "info",
                                   {loudest})>>
                    ELSE << >>
               e == IF dd >= MIN_DATA_FRAMES /\ 10 * bcast >= 3 * dd
                    THEN <<Finding("capture.wifi_broadcast_heavy", "warning", {})>>
                    ELSE << >>
    <3>1. dd = d
      BY <1>2, <1>5 DEF DataFrames
    <3>2. nn # 0
      BY <1>7, <1>9
    <3>3. found = a \o b \o c \o Naming("capture.wifi_frame_mix", "info", kinds) \o e
      BY <3>2 DEF analyse_wireless
    <3> HIDE DEF nn, dd, crc, low, bcast, talkers, loudest, kinds, sa, nb
    <3>4. a = << >> \/ a = <<Finding("capture.wifi_crc_errors", sa, {})>>
      OBVIOUS
    <3>5. \/ b = << >>
          \/ b = <<Finding("capture.wifi_low_rate_frames", "warning", nb)>> /\ d >= 20
      BY <3>1 DEF MIN_DATA_FRAMES
    <3>6. \/ c = << >>
          \/ c = <<Finding("capture.wifi_dominant_transmitter", "info", {loudest})>>
      OBVIOUS
    <3>7. \/ e = << >>
          \/ e = <<Finding("capture.wifi_broadcast_heavy", "warning", {})>> /\ d >= 20
      BY <3>1 DEF MIN_DATA_FRAMES
    <3> HIDE DEF a, b, c, e
    <3> QED  BY <3>3, <3>4, <3>5, <3>6, <3>7
  <2>2. PICK a, b, c, e, sa, nb, nc, kinds :
           /\ found = a \o b \o c \o Naming("capture.wifi_frame_mix", "info", kinds) \o e
           /\ \/ a = << >>
              \/ a = <<Finding("capture.wifi_crc_errors", sa, {})>>
           /\ \/ b = << >>
              \/ b = <<Finding("capture.wifi_low_rate_frames", "warning", nb)>>
                 /\ d >= 20
           /\ \/ c = << >>
              \/ c = <<Finding("capture.wifi_dominant_transmitter", "info", nc)>>
           /\ \/ e = << >>
              \/ e = <<Finding("capture.wifi_broadcast_heavy", "warning", {})>>
                 /\ d >= 20
    BY <2>1
  <2>3. PICK m : m = Naming("capture.wifi_frame_mix", "info", kinds)
    OBVIOUS
  <2>4. IsTable(m) /\ \A f \in ToSet(m) : f.code \notin DataCodes
    BY <2>3, NamingFacts DEF Finding, DataCodes
  <2>5. IsTable(a) /\ \A f \in ToSet(a) : f.code \notin DataCodes
    BY <2>2, ShortTables DEF Finding, DataCodes
  <2>6. IsTable(c) /\ \A f \in ToSet(c) : f.code \notin DataCodes
    BY <2>2, ShortTables DEF Finding, DataCodes
  <2>7. IsTable(b) /\ (ToSet(b) # {} => d >= 20)
    BY <2>2, ShortTables
  <2>8. IsTable(e) /\ (ToSet(e) # {} => d >= 20)
    BY <2>2, ShortTables
  <2>9. /\ IsTable(found)
        /\ ToSet(found)
             = ToSet(a) \union ToSet(b) \union ToSet(c) \union ToSet(m) \union ToSet(e)
    BY <2>2, <2>3, <2>4, <2>5, <2>6, <2>7, <2>8, PathParts
  <2> QED  BY <1>4, <1>6, <2>4, <2>5, <2>6, <2>7, <2>8, <2>9
<1> QED  BY <1>8, <1>9

(* A capture reads the hosts or the frames, never both.                    *)
LEMMA CaptureIsSound ==
  ASSUME AnswersTraced, Ended("capture")
  PROVE  CaptureGrounded
<1>1. PICK g, found : g = got /\ found = result.findings
  OBVIOUS
<1>2. found = analyse_capture(Capture(g))
  <2>1. \A t, h : t = task /\ h = got => found = Findings(t, h)
    BY <1>1 DEF AnswersTraced, Ended
  <2>2. PICK t : t = task /\ t.kind = "capture"
    BY DEF Ended
  <2>3. found = Findings(t, g)
    BY <1>1, <2>1, <2>2
  <2> QED  BY <2>2, <2>3 DEF Findings
<1>3. PICK hosts, frames : Capture(g) = [used_wireless_sniffer |-> "sniff" \in DOMAIN g,
                                         hosts |-> hosts, frames |-> frames]
                           /\ ("host" \in DOMAIN g => hosts = parse_hosts(g.host))
                           /\ ("packet" \in DOMAIN g => frames = parse_frames(g.packet))
                           /\ ("packet" \notin DOMAIN g => frames = << >>)
  BY DEF Capture, Read
<1>4. found = IF "sniff" \in DOMAIN g THEN analyse_wireless(frames)
              ELSE analyse_hosts(hosts)
  <2>1. PICK cap : /\ cap = Capture(g)
                   /\ cap.used_wireless_sniffer = ("sniff" \in DOMAIN g)
                   /\ cap.hosts = hosts /\ cap.frames = frames
    BY <1>3
  <2>2. CASE "sniff" \in DOMAIN g
    BY <1>2, <2>1, <2>2 DEF analyse_capture
  <2>3. CASE "sniff" \notin DOMAIN g
    BY <1>2, <2>1, <2>3 DEF analyse_capture
  <2> QED  BY <2>2, <2>3
<1>5. ASSUME "host" \in DOMAIN g
      PROVE  LET listed == Where(got.host, LAMBDA r : r.address # Blank)
                 speed(r) == Max({num_of(r.rate[1]), num_of(r.rate[2])})
                 named == Named("capture.dominant_host")
             IN  /\ \A r \in ToSet(listed) :
                       Len(listed) > 1 /\ 2 * speed(r) > TotalOf(listed, speed)
                       => r.address \in named
                 /\ \A a \in named : \E r \in ToSet(listed) :
                       /\ r.address = a
                       /\ \A q \in ToSet(listed) : speed(q) <= speed(r)
  <2>1. PICK rows : rows = g.host
    OBVIOUS
  <2>2. rows \in Answers.host
    BY <1>1, <1>5, <2>1 DEF AnswersTraced, Counters
  <2>3. Rated(rows)
    BY <2>2, AnswersAssumption DEF Rated
  <2>4. found = analyse_hosts(parse_hosts(rows))
    BY <1>1, <1>3, <1>4, <1>5, <2>1 DEF AnswersTraced
  <2>5. Named("capture.dominant_host") = DominantNames(found)
    BY <1>1 DEF Named, DominantNames, Filter
  <2>6. PICK J : J = Addressed(rows) /\ J = Where(got.host, LAMBDA r : r.address # Blank)
    BY <1>1, <2>1 DEF Addressed
  <2>7. /\ \A r \in ToSet(J) :
              Len(J) > 1 /\ 2 * Speed(r) > SpeedSum(J)
              => r.address \in DominantNames(found)
        /\ \A a \in DominantNames(found) : \E r \in ToSet(J) :
              /\ r.address = a
              /\ \A q \in ToSet(J) : Speed(q) <= Speed(r)
    BY <2>3, <2>4, <2>6, DominantNamed
  <2> QED  BY <2>5, <2>6, <2>7 DEF SpeedSum, Speed, TotalOf
<1>6. ASSUME "packet" \in DOMAIN g, Codes \cap DataCodes # {}
      PROVE  \E f \in ToSet(got.packet) : f.frame_type = "data"
  <2>1. PICK rows : rows = g.packet
    OBVIOUS
  <2>2. IsTable(rows)
    <3>1. rows \in Answers.packet
      BY <1>1, <1>6, <2>1 DEF AnswersTraced, Counters
    <3> QED  BY <3>1, AnswersAssumption
  <2>3. IsTable(frames) /\ ToSet(frames) \subseteq ToSet(rows)
    <3>1. PICK I : I = {i \in 1..Len(rows) : rows[i].src # 0 \/ rows[i].dst # Blank}
      OBVIOUS
    <3>2. frames = Rows(rows, I)
      BY <1>3, <1>6, <2>1, <3>1 DEF parse_frames, Where
    <3>3. ToSet(frames) = {rows[i] : i \in I} /\ IsTable(frames)
      BY <2>2, <3>1, <3>2, RowsOf
    <3> QED  BY <2>2, <3>1, <3>3, TableFacts
  <2>4. CASE "sniff" \in DOMAIN g
    <3>1. found = analyse_wireless(frames)
      BY <1>4, <2>4
    <3>2. /\ IsTable(found)
          /\ \A f \in ToSet(found) : f.code \in DataCodes =>
                \E r \in ToSet(frames) : r.frame_type = "data"
      BY <2>3, <3>1, WirelessSaid
    <3>3. \E f \in ToSet(found) : f.code \in DataCodes
      BY <1>1, <1>6, <3>2, TableFacts DEF Codes
    <3>4. \E r \in ToSet(frames) : r.frame_type = "data"
      BY <3>2, <3>3
    <3> QED  BY <1>1, <2>1, <2>3, <3>4
  <2>5. CASE "sniff" \notin DOMAIN g
    <3>1. found = analyse_hosts(hosts)
      BY <1>4, <2>5
    <3>2. IsTable(found) /\ \A f \in ToSet(found) : f.code \notin DataCodes
      BY <3>1, HostsSaid DEF DataCodes
    <3> QED  BY <1>1, <1>6, <3>2, TableFacts DEF Codes
  <2> QED  BY <2>4, <2>5
<1> QED  BY <1>1, <1>5, <1>6, Zenon DEF CaptureGrounded, DataCodes

(* Of several hosts the one that carries more than half is named, and no   *)
(* host another outdid; and a capture of nothing but frames that are slow  *)
(* or broadcast by design makes no channel look slow or stormy             *)
(* (parse_hosts, analyse_hosts, analyse_wireless).                         *)
THEOREM CaptureIsGrounded == Spec => []CaptureGrounded
<1>1. AnswersTraced => CaptureGrounded
  BY CaptureIsSound DEF CaptureGrounded
<1> QED  BY <1>1, AnswersInvariance, PTL
=============================================================================
