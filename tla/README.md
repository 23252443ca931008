# A TLA+ model of the MikroTik quality agent

The system measures the quality of network paths between small routers. An
*agent* (Rust, `src/agent`) runs in a container on each router; a *controller*
(Go, `src/server`, with a PostgreSQL/Timescale database) tells agents whom to
probe and stores what they report. Agents only ever call the controller; the
controller never calls an agent. Agents probe each other over UDP.

This directory holds TLA+ modules translated from that code, TLC configurations
that check them on small instances, and TLAPS proofs. `PROJECT.json` maps each
definition to the lines it models and lists runs, mutants, findings, hazards and
theorems. Paths below are relative to `src/`.

## 1. Inventory

### The agent

| Part | State | Operations | What is hard | What makes it correct |
|---|---|---|---|---|
| Result spool, `agent/src/spool.rs` | queue, byte count, two discard counters | `push`, `take`, `return_unsent`, `clear_dropped` | two ceilings at once, eviction in the middle of the queue, a batch that is out while its POST is awaited | bounded; ordered; every discard counted and reported; the onset of an outage kept |
| Main loop, `agent/src/agent.rs` | next poll, next heartbeat, back-off | `run`, `poll_tasks`, `heartbeat`, `execute`, `drain_spool` | every await may take arbitrarily long, every call may fail, time read before an await is used after it | no one-shot lost, duplicated or started long after its deadline; work goes on without a controller; results leave the device |
| Task plan, `agent/src/tasks/plan.rs` | FIFO of one-shots, map of recurring assignments | `accept`, `reap_expired`, `next_due`, `time_until_due`, `reconcile_recurring` | falling behind, repeated leases, cadences that change | no burst after a stall; a lease repeated is not a second run |
| Enrolment and identity, `agent/src/agent.rs`, `controller/mod.rs` | `identity.json`, identity in memory | `enrol`, `verify`, `save_identity`, `load_identity` | lost answers, crashes between registering and saving | a device comes back by itself and keeps its id |
| Probe sender, `agent/src/probe/sender.rs` | send times, samples | `run`, `accept_reply` | loss, duplication, reordering, late replies, failed sends | the run ends; only its own replies are counted |
| Probe reflector, `agent/src/probe/reflector.rs` | registry of granted sessions with a counter each | `grant`, `revoke`, `handle` | grants that come late or again, a restart | a session that is not granted is not answered |
| Statistics, `agent/src/collector/stats.rs`, `mos.rs` | none | `summarise`, `loss_stats`, `reorder_stats`, `mos` | attribution of loss to a direction from a partial view | no direction blamed for what it did not lose |
| TWAMP, `agent/src/probe/twamp.rs`, `proto/twamp.rs` | allow list, one counter for all peers | sender and reflector of RFC 5357 | as the probe session; admission by address; other senders' replies between one's own | as the probe session |
| RouterOS bandwidth test, `agent/src/routeros` | none | one REST request to the host router and the parsing of its answer | a refusal that looks like a result; either router's CPU as the bottleneck | what the CPU limited is not presented as the link's rate |
| Discovery, `agent/src/discovery` | on the router: the sniffer, the interface counters | scripts of REST requests to the host router (survey, traceroute, capture, scan), parsers, rules that turn the answers into findings | any request refused, lost after it took effect, or late; counters read twice around a sleep; tables that did not answer | one result per task; no finding its evidence does not carry; the sniffer stopped or reported |
| Configuration, command line, `agent/src/config.rs`, `cli.rs` | none | `from_source`, `from_env`, `parse`; standalone modes | each mode is parsed by two pieces of code | the same settings mean the same from either source |
| Process, `agent/src/main.rs` | responders, the loop's task, the shutdown channel | `run_managed`, `run`, `wait_for_shutdown` | signals at any moment, a listener that is made twice, tasks that die | a signal heard is obeyed, after the flush |

### The controller

| Part | State | Operations | What is hard | What makes it correct |
|---|---|---|---|---|
| Task table, `server/internal/store` | rows pending, leased or done | `CreateMeshTasks`, `CreateOneShot`, `LeaseTasks`, `ExpireLeases`, `PurgeCompletedTasks` | leases that run out while the task is still in hand, agents and controller that restart, ids derived from a counter in memory | every measurement answered; a task closed only by a result |
| Result table | one row per run | `SaveResult`, `handleResults` | repeated and partly failed submissions | no run counted twice |
| Agents and tokens | agents, credentials, enrolment tokens | `handleRegister`, `AuthenticateAgent`, operator edits | four database round trips per registration, requests that overlap | a token burned only by a registration; one holder per credential |
| Scheduler, `server/internal/scheduler/mesh.go`, `cmd/controller/main.go` | cycle counter, in memory | `runScheduler`, `PlanMesh` | reachability and direction constraints, rotation | the mesh covered over a window of cycles |
| Operator API, `server/internal/api/operator.go`, `tests.go`, `store/operator.go` | groups, memberships | queries and edits | an agent in several groups | |
| Web UI | none | reads the operator API | | |

### How they interact

* Agent to controller: `register`, `heartbeat`, `tasks` (a lease), `results`.
  Any of them may be lost before or after the controller has committed it.
* Controller to database: each `SaveResult` is a transaction of its own; a
  registration is not one.
* Scheduler to agents: two rows per pairing, one for the sender and one for the
  reflector, joined by a session id. Nothing orders the two agents' polls.
* Sender to reflector: UDP packets, numbered in each direction.
* Agent to host router: REST requests, one at a time, each with its own time
  limit, under the limit of the whole task.
* Within the agent, loop and reflector are separate tasks that share the
  registry behind a mutex; the loop itself is one task, which runs one
  measurement or one request at a time.

## 2. Modules

| Module | Models | State and actions |
|---|---|---|
| `Spool` | `spool.rs`; `enqueue`, `drain_spool` and the heartbeat of `agent.rs` | The variables are the fields of `Spool`, plus the batch of the POST in progress and what the controller has acknowledged. `Enqueue`, `Submit` (up to the POST), `SubmitOk`, `SubmitErr`, `HeartbeatOk`. The loops of `push` and `return_unsent` appear in closed form: how many entries go, and which. |
| `Delivery` | what the spool promises | an abstract specification without ceilings, batches or an eviction policy: results are produced, then delivered oldest first or discarded and counted. `Spool` instantiates it (`Promise`) and implements it. |
| `SpoolLoops` | the same two loops, round by round | the reference for the closed forms (`LoopsAgree`): recursive functions of the number of rounds |
| `AgentLoop` | `Agent::run` and the plan | `pc` is the place in the loop. An `Instant` is kept as its distance from the present, and each await shortens all distances by the time it takes. A poll may fail, or carry any one-shots, up to `LeaseLimit` of them (also one that is queued, running or was answered before: the controller leases again what it has no answer for), tasks that cannot be read (`Garbled`: dropped with a warning and no result, `agent.rs:345`), and any recurring assignments. |
| `TaskLedger`, `MCTaskLedger` | tables `tasks` and `results`, the scheduler's counter, and per agent its plan, grants and spool | one action per statement or transaction; agents poll, run and submit; answers are lost, single rows fail or are refused as invalid (`Result.Valid`: the answer is 202 all the same and the task stays as it was), agents crash, an operator deletes an agent and its rows with it, the controller restarts |
| `LeaseOrder` | `LeaseTasks` and `ExpireLeases` over the rows of one agent | what `TaskLedger` leaves open: rows are leased oldest first up to the limit, time is counted in polls, leases run out and the sweeper comes by at its own pace |
| `Enrolment`, `MCEnrolment` | `enrol`, `verify`, the identity file, `handleRegister` and the store behind it | one action per database round trip of each request; tokens expire; devices wait, give up, crash; the operator disables and deletes |
| `ProbeSession` | `sender::run`, the reflector, the TWAMP-Light sender and reflector, the UDP path, `loss_stats`, `reorder_stats` | the protocol is chosen at the start: MQP admits a request by its session and counts per session, TWAMP by its address and counts for everybody. Packets are records in two sets; the path loses (never delivers), reorders (delivers any) and duplicates; sessions are granted late or again and run again |
| `Tables` | what the programs do with rows and lists | keep the rows that pass a test (`Where`), add up a column (`TotalOf`), go through a set of numbers in order (`Nth`); used by the rules and by the mesh |
| `MeshScheduler`, `MCMeshScheduler` | `PlanMesh` and the cycles of one group in `runScheduler` | plans are sets of pairs, and agents numbers in the order of their names; the actions are a cycle, a cycle that cannot be written (the counter has moved on), a change of an agent, a restart; `granted` are the grants that are in the table, which outlive a restart and are never purged |
| `HostTools`, `MCHostTools` | `run_host_task`, the router commands of `cli.rs`, the request scripts of `discovery` and `routeros` | a script says, for each request, what follows its answer and its failure; actions are the router carrying a request out, an answer, a failure, time, the task's limit, the end of the process, and the router's interface counting on or bouncing |
| `SurveyFindings`, `PathDiagnosis`, `CaptureFindings` | parsers and rules of `collect.rs`, `findings.rs`, `tools.rs`, `capture.rs`, `btest.rs` | operators, no state; `HostTools` applies them to what was read |
| `CommandLine` | `config.rs`, the parsing half of `cli.rs` | operators: a setting is unset, blank, unreadable or a value, and may be written with spaces around it (`loose`), which the environment trims in some settings and the command line in none |
| `AgentProcess`, `MCAgentProcess` | `main.rs`, the standalone responders of `cli.rs` | the stages from the choice of a command to the exit, with responders, loop and signal listener |
| `DataLemmas`, and `SpoolProofs`, `AgentLoopProofs`, `ControllerProofs` (`TaskLedger` and `MeshScheduler`), `EnrolmentProofs`, `ProbeSessionProofs`, `HostToolsProofs`, `AgentProcessProofs` | | proofs, section 6; each extends the module it is about |

What is abstracted: a result is its identity and its size in `Spool`, its task
in `AgentLoop`, and task, session and time in `TaskLedger`. `AgentLoop` has an
unbounded spool (`outbox`): what a full one discards is the subject of `Spool`.
In `TaskLedger` and `Enrolment` time is open: a lease, a time limit or an age
may run out at any moment, so what holds there holds for all durations.
Timestamps, DSCP, packet layout and the columns of a result are left out. A
RouterOS text is what its parser can tell apart: a number is whether its head
parses and as what, a duration its number-and-unit pairs, a MAC address a device
and the case it is written in. A finding keeps its code, its severity and what it
names.

The modules meet at their interfaces: `AgentLoop` takes any lease of its tasks, in
any order and at any time, whatever it has done with them before; `TaskLedger` has the agents' loop as three actions (`Poll`,
`Execute`, `Submit`) per agent; `ProbeSession` opens up the run that `Execute`
stands for, and its repeated `Start` and `Grant` are the repeated leases of
`TaskLedger`; `HostTools` opens up the same step for the router diagnostics, whose
one result per task is what `AgentLoop` and `TaskLedger` take for granted.
`AgentProcess` has the loop as one task that runs, is told to stop, flushes, or
dies. `CommandLine` is extended by `AgentProcess`, the rules by `HostTools`.

## 3. Runs

The passing runs between them fire every action.

* **SpoolSafety.** Four entries, eight bytes, a reserve of three (the
  configuration where 95 % is cut to 90 % and the reserve is capacity less one),
  batches of three, results of one or three bytes: either ceiling may bind
  first. Nine results fill the spool more than twice over. Pushes during a POST
  are allowed, which the agent itself never does; the history variable
  `overlapped` tells the two uses apart. `Bounded`, `Ordered` and `Conserved`
  hold under both, and so does `ImplementsDelivery`; `DropsReported`, `OnsetProtected` and `ReturnIsLossless` hold
  for the agent's use. They are the reasons why the loop may not be changed to
  submit in the background without changing the spool. `ImplementsDelivery` is
  the refinement: what is in flight and what is queued are together the pending
  results of `Delivery`, a failed submission is a discard of what no longer fits
  (mostly of nothing), and the ceilings and the reserve do not show.
* **LoopSafety.** Two one-shots with or without a deadline, a grant, a task that
  cannot be read and a recurring assignment whose cadence a poll may change; a
  poll leases up to two of them, in any order, and any of them again at any time.
  A poll takes one unit, a heartbeat none or one, a task none or three, so that the
  loop falls behind by more than an interval. `owed` is what has been handed out in
  a readable form and neither executed nor reported skipped since. Distances past `Horizon` (larger than every interval)
  are not told apart; that is what makes the state space finite.
* **LoopLiveness.** Two one-shots and two recurring assignments that together
  need twice the time there is: the loop is never idle. One-shots may be leased
  again for ever. `next_due` takes them first, so that a controller that hands them
  out as fast as they are run starves every assignment: `KeepsMeasuring` says that
  once they let up the assignments fire, whatever becomes of polls, heartbeats and
  submissions.
* **LedgerSafety.** One pairing, a one-shot and a scheduler cycle, two faults
  of any kind (an invalid result and the deletion of an agent among them), one
  controller restart, six runs. A poll carries one row, so that the pairing's
  sender row and the one-shot crowd each other. Two faults are needed for a
  lost submission after a lost poll; six runs are more than two tasks can use
  with two faults, so that `MaxRuns` never stops a measurement. Two draws of
  session ids cover the cycle and the one-shot, or the cycle and its repetition
  after the restart. `NoAnswerLost` says that no task loses its only result. A
  task whose every run is refused as invalid is run again for ever (a one-shot
  probe with a DSCP of 64, say: `api/tests.go` does not look at it, the agent
  reports it, `model.go:337` refuses it); as a fault is
  bounded, `EveryProbeAnswered` is about all others. It asks for a run of the
  row's own session: after a restart an agent may still hold the task from before.
* **EnrolSafety.** Two devices of one group that were given one name, with a
  token each, which may expire at any moment, four requests, two faults.
* **ProbeSafety.** Either protocol, three packets, two grants, and one of a second run or a
  duplicated packet. Three is the least number for which a displacement of two
  and a loss before, between and after arrivals are possible.
* **MeshSafety.** Four agents, each with any mixture of offline, unreachable and
  reflector-only, under every plan and fanouts of one and two, four cycles, and a
  change, a failed write or a restart at any of them. Four agents are the least
  number at which twice a fanout of one is less than everybody. `PlanSound` has
  three parts: every member, and every pair the plan asked for, is measured one
  way round or declared as left out (`GapsDeclared`), with the constraint
  that stands in the way (`ReasonIsBinding`), and nobody sends more than twice
  its fanout (`LoadBounded`). A restart sets the counter back while the grants of
  the old numbers stay in the table for good and the finished sender rows for a
  day: a cycle whose number has been used for one of its pairs finds those rows
  (`ON CONFLICT DO NOTHING`) and measures nothing new of it. Such a cycle
  (`Repeated`) is no part of the window `CoverageWindow` speaks of, so that after
  a restart nothing is promised until the counter has passed its old values. An agent
  that is not usable is planned for by nobody; its other settings are fixed.
* **HostSafety.** Each kind of task, from the agent and from the command line,
  with and without a router, with good and bad arguments. Every request may fail
  before or after the router acted. A tick is a minute: `TASK_TIMEOUT` is two
  ticks, so that the limit can strike in any request and during a capture. For
  each table there are a few answers chosen so that each rule fires on some and
  not on others, with rows that do not parse among them; traceroutes are all
  pairs of hops before two targets, captures all sequences of up to three rows.
  Counters move in steps on either side of the storm's threshold up to
  `MaxCount`, which lets one storm and one bounce happen between two readings.
  A bandwidth test's status is the set of the words the agent looks for in it.
  A client always says how long it has been quiet: one whose row does not (read
  as heard just now), and the legacy `last-ip` that is read in its place
  (`collect.rs:251`), are left out. This and LoopSafety are the largest runs, with
  two million states each.
* **ProcessSafety.** The managed agent and each standalone mode, started with good
  settings and with each setting the mode reads in turn unset, blank, unreadable
  and, where the environment trims it, loosely written; each sub-command with good,
  missing and unreadable arguments; signals of both kinds at any moment, a loop that
  dies, a TWAMP port that is taken. `SameCommand` writes the settings of a
  standalone mode out as arguments, the probe port as the port of a peer that has
  none, and compares the two commands in every field. Once bound, the MQP responder
  cannot die in the model.

Three runs show disagreements between the code and what its comments and docs say.
Each is short, and the passing runs say what does hold instead.

* **LeaseStarved.** "Agents lease paired sender/reflector tasks, run them, and
  results land": an agent never reports on a grant, so that grant rows are never
  done and never purged; each comes back to the pool when its lease is out, with
  its old `scheduled_for`, ahead of all newer rows. Write *L* for the limit (16)
  and *P* for the polls in a lease (60 at the default poll of 10 s, fewer when
  the loop is busy). A poll hands out at most *L* rows, so that with *L x P*
  grants every poll is filled by grants whose leases have just run out, and
  nothing newer, one-shots included, is ever leased again. The run has the least
  such case, one row a poll and two polls a lease. That the sweeper
  comes only every minute moves the threshold a little (66 polls at most). An agent
  that answers five peers at the default interval of 300 s gets there within a
  day. `EveryProbeAnswered` and `SendersPurged` have the other case as their
  premise, that no more rows wait for the agent than a poll carries (`Uncrowded`).
* **EnrolStranded.** "Retries indefinitely": an answer lost after the token was
  burned is not recovered from.
* **ProbeBlame.** `unknown_direction` is "counted separately rather than guessed
  at": the loss of the last replies is reported as forward loss.

Other disagreements were seen while reading and follow from a single line, so
that no run is spent on them:

* `store.go:415` and `docs/api.md:223` call a submission idempotent on `task_id`.
  The insert conflicts on task and time: a lease that runs out before the result
  arrives makes a second run and a second row. `NoDoubleCount` is what holds: one
  *run* is never stored twice.
* `schedule.go:72` says that a pairing becomes two rows sharing a session id.
  After a restart the cycle counter (`main.go:175`, in memory) starts over. Where
  both rows of a number are still there nothing is written and nothing new is
  measured; a purged sender row is written again, with a new session, beside the
  old grant, so that the reflector, which holds the old session, drops its packets
  as unknown: the misread loss `schedule.go:69` means to exclude.
* `tools.rs:217` speaks of the "first hop where this loss appears and stays", and
  the finding (`tools.rs:232`) of loss "persisting to the destination". The code
  takes the first hop that loses: of 5, 0 and 5 percent it names the first, whose
  loss does not stay. `PathSound` says what holds: the named hop is the first that
  loses, and loss lasts from it on when none before the lasting part loses.
* `agent.rs:345` drops a leased task whose parameters cannot be read, with a
  warning and no result, and `handleResults` answers 202 for a result it refuses as
  invalid (`api.go:219`). Either task is leased and tried again until somebody
  deletes it.
* `store.go:185` says that "a token for one group must not be able to seize a name
  in another". The check and the upsert are separate statements, and the upsert
  takes over a row that another registration has written in between.
* `agent.rs:271` says a one-shot is "never run late". The reap is before a poll
  and a heartbeat, the pick after them. `LatenessBounded` gives the exact bound.
* `schema.sql:111` says that plan work is "cached by the agent and keeps running
  through a controller outage". `LeaseTasks` does not return `recurring`, the
  agent reads false, and a mesh task runs once per lease (`Dto`).
* `mesh.go:82` says of the partial plan that no agent exceeds its fanout. A pair
  that is turned round counts for the other agent; `LoadBounded` has the bound.
* `docs/api.md:206` says that an expired test is never run late. `LeaseTasks`
  (`store.go:308`) neither reads `expires_at` nor returns it.
* `schedule.go:187` says that without the purge the table grows without bound. A
  reflector row never becomes done and is never purged (`SendersPurged` is about
  sender rows).
* `docs/api.md:7` calls a token single-use. Redeeming reads it and burning is a
  later statement whose failure is only logged, so that two overlapping requests
  may both succeed. `BurnedByAgent` is the converse, and holds.
* A duplicated reply makes `received` exceed `sent`, and `Result.Valid`
  (`model.go:304`) then rejects the report. `RejectedOnlyForDuplicates` shows
  that there is no other way to get there.
* The discard count that results and heartbeats carry is decoded by no handler.
* `docs/api.md:222` says that the agent "spools to disk"; the spool is in memory
  (`CrashAgent` loses it).
* `docs/protocol.md:135` says that a session is retired; nothing calls `revoke`.
* `proto/twamp.rs:351` says that a turnaround longer than the round trip is
  ignored; the subtraction saturates, and the round trip becomes zero.
* A packet capture whose start is answered too late, that runs into
  `TASK_TIMEOUT`, or whose process ends, leaves the router's sniffer running.
  `SnifferAccounted` is about the captures that are reported as good.
* A host or packet table that could not be read leaves a good report without
  findings and without a note.
* `parse_uptime` (`collect.rs:370`) reads "20ms" as twenty minutes, so that a
  client heard a moment ago counts as idle; the error is on the safe side of
  `SurveyGrounded`.
* The TWAMP capability is advertised from the configuration (`agent.rs:174`), also
  when the port could not be had.
* The standalone responders listen for Ctrl-C only; SIGTERM, which a container
  runtime sends, ends them at once or, for the first process of a container, not
  at all. In the managed agent a signal that comes between the two listeners, or
  at the moment enrolment ends, is lost; `HeardIsObeyed` is about the others.
* A loop that panics is noticed only when a signal comes: the process goes on
  answering peers and measures nothing (`LoopDies`).
* `MQ_ROUTEROS_PORT` is read and not used by the REST client. A blank
  `MQ_PROBE_PORT` or `MQ_TWAMP_PORT` is taken as unset by the managed agent and
  refused in the standalone modes. The environment trims the session, the DSCP, the
  peer, ports and addresses of lists, and takes a blank optional setting as unset;
  the command line does neither. So `SameCommand` has two parts: what the command
  line takes the environment takes for the same, always; what it refuses the
  environment refuses, for settings neither blank nor loosely written.
* A probe's default peer port is `MQ_PROBE_PORT` in the environment (`cli.rs:302`)
  and 5301 on the command line (`cli.rs:407`), where `--port` is not looked at.
  `SameCommand` compares with the port written after the peer.
* `print_report` of `cli.rs` subtracts received from sent packets, which duplicates
  make negative. `parse_scan` is called by tests only.

## 4. Liveness and fairness

* `AgentLoop`: weak fairness of the loop as a whole. It is one task whose awaits
  all have a time limit. That the controller is reachable again and again is an
  assumption on the environment: it is the hypothesis of `ResultsDelivered`
  (strong fairness of a successful submission, since the loop keeps coming to
  that point and leaving it). `OneShotsAnswered` assumes nothing about the
  controller. `KeepsMeasuring` has the premise `<>[](oneshot = << >>)`: `next_due`
  runs one-shots first, so that leases without end keep assignments waiting.
* `TaskLedger`: weak fairness, per sender task, of being polled while no more rows
  wait for its agent than a poll carries, and of being run, swept and purged; per
  agent of a successful submission. The agent's loop and the controller's two
  tickers justify this once faults stop, and faults are bounded. The code leases
  the oldest rows first up to a limit, so that a row of a crowded agent has no such
  claim (`LeaseStarved`): that an agent is `Uncrowded` from some time on is the
  premise of both liveness properties.
* `LeaseOrder`: weak fairness of polling, of the sweep, of time and of the report
  on each measurement. A report is made before its lease is out, so that what is
  starved is starved by the order alone.
* `Enrolment`: weak fairness of each device and each request being served.
* `ProbeSession`: weak fairness of the ticker and of the end of the linger time.
* `AgentProcess`: weak fairness of obeying a heard signal, of the loop's stop, of
  the responders' and of the exit: the runtime polls every task that can go on,
  and each step of the loop ends by its own time limit. None of a signal coming,
  of enrolment ending or of the loop dying.

Deadlock is checked in all runs: `AgentLoop`, `ProbeSession`, `AgentProcess`
(`Over`) and `MeshScheduler` (at its bound on cycles) end in explicit
final states, an idle `HostTools` takes up the next task, `Enrolment` idles when its devices run or its bound on requests is
reached, and in `TaskLedger` an agent may always poll.

## 5. Mutants

Each property has a mutant of a mapped definition: a plausible slip at that
place in the code (`Evict_Oldest`: a plain ring buffer; `Rescheduled_CatchUp`:
repay missed cycles; `Stored_Never`: insert without looking; `Start_SamePort`:
a fixed source port), defined just before the definition it replaces.

## 6. Proofs

Each proof module extends the module it is about and has the same shape: an
inductive invariant, that `Init` satisfies it, that every action keeps it (one
step per action), and the theorems that follow. The bounds of the runs
(`MaxRuns`, `MaxTrouble`, `MaxRequests`, `MaxCount`, `Horizon`...) are constants
like any other, so that the theorems hold whatever they are.

**`SpoolProofs`**, for every configuration, batch size and set of result sizes
(`SpoolAssumption` only asks for natural numbers, a batch of at least one and
results that are not empty):

* `Invariance`: the inductive invariant `IInv` holds. `TypeOK`, `Bounded`,
  `Ordered` and `Conserved` are not inductive by themselves: that a returned
  batch fits depends on its having been in the spool together with what is still
  there. So `IInv` adds `BatchFits` (a batch alone is within the ceilings),
  `HeldFits` (without overlap, batch and queue together are) and `ToldCurrent`
  (without overlap, a POST carries the present counter).
* `TypeCorrect`, `SpoolIsBounded`, `DeliveryInOrder`, `NothingUncounted`,
  `EveryDropReported`: the invariants the run checks, from `IInv`.
* `FailedSubmissionIsLossless`: the action property `ReturnIsLossless`, from
  `HeldFits`: when everything held fits, `Kept` is the whole queue.
* `OnsetIsProtected`: the action property `OnsetProtected`. A push evicts at the
  reserve and not before it, and a batch that is returned whole is again the
  prefix it was.
* `SpoolImplementsDelivery`: `Spool` implements `Delivery`. The mapping joins the
  batch in flight and the queue into the pending results; `Enqueue` is a
  production with the discards it causes, `SubmitOk` a delivery of the oldest,
  `SubmitErr` a discard of what no longer fits (with `HeldFits`, of nothing), the
  heartbeat a report, and `Submit` changes nothing `Delivery` sees. It needs
  `DropsBounded`, that no more is reported than was discarded.

* `ClosedFormsAreTheLoops`: `LoopsAgree`. The loop of `push` is at the closed form
  for *i* evictions after *i* rounds, up to the last, and stays there. The loop of
  `return_unsent` is always at some *j* items left to return and *k* entries of the
  queue kept (`Ready`): *k* never falls below `Kept`, since a larger part of what
  will fit in the end fits, so that no round discards a returned item; and when
  *j* is zero everything fits, so that *k* is no more than `Kept` either.

The sizes of sequences are sums, defined by a recursive function. `DataLemmas`
shows that a non-empty set of naturals has a least member and a bounded one a
greatest, which the closed forms (`Evictions`, `Kept`) use; what the sums of a
prefix, a suffix and a concatenation are is proved from it, by taking the least
length at which the claim would fail. All facts below about loops (`Reaped`,
`Accepted`, `Water`, `busiest_first`) and columns (`Total`) are proved in that way: first that the recursive function
exists, then what it computes.

**`AgentLoopProofs`**, for all intervals, durations, delays, leases and plans:

* `NoBurstEver`: of three firings of one assignment in a row, the first and the
  last are at least an interval apart. The property is not inductive, as it only
  speaks of the moment of a firing. `CadenceInv` adds what holds in between: an
  assignment is due no earlier than its last firing, and no earlier than one
  interval past the firing before that. Time that passes shifts both sides
  alike; `accept` does not touch due times; `next_due` re-establishes both parts
  in each of its branches.
* `OneShotsAreAccounted`: `OneShotAccounted`, that what was handed out and neither
  executed nor reported as skipped since is in the queue, once, or running, for
  every order of leases, a task leased again while it is queued, running or
  answered included. `QueueInv` adds that a task runs only between its pick and the
  drain after it and is not queued while it is executed (`RunsInPlace`).
  `ReapFacts` and `AcceptFacts` say what `reap_expired` and a whole lease do to the
  queue: what is kept, what is added, and that no task is in it twice. What cannot
  be read is owed nothing: it is dropped.
* `LatenessIsBounded`: `LatenessBounded`, by `LatenessInv`: what the reap leaves
  is not overdue, after the poll it is overdue by less than the longest poll,
  after the heartbeat by less than both. It has one hypothesis, that a poll may
  take time at all (`Max(PollTimes) > 0`). Without it a one-shot leased with an
  `expires_in` of zero is due at once and may start exactly a heartbeat late,
  which is not less than the bound.

`LoopAssumption` says that the three kinds of tasks have different identities and
that there is a longest poll and a longest heartbeat (every request has a time
limit).

**`ControllerProofs`**, the task and result tables: `RunsCountedOnce` and `NoTaskLosesItsAnswer`, for all sets
of agents, pairings and one-shots. `HeldIsKnown` is the strengthening: whatever an
agent still holds, in its plan or its spool, has its row, was answered before or
refers to an agent that was deleted, as only finished rows are purged and only a
deletion takes others along. Without it nothing says why a run that is
refused for an unknown task is no loss.

**`ControllerProofs`**, the mesh scheduler, for every group, every set of settings
and any number of cycles and events:

* `PlansAreSound`: `PlanSound` holds of every plan. `Positions` lines the usable
  agents up (`Nth` is a bijection from positions to agents), `Neighbours` says where
  an offset leads, `Planned` that each plan pairs usable agents and leaves none of
  them out. For `LoadBounded` the pairs an agent sends are the images of its own
  offsets and of those that reach it, `Fanout` of each, and an image is no larger
  than what it is the image of.
* `RotationCovers`: `CoverageWindow`. It is not inductive: that the last cycles
  together reach every peer says nothing about what one cycle fewer has reached.
  `Window`, the strengthening, says what each cycle of the window has added:
  the pairs of the offsets from *c x Fanout* up to *(c + 1) x Fanout*, taken modulo
  *n - 1*. The cycles of the window follow each other without a gap, so that once
  there are *n - 1* offsets in a row each remainder is among them
  (`EachRemainder`, `InSomeRound`), and with it each peer (`WindowCovers`). A failed
  cycle, a change, a restart or a cycle that finds grants of its number
  (`Repeated`) empties the window.

`MeshAssumption` asks for a finite group of numbered members and hubs among them.
The fanout may be any integer, as in the settings.

**`EnrolmentProofs`**: `TokenBurnedByAgent`, `CredentialHasOneHolder` and the action
property `HistoryStaysAttached`, for all devices, names and tokens, shared or
not, expired at any moment or never. The argument goes through the requests: an agent's id is the number of the
request that created its row, so that it determines the name (`IdsByName`); an
identity in a device's hands answers a request of that device (`OwnAnswers`); and
a handler marks a token only after it wrote (`MarkAfterWrite`). Two devices with
one working id would hold one row's one credential, that is, one request's.

**`ProbeSessionProofs`**, for every number of packets, grants and repetitions:

* `Counted`: without duplication, the replies made and the requests under way are
  together no more than the packets sent, and the answers accepted and the replies
  under way no more than the replies made. It gives `RejectionNeedsDuplicates`.
* `Numbered` and `GrantedOnce`: in a first run the numbers that come back are below
  the count of replies made, and the reflector's counter is that count while it
  was granted once. `ReverseIsBlamedJustly` and `AttributionIsExact` follow.
* `ReorderingIsRfc4737` is about the algorithm: the collector's walk with a
  high-water mark computes, for every sequence of arrivals, the number of packets
  that RFC 4737 calls reordered and the largest distance.

**`HostToolsProofs`**, for every set of tasks and whatever the router may answer:

* `EveryTaskHasOneResult`: by `InScript`, that a task is at a stage of its own
  script, and owes its one result, until it leaves one.
* `SnifferIsAccountedFor`: by `SnifferTraced`, which follows the sniffer from the
  answer to its start along the only way there is to a good report.
* `BtestHidesNothing`: a good report is what `parse_btest` makes of the answer.
* `StormRatesAreEarned`: between the readings the counters grow by no more than
  what arrives (`CountersTraced`), because the subtraction saturates when a bounce
  resets them; so a rate at the storm's threshold was earned. `NoStormIsFalse` adds
  that the rule reports no storm without such a rate.
* `SurveyIsGrounded`, `PathIsGrounded`, `CaptureIsGrounded`: by `AnswersTraced`, that
  what has been read at a stage is one of the answers there are for it, that two
  kinds of capture are never mixed, and that a good result is what the rules make of
  what has been read. Then each rule says only what the rows bear out, as far as its
  property goes: `PathIsGrounded` promises the latency step only where nothing behind
  its far end undercuts it, and of loss the first hop that loses. What `Where`
  keeps and in which order, what a column adds up to, and that a total outweighs
  each of its parts are lemmas of `DataLemmas`, for tables of any length; that `busiest_first` puts in front a host none outdoes, and
  loses none, is proved along its insertions.

`HostAssumption` lists what the parsers deliver: the kinds of tasks, the fields of
an interface row with natural numbers as counters, and loads that are natural.
`AnswersAssumption` does so for the tables of the other requests: they are
sequences; losses, times, rates and addresses of pools that parse are natural
numbers; and how long a client has been quiet is what its `last_activity` spells in
RouterOS's units.

**`AgentProcessProofs`**: `PeersAreServedAndFlushed`, for all orders of signals,
panics and failures, by `PhasesInOrder` and `ReflectorUp` (what is bound and
running in each phase), and `StandaloneMeansTheSame`, for every environment: that
the environment takes what the command line takes for the same command, and, for
settings neither blank nor loosely written, refuses what it refuses. The proof goes
setting by setting: each pair of readings agrees where the stricter one accepts.
`ReadingAssumption`: unset, blank and unreadable are told apart.
`ProcessAssumption`: an unset or unreadable setting is not one of the words of the
command line, and an environment says of each setting what it is.

Checked by TLC only:

* all liveness (`OneShotsAnswered`, `KeepsMeasuring`, `ResultsDelivered`,
  `EveryProbeAnswered`, `SendersPurged`, `Resumes`, `RunEnds`, `HeardIsObeyed`): the
  prover has no rule for fairness.

Every invariant and every action property of a passing run is stated by a theorem.

## 7. Not modelled

* Timestamps and what is computed from them: round trips, jitter, percentiles, the
  E-model (arithmetic on reals), the error estimate and turnaround of TWAMP.
* Byte layouts of both protocols, DSCP, authentication headers, TLS.
* The operator's inventory: groups, memberships and queries. Disabling and
  deleting an agent are in `Enrolment`, what goes with a deleted agent and
  one-shots in `TaskLedger`.
* The web UI and the printed reports of the command line, which keep no state.
* The deployment script, which repackages an image offline.

## 8. Plan

Done: spool and its delivery promise, loop and plan, ledger and lease order,
enrolment, probe session in both protocols, mesh, router diagnostics with their
findings, configuration and process. Proved: the invariants and action properties
of all passing runs, and the refinement of the delivery promise.

What is left:

1. The operator's inventory: an agent in several groups, edits while a cycle is
   planned.
2. A refinement between `TaskLedger` and `LeaseOrder`, which share the rows of one
   agent but neither time nor order.
