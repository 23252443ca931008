----------------------------- MODULE AgentLoop ------------------------------
(***************************************************************************)
(* The agent's main loop (agent/src/agent.rs, Agent::run) and the plan it  *)
(* works from (agent/src/tasks/plan.rs).                                   *)
(*                                                                         *)
(* Every await of the loop is a step that may take time.  All scheduling   *)
(* in the code compares Instants with the present, so an Instant is kept   *)
(* here as its distance from the present (negative once it has passed) and *)
(* time passes by shrinking every distance.  Distances further in the past *)
(* than Horizon are not told apart.                                        *)
(*                                                                         *)
(* The controller appears through what its answers may be: a poll fails,   *)
(* or hands out any one-shots -- new, still queued, already run, already   *)
(* answered, or such that the agent cannot read them -- and any set of     *)
(* recurring assignments.                                                  *)
(***************************************************************************)
EXTENDS Integers, Sequences, FiniteSetsExt, SequencesExt

CONSTANTS
    OneShots,       \* one-shot tasks that produce a result
    Grants,         \* one-shot reflector grants: run, but report nothing
    Garbled,        \* one-shots TaskDto::into_plan makes nothing of
    Recurring,      \* identities of recurring assignments
    Intervals,      \* cadences a recurring assignment may carry
    Expiries,       \* expires_in of a one-shot
    NoDeadline,     \* a one-shot that carries no expires_in
    Nobody,         \* no task is running
    PollTimes, BeatTimes, TaskTimes, DrainTimes,  \* how long an await takes
    RetryDelays,    \* what Backoff::next_delay may return
    PollInterval, HeartbeatInterval, MaxSleep,
    LeaseLimit,     \* one-shots a poll may carry
    Horizon         \* bound: how far past an Instant is remembered

Tasks == OneShots \union Grants

ASSUME LoopAssumption ==
    /\ Intervals \subseteq Nat \ {0} /\ Expiries \subseteq Nat
    /\ NoDeadline \notin Int
    /\ PollTimes \union BeatTimes \union TaskTimes \union DrainTimes
         \union RetryDelays \subseteq Nat
    /\ PollInterval \in Nat \ {0} /\ HeartbeatInterval \in Nat \ {0}
    /\ MaxSleep \in Nat \ {0} /\ LeaseLimit \in Nat
    /\ Horizon \in Nat /\ \A i \in Intervals : i < Horizon
    /\ Nobody \notin Tasks \union Recurring
    /\ OneShots \cap Grants = {} /\ Tasks \cap Recurring = {}
    /\ Garbled \cap Tasks = {}
    /\ \E m \in PollTimes : \A d \in PollTimes : d <= m
    /\ \E m \in BeatTimes : \A d \in BeatTimes : d <= m

VARIABLES
    pc,          \* where the loop is
    since,       \* time since the loop read `now` at its top
    oneshot,     \* Plan.oneshot: <<task, time left to its deadline>>, FIFO
    recurring,   \* Plan.recurring: assignment -> interval, time to due_at
    nextPoll,    \* time to next_poll
    nextBeat,    \* time to next_heartbeat
    running,     \* the task being executed
    late,        \* how far past its deadline it was when it was picked
    outbox,      \* tasks with a result in the spool
    shutdown,    \* the shutdown signal
    \* History of the one-shots: those handed out in a form the agent reads
    \* and since then neither executed nor reported skipped.
    owed,
    \* History of the cadence: time since the last firing, since the one
    \* before it, and the interval in force at the last firing.
    gap, older, pace

plan == <<oneshot, recurring>>
timers == <<nextPoll, nextBeat>>
cadence == <<gap, older, pace>>
vars == <<pc, since, oneshot, recurring, nextPoll, nextBeat, running, late,
          outbox, shutdown, owed, gap, older, pace>>

-----------------------------------------------------------------------------
(* Time.                                                                   *)
Sooner(t, d) == IF t - d < -Horizon THEN -Horizon ELSE t - d
Longer(t, d) == IF t + d > Horizon THEN Horizon ELSE t + d

AgedShots(d) ==
    [i \in 1..Len(oneshot) |->
        [oneshot[i] EXCEPT !.left =
            IF @ = NoDeadline THEN @ ELSE Sooner(@, d)]]
AgedRecurring(d) ==
    [t \in DOMAIN recurring |-> [recurring[t] EXCEPT !.wait = Sooner(@, d)]]
(* The firing history of an assignment lasts while it stays in the plan.   *)
AgeCadence(d) ==
    /\ gap' = [t \in Recurring |->
                  IF t \in DOMAIN recurring' THEN Longer(gap[t], d) ELSE Horizon]
    /\ older' = [t \in Recurring |->
                  IF t \in DOMAIN recurring' THEN Longer(older[t], d) ELSE Horizon]
    /\ pace' = pace

Elapse(d) ==
    /\ oneshot' = AgedShots(d) /\ recurring' = AgedRecurring(d)
    /\ nextPoll' = Sooner(nextPoll, d) /\ nextBeat' = Sooner(nextBeat, d)
    /\ AgeCadence(d)

-----------------------------------------------------------------------------
Init ==
    /\ pc = "top" /\ since = 0
    /\ oneshot = << >> /\ recurring = << >>
    /\ nextPoll = 0 /\ nextBeat = 0
    /\ running = Nobody /\ late = 0
    /\ outbox = {} /\ owed = {}
    /\ shutdown = FALSE
    /\ gap = [t \in Recurring |-> Horizon]
    /\ older = [t \in Recurring |-> Horizon]
    /\ pace = [t \in Recurring |-> 0]

(* The signal handler sets the watch channel; the loop looks at it later.  *)
Shutdown ==
    /\ ~shutdown /\ shutdown' = TRUE
    /\ UNCHANGED <<pc, since, plan, timers, running, late, outbox, owed,
                   cadence>>

(* Plan::reap_expired at the top of the loop, and the skipped results.     *)
Expired(s) == s.left # NoDeadline /\ s.left <= 0

(* Reaped(q)[n] is what is retained of the first n.                        *)
Reaped(q) ==
    LET f[n \in 0..Len(q)] ==
          IF n = 0 THEN << >>
          ELSE IF Expired(q[n]) THEN f[n - 1] ELSE Append(f[n - 1], q[n])
    IN  f

reap_expired(q) == Reaped(q)[Len(q)]

(* Mutation: the queue is not reaped.                                      *)
Top_NoReap ==
    /\ pc = "top" /\ ~shutdown
    /\ since' = 0 /\ pc' = "poll"
    /\ UNCHANGED <<plan, timers, running, late, outbox, owed, shutdown,
                   cadence>>

(* Mutation: expired one-shots are dropped without a skipped result.       *)
Top_Silent ==
    /\ pc = "top" /\ ~shutdown
    /\ oneshot' = reap_expired(oneshot)
    /\ since' = 0 /\ pc' = "poll"
    /\ UNCHANGED <<recurring, timers, running, late, outbox, owed,
                   shutdown, cadence>>

Top ==
    /\ pc = "top" /\ ~shutdown
    /\ oneshot' = reap_expired(oneshot)
    /\ LET skipped == {s.task : s \in {x \in ToSet(oneshot) : Expired(x)}}
       IN  outbox' = outbox \union skipped /\ owed' = owed \ skipped
    /\ since' = 0
    /\ pc' = "poll"
    /\ UNCHANGED <<recurring, timers, running, late, shutdown, cadence>>

StopAtTop ==
    /\ pc = "top" /\ shutdown
    /\ pc' = "flush"
    /\ UNCHANGED <<since, plan, timers, running, late, outbox, owed,
                   shutdown, cadence>>

-----------------------------------------------------------------------------
(* poll_tasks.  A task that cannot be read is warned about and dropped, no *)
(* result saying so.  Plan::accept ignores a one-shot that is still queued *)
(* -- and only that one: one that has been executed is run once more -- and *)
(* refreshes a recurring assignment without touching its due time; a poll  *)
(* that carries recurring work withdraws what it does not name, and so an  *)
(* assignment that has become unreadable.                                  *)
(* Mutation: a repeated lease is a second run.                             *)
AcceptShot_NoDedupe(q, s) == IF s.task \in Garbled THEN q ELSE Append(q, s)

AcceptShot(q, s) ==
    IF s.task \in Garbled \/ \E i \in 1..Len(q) : q[i].task = s.task
    THEN q ELSE Append(q, s)

(* Accepted(q, lease)[n] is the queue after the first n of the lease.      *)
Accepted(q, lease) ==
    LET f[n \in 0..Len(lease)] ==
          IF n = 0 THEN q ELSE AcceptShot(f[n - 1], lease[n])
    IN  f

AcceptRecurring(r, new) ==
    [t \in DOMAIN new |->
        [interval |-> new[t], wait |-> IF t \in DOMAIN r THEN r[t].wait ELSE 0]]

Reconcile(r, new) == IF DOMAIN new = {} THEN r ELSE AcceptRecurring(r, new)

Queued == {oneshot[i].task : i \in 1..Len(oneshot)}

(* What a successful poll may carry: any one-shots, whatever became of     *)
(* them when they were leased before (the controller leases a task again   *)
(* when its lease runs out before a result), and recurring assignments     *)
(* with their cadence.                                                     *)
Shots == [task : Tasks \union Garbled, left : Expiries \union {NoDeadline}]
Leases == SeqOf(Shots, LeaseLimit)
Assignments == UNION {[S -> Intervals] : S \in SUBSET Recurring}

(* `now >= next_poll`, with the `now` read at the top of the loop.         *)
PollDue == nextPoll + since <= 0
BeatDue == nextBeat + since <= 0

PollOk(lease, assigned, d) ==
    /\ pc = "poll" /\ PollDue
    /\ oneshot' = Accepted(AgedShots(d), lease)[Len(lease)]
    /\ recurring' = Reconcile(AgedRecurring(d), assigned)
    /\ AgeCadence(d)
    /\ owed' = owed \union ({lease[i].task : i \in 1..Len(lease)} \ Garbled)
    /\ nextPoll' = PollInterval - (since + d)
    /\ nextBeat' = Sooner(nextBeat, d)
    /\ since' = since + d
    /\ pc' = "beat"
    /\ UNCHANGED <<running, late, outbox, shutdown>>

(* A failed poll leaves the plan alone and backs off.                      *)
PollErr(delay, d) ==
    /\ pc = "poll" /\ PollDue
    /\ oneshot' = AgedShots(d) /\ recurring' = AgedRecurring(d)
    /\ AgeCadence(d)
    /\ nextPoll' = delay - (since + d)
    /\ nextBeat' = Sooner(nextBeat, d)
    /\ since' = since + d
    /\ pc' = "beat"
    /\ UNCHANGED <<running, late, outbox, owed, shutdown>>

SkipPoll ==
    /\ pc = "poll" /\ ~PollDue
    /\ pc' = "beat"
    /\ UNCHANGED <<since, plan, timers, running, late, outbox, owed,
                   shutdown, cadence>>

(* heartbeat: whether it succeeds matters only to the spool's counter.     *)
Heartbeat(d) ==
    /\ pc = "beat" /\ BeatDue
    /\ oneshot' = AgedShots(d) /\ recurring' = AgedRecurring(d)
    /\ AgeCadence(d)
    /\ nextPoll' = Sooner(nextPoll, d)
    /\ nextBeat' = HeartbeatInterval - (since + d)
    /\ since' = 0
    /\ pc' = "pick"
    /\ UNCHANGED <<running, late, outbox, owed, shutdown>>

SkipHeartbeat ==
    /\ pc = "beat" /\ ~BeatDue
    /\ pc' = "pick" /\ since' = 0
    /\ UNCHANGED <<plan, timers, running, late, outbox, owed, shutdown,
                   cadence>>

-----------------------------------------------------------------------------
(* Plan::next_due: the oldest one-shot first, whatever its deadline.       *)
PickOneShot ==
    /\ pc = "pick" /\ oneshot # << >>
    /\ running' = Head(oneshot).task
    /\ late' = IF Head(oneshot).left = NoDeadline THEN 0
               ELSE Max({0, -Head(oneshot).left})
    /\ oneshot' = Tail(oneshot)
    /\ pc' = "exec"
    /\ UNCHANGED <<since, recurring, timers, outbox, owed, shutdown, cadence>>

(* Mutation: any assignment that is due is taken.                          *)
MostOverdue_AnyDue(t) == t \in DOMAIN recurring /\ recurring[t].wait <= 0

(* Else the most overdue assignment that is due, rescheduled from its due  *)
(* time, or from the present when it is more than an interval behind.      *)
MostOverdue(t) ==
    /\ t \in DOMAIN recurring /\ recurring[t].wait <= 0
    /\ \A u \in DOMAIN recurring : recurring[t].wait <= recurring[u].wait

(* Mutation: every missed cycle is caught up with.                         *)
Rescheduled_CatchUp(r) == r.wait + r.interval

Rescheduled(r) ==
    IF -r.wait > r.interval THEN r.interval ELSE r.wait + r.interval

PickRecurring(t) ==
    /\ pc = "pick" /\ oneshot = << >> /\ MostOverdue(t)
    /\ recurring' = [recurring EXCEPT ![t].wait = Rescheduled(recurring[t])]
    /\ running' = t /\ late' = 0
    /\ older' = [older EXCEPT ![t] = gap[t]]
    /\ gap' = [gap EXCEPT ![t] = 0]
    /\ pace' = [pace EXCEPT ![t] = recurring[t].interval]
    /\ pc' = "exec"
    /\ UNCHANGED <<since, oneshot, timers, outbox, owed, shutdown>>

PickNothing ==
    /\ pc = "pick" /\ oneshot = << >>
    /\ \A t \in DOMAIN recurring : recurring[t].wait > 0
    /\ pc' = "drain"
    /\ UNCHANGED <<since, plan, timers, running, late, outbox, owed,
                   shutdown, cadence>>

(* Mutation: results are submitted only when the loop is idle.             *)
Execute_DrainWhenIdle(d) ==
    /\ pc = "exec"
    /\ Elapse(d)
    /\ outbox' = IF running \in Grants THEN outbox
                 ELSE outbox \union {running}
    /\ owed' = owed \ {running}
    /\ late' = 0 /\ pc' = "top" /\ running' = Nobody
    /\ UNCHANGED <<since, shutdown>>

(* execute: the task runs, succeeds or fails, and leaves a result; a       *)
(* reflector grant was installed when it was polled and leaves none.       *)
Execute(d) ==
    /\ pc = "exec"
    /\ Elapse(d)
    /\ outbox' = IF running \in Grants THEN outbox
                 ELSE outbox \union {running}
    /\ owed' = owed \ {running}
    /\ late' = 0
    /\ pc' = "drain"
    /\ UNCHANGED <<since, running, shutdown>>

(* drain_spool, which after work is followed by the next iteration at once *)
(* and otherwise by a sleep.                                               *)
AfterDrain == IF running = Nobody THEN "sleep" ELSE "top"

DrainOk(d) ==
    /\ pc = "drain"
    /\ Elapse(d)
    /\ outbox' = {}
    /\ pc' = AfterDrain /\ running' = Nobody
    /\ UNCHANGED <<since, late, owed, shutdown>>

(* A POST fails after the batches before it, if any, were acknowledged.    *)
DrainErr(part, d) ==
    /\ pc = "drain" /\ part # outbox
    /\ Elapse(d)
    /\ outbox' = outbox \ part
    /\ pc' = AfterDrain /\ running' = Nobody
    /\ UNCHANGED <<since, late, owed, shutdown>>

(* The idle sleep: until something is due, the next poll, or MaxSleep, and *)
(* never less than one unit (the code's 50 ms).                            *)
TimeUntilDue ==
    IF oneshot # << >> THEN {0}
    ELSE IF DOMAIN recurring = {} THEN {PollInterval}
    ELSE {Max({recurring[t].wait, 0}) : t \in DOMAIN recurring}

SleepTime ==
    Max({1, Min(TimeUntilDue \union {Max({nextPoll, 0}), MaxSleep})})

Sleep ==
    /\ pc = "sleep"
    /\ Elapse(SleepTime)
    /\ pc' = IF shutdown THEN "flush" ELSE "top"
    /\ UNCHANGED <<since, running, late, outbox, owed, shutdown>>

(* The final flush of a graceful stop.                                     *)
Flush ==
    /\ pc = "flush"
    /\ pc' = "stopped"
    /\ \E part \in SUBSET outbox : outbox' = outbox \ part
    /\ UNCHANGED <<since, plan, timers, running, late, owed, shutdown,
                   cadence>>

Stopped == pc = "stopped" /\ UNCHANGED vars

Poll ==
    \/ \E lease \in Leases, assigned \in Assignments, d \in PollTimes :
          PollOk(lease, assigned, d)
    \/ \E delay \in RetryDelays, d \in PollTimes : PollErr(delay, d)
    \/ SkipPoll

Beat == (\E d \in BeatTimes : Heartbeat(d)) \/ SkipHeartbeat

Pick == PickOneShot \/ (\E t \in Recurring : PickRecurring(t)) \/ PickNothing

Drain ==
    \E d \in DrainTimes :
        DrainOk(d) \/ \E part \in SUBSET outbox : DrainErr(part, d)

Loop ==
    \/ Top \/ StopAtTop \/ Poll \/ Beat \/ Pick
    \/ (\E d \in TaskTimes : Execute(d))
    \/ Drain \/ Sleep \/ Flush

Next == Loop \/ Shutdown \/ Stopped

Spec == Init /\ [][Next]_vars

(* The loop is one tokio task that never blocks for good (every request    *)
(* and every task has a time limit), so it always takes its next step.     *)
FairSpec == Spec /\ WF_vars(Loop)

(* The controller is reachable again and again when results are submitted. *)
ControllerReturns == SF_vars(\E d \in DrainTimes : DrainOk(d))

-----------------------------------------------------------------------------
(* The reap at the top of the loop and the pick below it are separated by  *)
(* a poll and a heartbeat, and by nothing else: a one-shot is started at   *)
(* most that long after its deadline, however long the backlog before it.  *)
LatenessBounded ==
    late < Max({1, Max(PollTimes) + Max(BeatTimes)})

(* However often the controller repeats itself, a one-shot is in the queue *)
(* at most once; and what the agent owes an end -- the one-shots handed    *)
(* out in a readable form and since then neither executed nor reported     *)
(* skipped -- is what is queued or about to be executed: none is lost on   *)
(* the way, and none is run that was not handed out again (Plan::accept,   *)
(* reap_expired, next_due).                                                *)
OneShotAccounted ==
    /\ \A i, j \in 1..Len(oneshot) : oneshot[i].task = oneshot[j].task => i = j
    /\ \A t \in Tasks :
          t \in owed <=> t \in Queued \/ (pc = "exec" /\ running = t)

(* Falling behind never turns into a burst: while an assignment stays in   *)
(* the plan, whatever delays the loop suffers and however often polls      *)
(* refresh it or change its cadence, of any three consecutive firings the  *)
(* first and the last are at least an interval apart (next_due).           *)
NoBurst ==
    [][\A t \in Recurring : PickRecurring(t) => older[t] >= pace[t]]_vars

(* Every one-shot handed out in a readable form is answered, and anew each *)
(* time: run, or reported skipped.                                         *)
OneShotsAnswered ==
    \A t \in OneShots : t \in owed ~> (t \notin owed \/ shutdown)

(* Measurement needs no controller: once one-shots let up, an assignment   *)
(* in the plan keeps firing although every poll, heartbeat and submission  *)
(* may fail from then on, or every poll may repeat or change it.  The      *)
(* premise is next_due's order: a controller that hands out one-shots as   *)
(* fast as they are run keeps every assignment waiting.                    *)
KeepsMeasuring ==
    <>[](oneshot = << >>) =>
        \A t \in Recurring :
            t \in DOMAIN recurring
                ~> (running = t \/ t \notin DOMAIN recurring \/ shutdown)

(* Results are submitted even while there is a backlog of work: a result   *)
(* in the spool leaves it, for a controller that is reachable again and    *)
(* again, also when the loop is never idle.                                *)
ResultsDelivered ==
    ControllerReturns =>
        \A t \in OneShots \union Recurring :
            t \in outbox ~> (t \notin outbox \/ pc = "stopped")
=============================================================================
