----------------------------- MODULE TaskLedger -----------------------------
(***************************************************************************)
(* The controller's task table and result table (server/internal/store)    *)
(* and the agents that lease from one and report to the other.             *)
(*                                                                         *)
(* A task id is [role, pair, batch]: mesh ids are derived from the pair    *)
(* and the scheduler's cycle, a one-shot's from a random suffix, its name. *)
(* A session id is the draw it came from.  The database survives           *)
(* everything; the scheduler's cycle counter dies with the controller, and *)
(* an agent's plan, grants and spool die with the agent.  An operator may  *)
(* delete an agent: its identity and its rows are gone for good, what is   *)
(* measured stays.                                                         *)
(*                                                                         *)
(* Time is left open: a lease or the purge's age may pass at any moment,   *)
(* and a row may be due or not yet.  A one-shot's expires_at is left out:  *)
(* nothing in the controller or in what it tells the agent depends on it.  *)
(***************************************************************************)
EXTENDS Integers, FiniteSets, Bags

CONSTANTS
    Agents,
    Pairs,          \* pairings <<sender, reflector>> a mesh plan may make
    Shots,          \* operator-issued one-shots
    Peerless,       \* those of a kind that needs no peer agent
    LeaseLimit,     \* LIMIT of LeaseTasks
    MaxCycle, MaxRuns, MaxFaults, MaxRestarts, MaxDraws   \* bounds

ASSUME LedgerAssumption ==
    /\ Pairs \subseteq Agents \X Agents
    /\ Peerless \subseteq Shots
    /\ LeaseLimit \in Nat \ {0}
    /\ {MaxCycle, MaxRuns, MaxFaults, MaxRestarts, MaxDraws} \subseteq Nat

VARIABLES
    tasks,      \* table tasks: id -> state and session id
    results,    \* table results: a bag of runs
    cycle,      \* the scheduler's cycle counter, in memory
    plan,       \* per agent: leased tasks waiting to run
    grants,     \* per agent: sessions its reflector answers
    spool,      \* per agent: runs not yet acknowledged
    gone,       \* agents the operator has deleted
    \* History and bounds.
    refused,    \* runs turned away as "unknown task"
    clock,      \* runs so far: the time stamp of the next
    draws,      \* session ids drawn
    faults, restarts

controller == <<tasks, results, refused>>
agent == <<plan, grants, spool>>
vars == <<tasks, results, cycle, plan, grants, spool, gone,
          refused, clock, draws, faults, restarts>>

Roles == {"sender", "reflector"}
Batches == (0..(MaxCycle - 1)) \union Shots
Ids == [role : Roles, pair : Pairs, batch : Batches]
Senders == {t \in Ids : t.role = "sender"}
AgentOf(t) == IF t.role = "sender" THEN t.pair[1] ELSE t.pair[2]
(* The agents a row refers to: its own, and its peer if it has one.        *)
Refers(t) ==
    {AgentOf(t)} \union (IF t.batch \in Peerless THEN {} ELSE {t.pair[1], t.pair[2]})
Orphaned(t) == Refers(t) \cap gone # {}
InState(st) == {t \in DOMAIN tasks : tasks[t].state = st}
Answered == {r.task : r \in DOMAIN results}

-----------------------------------------------------------------------------
Init ==
    /\ tasks = << >> /\ results = EmptyBag
    /\ cycle = 0
    /\ plan = [a \in Agents |-> {}] /\ grants = [a \in Agents |-> {}]
    /\ spool = [a \in Agents |-> {}]
    /\ gone = {}
    /\ refused = {} /\ clock = 0 /\ draws = 0 /\ faults = 0 /\ restarts = 0

(* INSERT ... ON CONFLICT (task_id) DO NOTHING.                            *)
Insert(old, new) ==
    [t \in DOMAIN old \union DOMAIN new |->
        IF t \in DOMAIN old THEN old[t] ELSE new[t]]

(* The rows of these pairings: one per role, pending, with one session.    *)
RowsFor(pairs, batch, roles) ==
    [t \in {[role |-> r, pair |-> p, batch |-> batch] : r \in roles, p \in pairs} |->
        [state |-> "pending", session |-> <<draws, t.pair>>]]

Create(rows) ==
    /\ draws < MaxDraws /\ draws' = draws + 1
    /\ tasks' = Insert(tasks, rows)
    /\ UNCHANGED <<results, agent, gone, refused, clock, faults, restarts>>

(* A scheduler cycle writes a sender row and a grant for each pairing of   *)
(* the agents there are (runScheduler, CreateMeshTasks); ids already there *)
(* are left alone.                                                         *)
Schedule ==
    /\ cycle < MaxCycle /\ cycle' = cycle + 1
    /\ Create(RowsFor({p \in Pairs : {p[1], p[2]} \cap gone = {}}, cycle, Roles))

(* An operator's one-shot has an id of its own, and a grant when its kind  *)
(* needs a peer.                                                           *)
CreateOneShot(o, p) ==
    /\ \A t \in DOMAIN tasks \union Answered : t.batch # o
    /\ LET rows == RowsFor({p}, o, IF o \in Peerless THEN {"sender"} ELSE Roles)
       IN  Create(rows) /\ \A t \in DOMAIN rows : ~Orphaned(t)
    /\ UNCHANGED cycle

-----------------------------------------------------------------------------
(* Polling.  The statement takes the oldest rows that are due; as time is  *)
(* open, any of the pending ones, up to the limit.                         *)
Pending(a) == {t \in InState("pending") : AgentOf(t) = a}

Fault == faults < MaxFaults /\ faults' = faults + 1

Dto(t) == [task |-> t, session |-> tasks[t].session]

LeaseTasks(a, S) ==
    /\ S \subseteq Pending(a) /\ Cardinality(S) <= LeaseLimit
    /\ tasks' = [t \in DOMAIN tasks |->
                    IF t \in S THEN [tasks[t] EXCEPT !.state = "leased"]
                    ELSE tasks[t]]

(* poll_tasks: a task that is still queued is not queued again, and what   *)
(* is a grant is given to the reflector at once.                           *)
Poll(a, S) ==
    /\ LeaseTasks(a, S)
    /\ plan' = [plan EXCEPT ![a] = @ \union
                  {Dto(t) : t \in {u \in S : \A e \in plan[a] : e.task # u}}]
    /\ grants' = [grants EXCEPT ![a] = @ \union
                    {tasks[t].session : t \in {u \in S : u.role = "reflector"}}]
    /\ UNCHANGED <<results, cycle, spool, gone, refused, clock, draws, faults, restarts>>

(* The rows are leased and the answer does not arrive.                     *)
PollLost(a, S) ==
    /\ S # {} /\ LeaseTasks(a, S) /\ Fault
    /\ UNCHANGED <<results, cycle, agent, gone, refused, clock, draws, restarts>>

(* The agent runs a queued task, which leaves a result: measured, failed   *)
(* or skipped.  Result::Valid refuses some: the wall clock stepped back    *)
(* while the task ran, say, or a one-shot asked for a DSCP above 63.       *)
Run(a, e, valid) ==
    /\ e \in plan[a] /\ e.task.role = "sender"
    /\ plan' = [plan EXCEPT ![a] = @ \ {e}]
    /\ clock < MaxRuns /\ clock' = clock + 1
    /\ spool' = [spool EXCEPT ![a] = @ \union
          {[task |-> e.task, session |-> e.session, time |-> clock,
            valid |-> valid]}]
    /\ UNCHANGED <<controller, cycle, grants, gone, draws, restarts>>

Execute(a, e) == Run(a, e, TRUE) /\ UNCHANGED faults
ExecuteBadly(a, e) == Run(a, e, FALSE) /\ Fault

(* A grant that comes up is done with.                                     *)
SkipGrant(a, e) ==
    /\ e \in plan[a] /\ e.task.role = "reflector"
    /\ plan' = [plan EXCEPT ![a] = @ \ {e}]
    /\ UNCHANGED <<controller, cycle, grants, spool, gone, clock, draws, faults,
                   restarts>>

-----------------------------------------------------------------------------
(* Results.  The insert does nothing for a task and time already there.    *)
(* Mutation: it inserts whatever comes.                                    *)
Stored_Never(rs) == results (+) SetToBag(rs)

Stored(rs) == results (+) SetToBag(rs \ DOMAIN results)

(* handleResults: what is not valid is passed over; then each result in a  *)
(* transaction of its own: those in failed meet a database error, those of *)
(* a task that is not there are refused.                                   *)
SaveResults(rs, failed) ==
    LET tried == {r \in rs \ failed : r.valid}
        known == {r \in tried : r.task \in DOMAIN tasks}
    IN  /\ results' = Stored(known)
        /\ tasks' = [t \in DOMAIN tasks |->
                        IF \E r \in known : r.task = t
                        THEN [tasks[t] EXCEPT !.state = "done"] ELSE tasks[t]]
        /\ refused' = refused \union (tried \ known)

(* Whatever became of each row, the answer is 202 and the agent lets go of *)
(* the batch.  A deleted agent is not let in, and keeps its batch.         *)
Submit(a, failed) ==
    /\ a \notin gone /\ spool[a] # {} /\ SaveResults(spool[a], failed)
    /\ IF failed = {} THEN UNCHANGED faults ELSE Fault
    /\ spool' = [spool EXCEPT ![a] = {}]
    /\ UNCHANGED <<cycle, plan, grants, gone, clock, draws, restarts>>

(* The answer is lost: the agent keeps the batch and sends it again.       *)
SubmitLost(a, failed) ==
    /\ a \notin gone /\ spool[a] # {} /\ SaveResults(spool[a], failed) /\ Fault
    /\ UNCHANGED <<cycle, agent, gone, clock, draws, restarts>>

-----------------------------------------------------------------------------
(* The controller's sweeps.  That a lease runs out while the agent still   *)
(* has the task, or its result, is a fault.                                *)
Held(t) ==
    \/ \E e \in plan[AgentOf(t)] : e.task = t
    \/ \E r \in spool[AgentOf(t)] : r.task = t

(* Mutation: the sweep is left out.                                        *)
ExpireLeases_Never(S) == S = {} /\ UNCHANGED vars

ExpireLeases(S) ==
    /\ S # {} /\ S \subseteq InState("leased")
    /\ IF \E t \in S : t.role = "sender" /\ Held(t) THEN Fault ELSE UNCHANGED faults
    /\ tasks' = [t \in DOMAIN tasks |->
                    IF t \in S THEN [tasks[t] EXCEPT !.state = "pending"]
                    ELSE tasks[t]]
    /\ UNCHANGED <<results, cycle, agent, gone, refused, clock, draws, restarts>>

Remove(S) ==
    /\ S # {}
    /\ tasks' = [t \in DOMAIN tasks \ S |-> tasks[t]]
    /\ UNCHANGED <<results, cycle, agent, gone, refused, clock, draws, faults, restarts>>

(* Mutations: old rows go, finished or not; only what has expired goes.    *)
Purge_AnyState(S) == S \subseteq DOMAIN tasks /\ Remove(S)
Purge_Expired(S) == S \subseteq InState("expired") /\ Remove(S)

(* No row is ever given the state "expired", which the purge takes too.    *)
Purge(S) == S \subseteq InState("done") \union InState("expired") /\ Remove(S)

(* The operator deletes an agent: every row that names it goes with it, as *)
(* its own or as the peer, and no result does.                             *)
DeleteAgent(a) ==
    /\ a \notin gone /\ gone' = gone \union {a} /\ Fault
    /\ tasks' = [t \in {u \in DOMAIN tasks : a \notin Refers(u)} |-> tasks[t]]
    /\ UNCHANGED <<results, cycle, agent, refused, clock, draws, restarts>>

CrashAgent(a) ==
    /\ Fault
    /\ plan' = [plan EXCEPT ![a] = {}] /\ grants' = [grants EXCEPT ![a] = {}]
    /\ spool' = [spool EXCEPT ![a] = {}]
    /\ UNCHANGED <<controller, cycle, gone, clock, draws, restarts>>

RestartController ==
    /\ cycle > 0 /\ restarts < MaxRestarts /\ restarts' = restarts + 1
    /\ cycle' = 0
    /\ UNCHANGED <<controller, agent, gone, clock, draws, faults>>

Next ==
    \/ Schedule \/ RestartController
    \/ \E o \in Shots, p \in Pairs : CreateOneShot(o, p)
    \/ \E a \in Agents :
          \/ \E S \in SUBSET Pending(a) : Poll(a, S) \/ PollLost(a, S)
          \/ \E e \in plan[a] : Execute(a, e) \/ ExecuteBadly(a, e) \/ SkipGrant(a, e)
          \/ \E F \in SUBSET spool[a] : Submit(a, F) \/ SubmitLost(a, F)
          \/ CrashAgent(a) \/ DeleteAgent(a)
    \/ \E S \in SUBSET InState("leased") : ExpireLeases(S)
    \/ \E S \in SUBSET DOMAIN tasks : Purge(S)

Spec == Init /\ [][Next]_vars

(* Every row is due sooner or later, and a poll takes all that are due     *)
(* when they are no more than the LIMIT: while no more are pending, each   *)
(* of them is leased.  Nothing is assumed of a poll that more rows wait    *)
(* for (LeaseOrder shows what becomes of those).                           *)
Uncrowded(a) == Cardinality(Pending(a)) <= LeaseLimit

(* The agent's loop polls, works through its queue in order and drains its *)
(* spool for ever, and the controller's two tickers sweep leases and purge *)
(* finished rows for ever.                                                 *)
FairSpec ==
    /\ Spec
    /\ \A t \in Senders :
         /\ WF_vars(/\ Uncrowded(AgentOf(t))
                    /\ \E S \in SUBSET Pending(AgentOf(t)) :
                          t \in S /\ Poll(AgentOf(t), S))
         /\ WF_vars(\E e \in plan[AgentOf(t)] :
                      /\ e.task = t
                      /\ Execute(AgentOf(t), e) \/ ExecuteBadly(AgentOf(t), e))
         /\ WF_vars(\E S \in SUBSET InState("leased") :
                      t \in S /\ ExpireLeases(S))
         /\ WF_vars(\E S \in SUBSET InState("done") : t \in S /\ Purge(S))
    /\ \A a \in Agents : WF_vars(Submit(a, {}))

-----------------------------------------------------------------------------
(* Draining a spool again and again after lost answers never counts a run  *)
(* twice: the insert ignores a row whose task and time are already there.  *)
NoDoubleCount == \A r \in DOMAIN results : results[r] = 1

(* No task loses its only result: what is done, and so may be purged, has  *)
(* a row in results (SaveResult commits both or neither), and a valid run  *)
(* is turned away as an unknown task only when another run of that task    *)
(* was stored, or when an agent the task refers to was deleted, whatever   *)
(* answers were late and whoever restarted.                                *)
NoAnswerLost ==
    /\ InState("done") \subseteq Answered
    /\ \A r \in refused : r.task \in Answered \/ Orphaned(r.task)

(* A row with this session that is not finished, and what the agent still  *)
(* holds of an earlier row of the same id.                                 *)
Asked(t, x) ==
    t \in DOMAIN tasks /\ tasks[t].session = x /\ tasks[t].state # "done"
Stale(t, x) ==
    \E e \in plan[AgentOf(t)] \union spool[AgentOf(t)] : e.task = t /\ e.session # x

(* While no more rows wait for an agent than a poll may carry, and unless  *)
(* every run of it is refused: whatever is lost on the way, a container    *)
(* that dies mid-task included, a measurement is eventually answered, by a *)
(* run of its own session.  Its lease runs out and it is handed out again. *)
(* (An agent that still holds the task from before a controller's restart  *)
(* answers for the earlier row instead.)                                   *)
EveryProbeAnswered ==
    \A t \in Senders, d \in 0..(MaxDraws - 1) :
        LET x == <<d, t.pair>>
        IN  <>[]Uncrowded(AgentOf(t)) =>
              (Asked(t, x) /\ ~Stale(t, x)
                ~> (\E r \in DOMAIN results : r.task = t /\ r.session = x)
                   \/ Orphaned(t))

(* The purge keeps up with the measurements: while no more rows wait for   *)
(* an agent than a poll may carry, the row of a sender task is leased,     *)
(* answered and removed, whatever is lost on the way.  (The row of a       *)
(* reflector grant is not: nobody ever reports on it.)                     *)
SendersPurged ==
    \A t \in Senders :
        <>[]Uncrowded(AgentOf(t)) => (t \in DOMAIN tasks ~> t \notin DOMAIN tasks)
=============================================================================
