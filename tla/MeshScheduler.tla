--------------------------- MODULE MeshScheduler ----------------------------
(***************************************************************************)
(* Who probes whom: PlanMesh (server/internal/scheduler/mesh.go) as        *)
(* runScheduler (cmd/controller/main.go) calls it, for one group and its   *)
(* cycle counter.                                                          *)
(*                                                                         *)
(* Members are numbers in the order of their names.  What keeps an agent    *)
(* out of the mesh altogether (no recent heartbeat, no probe protocol, no  *)
(* address) is its condition.  The time between cycles is left out, and    *)
(* with it a cycle in which the agents cannot be read: it changes nothing. *)
(***************************************************************************)
EXTENDS Tables, FiniteSetsExt

CONSTANTS
    Members,      \* a set of numbers
    Settings,     \* records of mesh plan, fanout and the set of hubs
    Conditions,   \* "usable", and what may keep an agent out
    MaxCycles,    \* bound: cycles since the controller started
    MaxEvents     \* bound: changes, failures and restarts

ASSUME MeshAssumption ==
    /\ Members \subseteq Nat /\ IsFiniteSet(Members)
    /\ \A s \in Settings : s.fanout \in Int /\ s.hubs \subseteq Members
    /\ "usable" \in Conditions
    /\ MaxCycles \in Nat /\ MaxEvents \in Nat

VARIABLES
    group,      \* the group's settings
    roster,     \* its members, as the scheduler sees them
    cycles,     \* the group's cycle counter, in memory
    granted,    \* the grants in the table, as pair and cycle number: for good
    calm,       \* history: cycles that measured anew since the last Event
    measured,   \* history: pairs scheduled in them
    events

meshVars == <<group, roster, cycles, granted, calm, measured, events>>

(* Of an agent that takes no part the rest makes no difference.            *)
Candidate ==
    {c \in [cond : Conditions, reachable : BOOLEAN, reflector_only : BOOLEAN] :
        c.cond = "usable" \/ (c.reachable /\ ~c.reflector_only)}

-----------------------------------------------------------------------------
(* The usable agents, and where each stands in the order of their names.   *)
Usable == {a \in Members : roster[a].cond = "usable"}
n == Cardinality(Usable)
At(i) == Nth(Usable, (i % n) + 1)

fullMesh == {p \in Usable \X Usable : p[1] # p[2]}

ring == {<<At(i), At(i + 1)>> : i \in 0..(n - 1)}

(* Mutation: no hub, nothing to measure.                                   *)
hub_NoFallback ==
    LET hubs == group.hubs \intersect Usable
    IN  {p \in Usable \X hubs : p[1] # p[2]}

(* Spokes probe hubs and hubs each other; without hubs there is a ring,    *)
(* and a line in the log.                                                  *)
hub ==
    LET hubs == group.hubs \intersect Usable
    IN  IF hubs = {} THEN ring ELSE {p \in Usable \X hubs : p[1] # p[2]}

(* Each agent probes as many of the agents after it as the fanout says,    *)
(* starting further along every cycle.                                     *)
Fanout == Min({Max({group.fanout, 1}), n - 1})

(* Mutation: the offsets go round with the agent itself among the peers.   *)
Offset_WithSelf(k) == (cycles * Fanout + k) % n
Offset(k) == (cycles * Fanout + k) % (n - 1)

partial ==
    {<<At(i), At(i + 1 + Offset(k))>> : i \in 0..(n - 1), k \in 0..(Fanout - 1)}

candidates ==
    CASE group.plan = "full" -> fullMesh
      [] group.plan = "hub" -> hub
      [] group.plan = "partial" -> partial
      [] OTHER -> ring

-----------------------------------------------------------------------------
orientable(from, to) == ~roster[from].reflector_only /\ roster[to].reachable

orientationFailure(a, b) ==
    CASE roster[a].reflector_only /\ roster[b].reflector_only -> "both reflector-only"
      [] ~roster[a].reachable /\ ~roster[b].reachable -> "both behind NAT"
      [] OTHER -> "sender cannot send"

Flip(p) == <<p[2], p[1]>>
Possible(p) == orientable(p[1], p[2])

(* A pair that cannot be measured as planned is turned round if that can;  *)
(* pairs that end up the same are one, and nobody probes itself.           *)
Oriented ==
    LET planned == candidates
    IN  {p \in planned : Possible(p)}
          \union {Flip(p) : p \in {q \in planned : ~Possible(q) /\ Possible(Flip(q))}}

(* The plan of a cycle: its pairings, and what was left out and why.       *)
PlanMesh ==
    LET unusable == {[who |-> {a}, reason |-> roster[a].cond] : a \in Members \ Usable}
        impossible == {p \in candidates : ~Possible(p) /\ ~Possible(Flip(p))}
    IN  IF n < 2
        THEN [pairings |-> {},
              excluded |-> unusable \union
                  {[who |-> {a}, reason |-> "single agent"] : a \in Usable}]
        ELSE [pairings |-> {p \in Oriented : p[1] # p[2]},
              excluded |-> unusable \union
                  {[who |-> {p[1], p[2]}, reason |-> orientationFailure(p[1], p[2])] :
                     p \in impossible}]

-----------------------------------------------------------------------------
MeshInit ==
    /\ group \in Settings /\ roster \in [Members -> Candidate]
    /\ cycles = 0 /\ granted = {} /\ calm = 0 /\ measured = {} /\ events = 0

(* A pair whose grant of this cycle number is still in the table, from     *)
(* before a restart: ON CONFLICT DO NOTHING keeps the old row, which       *)
(* nothing purges.  Its sender's row is there as well, or, purged, is      *)
(* written anew with a session that grant does not know.  Either way there *)
(* is no new measurement.                                                  *)
Repeated(pairings) == {p \in pairings : <<p, cycles>> \in granted}

(* The next cycle of the group: the counter moves on whether or not there  *)
(* is anything to write.  A cycle that repeats a pair is no part of the    *)
(* window that has to cover the mesh.                                      *)
Cycle ==
    /\ cycles < MaxCycles /\ cycles' = cycles + 1
    /\ LET pairings == PlanMesh.pairings
       IN  /\ granted' = granted \union (pairings \X {cycles})
           /\ \/ Repeated(pairings) = {} /\ calm' = calm + 1
                 /\ measured' = measured \union pairings
              \/ Repeated(pairings) # {} /\ calm' = 0 /\ measured' = {}
    /\ UNCHANGED <<group, roster, events>>

Event ==
    /\ events < MaxEvents /\ events' = events + 1
    /\ calm' = 0 /\ measured' = {}

(* The tasks of a cycle cannot be written, and none is; the counter has    *)
(* moved on.                                                               *)
CycleFails ==
    /\ Event /\ cycles < MaxCycles /\ PlanMesh.pairings # {}
    /\ cycles' = cycles + 1
    /\ UNCHANGED <<group, roster, granted>>

(* An agent comes, goes or is edited.                                      *)
AgentChanges(a, c) ==
    /\ c # roster[a] /\ Event
    /\ roster' = [roster EXCEPT ![a] = c]
    /\ UNCHANGED <<group, cycles, granted>>

(* The controller restarts: the counter is lost, the table is not.         *)
Restart ==
    /\ cycles > 0 /\ Event
    /\ cycles' = 0
    /\ UNCHANGED <<group, roster, granted>>

MeshNext ==
    \/ Cycle \/ CycleFails \/ Restart
    \/ \E a \in Members, c \in Candidate : AgentChanges(a, c)
    \/ cycles = MaxCycles /\ UNCHANGED meshVars

MeshSpec == MeshInit /\ [][MeshNext]_meshVars

-----------------------------------------------------------------------------
(* Rotation covers the mesh: in as many cycles as the fanout needs to go   *)
(* round the peers once, from whichever cycle on, every agent has been     *)
(* given every other that it may probe, as long as nothing changes or      *)
(* fails.  After a restart the window begins with the first cycle whose    *)
(* number finds no grants of before.                                       *)
Covered ==
    /\ group.plan = "full" => calm >= 1
    /\ group.plan = "partial" => calm * Fanout >= n - 1
CoverageWindow ==
    (group.plan \in {"full", "partial"} /\ Covered) =>
        \A p \in fullMesh : Possible(p) => p \in measured

GapsDeclared ==
    LET plan == PlanMesh
        named == UNION {e.who : e \in plan.excluded}
        probed == UNION {{p[1], p[2]} : p \in plan.pairings}
        settled == {{p[1], p[2]} : p \in plan.pairings}
                     \union {e.who : e \in plan.excluded}
    IN  /\ named \union probed = Members
        /\ n >= 2 => \A p \in candidates : p[1] # p[2] => {p[1], p[2]} \in settled

LoadBounded ==
    group.plan = "partial" =>
        LET pairings == PlanMesh.pairings
        IN  \A a \in Members :
                Cardinality({p \in pairings : p[1] = a}) <= 2 * Max({group.fanout, 1})

Fixed(a, b, reason) ==
    CASE reason = "both behind NAT" -> ~roster[a].reflector_only
      [] OTHER -> roster[b].reachable
ReasonIsBinding ==
    \A e \in {x \in PlanMesh.excluded : Cardinality(x.who) = 2} :
        \/ \E a \in e.who : \E b \in e.who \ {a} : Fixed(a, b, e.reason)
        \/ \A a \in e.who : roster[a].reflector_only /\ ~roster[a].reachable

(* A plan is sound, whichever it is and whoever may be reached.  It        *)
(* declares its gaps: every member of the group, and every pair the plan   *)
(* asked for, is measured one way round or the other or named in an        *)
(* exclusion.  Turning pairs round at most doubles the probes an agent     *)
(* sends, as many plan to probe it as it plans to probe.  And the reason   *)
(* given for a pair that is not measured is the one to fix: to remove it   *)
(* from one of the two agents is enough, unless both have both problems    *)
(* (PlanMesh, orientationFailure).                                         *)
PlanSound == GapsDeclared /\ LoadBounded /\ ReasonIsBinding
=============================================================================
