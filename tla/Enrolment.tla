------------------------------ MODULE Enrolment -----------------------------
(***************************************************************************)
(* How a device becomes an agent: Agent::enrol and Agent::verify in        *)
(* agent/src/agent.rs with the identity file of controller/mod.rs, against *)
(* handleRegister (server/internal/api/api.go) and the store behind it.    *)
(*                                                                         *)
(* handleRegister is four database round trips, and a client that has      *)
(* given up waiting may be served all the same; each round trip is a step. *)
(* The number of a request stands for the credential minted for it and,    *)
(* when it creates the agent's row, for the agent id.                      *)
(***************************************************************************)
EXTENDS Integers, FiniteSets, Sequences

CONSTANTS
    Devices,        \* agent containers
    NameOf,         \* device -> its MQ_AGENT_NAME
    TokenOf,        \* device -> its MQ_ENROLMENT_TOKEN
    GroupOf,        \* enrolment token -> the group it grants
    None,
    MaxRequests, MaxFaults   \* bounds

ASSUME EnrolmentAssumption ==
    /\ DOMAIN NameOf = Devices /\ DOMAIN TokenOf = Devices
    /\ \A d \in Devices : TokenOf[d] \in DOMAIN GroupOf
    /\ MaxRequests \in Nat /\ MaxFaults \in Nat

Names == {NameOf[d] : d \in Devices}
Tokens == {TokenOf[d] : d \in Devices}
Groups == {GroupOf[t] : t \in Tokens}

VARIABLES
    agents,     \* table agents: name -> id, group, credential, disabled
    burned,     \* enrolment tokens with used_at set
    expired,    \* enrolment tokens past their expires_at
    requests,   \* POST /agents/register, in the order they were sent
    st,         \* per device: off, verify, register, waiting, running, failed
    awaiting,   \* per device: the request it is waiting for
    disk,       \* per device: identity.json
    mem,        \* per device: the identity it runs with
    faults      \* bound: faults so far

device == <<st, awaiting, disk, mem>>
vars == <<agents, burned, expired, requests, st, awaiting, disk, mem, faults>>

Fault == faults < MaxFaults /\ faults' = faults + 1

(* AuthenticateAgent: the credential is the current one of an agent that   *)
(* is not disabled.                                                        *)
(* Mutation: the id is enough, whichever credential comes with it.         *)
Valid_ById(id) ==
    id # None /\ \E n \in DOMAIN agents :
                   agents[n].id = id.id /\ ~agents[n].disabled

Valid(id) ==
    /\ id # None
    /\ \E n \in DOMAIN agents :
          agents[n].cred = id.cred /\ agents[n].id = id.id /\ ~agents[n].disabled

-----------------------------------------------------------------------------
Init ==
    /\ agents = << >> /\ burned = {} /\ expired = {} /\ requests = << >>
    /\ st = [d \in Devices |-> "off"] /\ awaiting = [d \in Devices |-> 0]
    /\ disk = [d \in Devices |-> None] /\ mem = [d \in Devices |-> None]
    /\ faults = 0

Become(d, state) == st' = [st EXCEPT ![d] = state]

(* load_identity at the start of enrol.                                    *)
Boot(d) ==
    /\ st[d] = "off"
    /\ Become(d, IF disk[d] = None THEN "register" ELSE "verify")
    /\ UNCHANGED <<agents, burned, expired, requests, awaiting, disk, mem, faults>>

(* verify: a heartbeat with the stored identity.  Rejection means enrol    *)
(* afresh; anything that is neither an answer nor worth retrying keeps the *)
(* identity; a transport failure is retried.                               *)
VerifyOk(d) ==
    /\ st[d] = "verify" /\ Valid(disk[d])
    /\ Become(d, "running") /\ mem' = [mem EXCEPT ![d] = disk[d]]
    /\ UNCHANGED <<agents, burned, expired, requests, awaiting, disk, faults>>

(* Mutation: a failed heartbeat is taken for a rejection.                  *)
VerifyRevoked_OnFailure(d) ==
    /\ st[d] = "verify"
    /\ Become(d, "register")
    /\ UNCHANGED <<agents, burned, expired, requests, awaiting, disk, mem, faults>>

VerifyRevoked(d) ==
    /\ st[d] = "verify" /\ ~Valid(disk[d])
    /\ Become(d, "register")
    /\ UNCHANGED <<agents, burned, expired, requests, awaiting, disk, mem, faults>>

VerifyUnexpected(d) ==
    /\ Fault /\ st[d] = "verify"
    /\ Become(d, "running") /\ mem' = [mem EXCEPT ![d] = disk[d]]
    /\ UNCHANGED <<agents, burned, expired, requests, awaiting, disk>>

VerifyRetry(d) ==
    /\ Fault /\ st[d] = "verify"
    /\ UNCHANGED <<agents, burned, expired, requests, device>>

(* The registration loop: send, and wait for the answer.                   *)
SendRegister(d) ==
    /\ st[d] = "register" /\ Len(requests) < MaxRequests
    /\ requests' = Append(requests,
          [dev |-> d, stage |-> "redeem", status |-> "open",
           agent_id |-> IF disk[d] = None THEN 0 ELSE disk[d].id,
           written |-> 0])
    /\ awaiting' = [awaiting EXCEPT ![d] = Len(requests) + 1]
    /\ Become(d, "waiting")
    /\ UNCHANGED <<agents, burned, expired, disk, mem, faults>>

(* The request or its answer is lost, or the time limit passes: retry.     *)
GiveUp(d) ==
    /\ Fault /\ st[d] = "waiting"
    /\ Become(d, "register") /\ awaiting' = [awaiting EXCEPT ![d] = 0]
    /\ UNCHANGED <<agents, burned, expired, requests, disk, mem>>

-----------------------------------------------------------------------------
(* handleRegister, step by step, for the i-th request.                     *)
Token(i) == TokenOf[requests[i].dev]
Name(i) == NameOf[requests[i].dev]
Group(i) == GroupOf[Token(i)]

Advance(i, stage, status) ==
    requests' = [requests EXCEPT ![i].stage = stage, ![i].status = status]

(* Mutation: redeeming burns the token.                                    *)
Redeem_Burns(i) ==
    /\ requests[i].stage = "redeem"
    /\ IF Token(i) \in burned \union expired
       THEN Advance(i, "done", "unauthorized")
       ELSE Advance(i, "check", "open")
    /\ burned' = burned \union {Token(i)}
    /\ UNCHANGED <<agents, expired, device, faults>>

(* A token's days pass, also while a request that shows it is served.      *)
Expire(t) ==
    /\ t \notin expired
    /\ expired' = expired \union {t}
    /\ UNCHANGED <<agents, burned, requests, device, faults>>

(* RedeemEnrolment only reads the token.                                   *)
Redeem(i) ==
    /\ requests[i].stage = "redeem"
    /\ IF Token(i) \in burned \union expired
       THEN Advance(i, "done", "unauthorized")
       ELSE Advance(i, "check", "open")
    /\ UNCHANGED <<agents, burned, expired, device, faults>>

(* Register, its SELECT: a new name, its owner coming back, a reclaim      *)
(* within the group, or a conflict.                                        *)
MayTake(i) ==
    \/ Name(i) \notin DOMAIN agents
    \/ agents[Name(i)].id = requests[i].agent_id
    \/ agents[Name(i)].group = Group(i)

Check(i) ==
    /\ requests[i].stage = "check"
    /\ IF MayTake(i) THEN Advance(i, "upsert", "open")
       ELSE Advance(i, "done", "conflict")
    /\ UNCHANGED <<agents, burned, expired, device, faults>>

(* Mutation: a reclaim makes a new agent.                                  *)
Row_Fresh(i) == [id |-> i, group |-> Group(i), cred |-> i, disabled |-> FALSE]

(* Register, its upsert by name: an existing row keeps its id and flag.    *)
Row(i) ==
    IF Name(i) \in DOMAIN agents
    THEN [agents[Name(i)] EXCEPT !.group = Group(i), !.cred = i]
    ELSE [id |-> i, group |-> Group(i), cred |-> i, disabled |-> FALSE]

Upsert(i) ==
    /\ requests[i].stage = "upsert"
    /\ agents' = [n \in DOMAIN agents \union {Name(i)} |->
                    IF n = Name(i) THEN Row(i) ELSE agents[n]]
    /\ requests' = [requests EXCEPT ![i].stage = "mark", ![i].written = Row(i).id]
    /\ UNCHANGED <<burned, expired, device, faults>>

(* MarkEnrolmentUsed, whose failure is only logged.                        *)
MarkUsed(i) ==
    /\ requests[i].stage = "mark"
    /\ Advance(i, "done", "ok")
    /\ burned' = burned \union {Token(i)}
    /\ UNCHANGED <<agents, expired, device, faults>>

MarkFails(i) ==
    /\ Fault /\ requests[i].stage = "mark"
    /\ Advance(i, "done", "ok")
    /\ UNCHANGED <<agents, burned, expired, device>>

(* A database error, or the controller going down, before the commit.      *)
HandlerFails(i) ==
    /\ Fault /\ requests[i].stage \in {"redeem", "check", "upsert"}
    /\ Advance(i, "done", "error")
    /\ UNCHANGED <<agents, burned, expired, device>>

-----------------------------------------------------------------------------
(* The answer arrives.  A retryable error is retried, a rejection ends     *)
(* enrol, and an identity is saved, unless saving fails, and used.         *)
Reply(d) == IF awaiting[d] = 0 THEN "open" ELSE requests[awaiting[d]].status
Issued(i) == [id |-> requests[i].written, cred |-> i]

Registered(d) ==
    /\ st[d] = "waiting" /\ Reply(d) = "ok"
    /\ Become(d, "running") /\ awaiting' = [awaiting EXCEPT ![d] = 0]
    /\ mem' = [mem EXCEPT ![d] = Issued(awaiting[d])]
    /\ \/ disk' = [disk EXCEPT ![d] = Issued(awaiting[d])] /\ UNCHANGED faults
       \/ Fault /\ UNCHANGED disk
    /\ UNCHANGED <<agents, burned, expired, requests>>

Retry(d) ==
    /\ st[d] = "waiting" /\ Reply(d) = "error"
    /\ Become(d, "register") /\ awaiting' = [awaiting EXCEPT ![d] = 0]
    /\ UNCHANGED <<agents, burned, expired, requests, disk, mem, faults>>

Rejected(d) ==
    /\ st[d] = "waiting" /\ Reply(d) \in {"unauthorized", "conflict"}
    /\ Become(d, "failed") /\ awaiting' = [awaiting EXCEPT ![d] = 0]
    /\ UNCHANGED <<agents, burned, expired, requests, disk, mem, faults>>

(* A power cut, or the container runtime restarting what has exited.       *)
Stop(d) == Become(d, "off") /\ awaiting' = [awaiting EXCEPT ![d] = 0]
           /\ mem' = [mem EXCEPT ![d] = None]
           /\ UNCHANGED <<agents, burned, expired, requests, disk>>

Crash(d) == Fault /\ st[d] \notin {"off", "failed"} /\ Stop(d)
Restart(d) == st[d] = "failed" /\ Stop(d) /\ UNCHANGED faults

(* The operator disables, enables or deletes an agent.                     *)
SetDisabled(n, flag) ==
    /\ Fault /\ n \in DOMAIN agents /\ agents[n].disabled # flag
    /\ agents' = [agents EXCEPT ![n].disabled = flag]
    /\ UNCHANGED <<burned, expired, requests, device>>

DeleteAgent(n) ==
    /\ Fault /\ n \in DOMAIN agents
    /\ agents' = [m \in DOMAIN agents \ {n} |-> agents[m]]
    /\ UNCHANGED <<burned, expired, requests, device>>

AgentStep(d) ==
    \/ Boot(d) \/ VerifyOk(d) \/ VerifyRevoked(d) \/ SendRegister(d)
    \/ Registered(d) \/ Retry(d) \/ Rejected(d) \/ Restart(d)

HandlerStep(i) == Redeem(i) \/ Check(i) \/ Upsert(i) \/ MarkUsed(i)

FaultStep ==
    \/ \E d \in Devices :
          VerifyUnexpected(d) \/ VerifyRetry(d) \/ GiveUp(d) \/ Crash(d)
    \/ \E i \in 1..Len(requests) : MarkFails(i) \/ HandlerFails(i)
    \/ \E n \in Names :
          (\E flag \in BOOLEAN : SetDisabled(n, flag)) \/ DeleteAgent(n)

Idle == (\A d \in Devices : st[d] \in {"running", "register"}) /\ UNCHANGED vars

Next ==
    \/ \E d \in Devices : AgentStep(d)
    \/ \E i \in 1..Len(requests) : HandlerStep(i)
    \/ \E t \in Tokens : Expire(t)
    \/ FaultStep \/ Idle

Spec == Init /\ [][Next]_vars

(* A device and a request being served always take their next step.        *)
FairSpec ==
    /\ Spec
    /\ \A d \in Devices : WF_vars(AgentStep(d))
    /\ \A i \in 1..MaxRequests : WF_vars(i <= Len(requests) /\ HandlerStep(i))

-----------------------------------------------------------------------------
Wrote(i) == requests[i].written # 0
(* A failed registration does not consume the token: what is burned has    *)
(* an agent written under it, whatever failed or overlapped on the way.    *)
BurnedByAgent ==
    \A t \in burned : \E i \in 1..Len(requests) : Wrote(i) /\ Token(i) = t

(* A working credential is in one device's hands: two devices that can     *)
(* both act as an agent are two agents, also while one name is enrolled    *)
(* from several devices at once.                                           *)
OneHolder ==
    \A d, e \in Devices :
        (d # e /\ Valid(mem[d]) /\ Valid(mem[e])) => mem[d].id # mem[e].id

(* A device that lost its state and enrols again under its name keeps the  *)
(* agent id, so its history stays attached: only a deletion ends an id.    *)
HistoryAttached ==
    [][\A n \in DOMAIN agents :
         n \in DOMAIN agents' => agents'[n].id = agents[n].id]_vars

(* A device with a working identity on disk comes back after any restart   *)
(* without its enrolment token, however long the controller was away.      *)
Saved(d) == Valid(disk[d])
Resumes ==
    \A d \in Devices :
        (st[d] = "off" /\ Saved(d)) ~> (st[d] = "running" \/ ~Saved(d))

(* A device retries until it is enrolled and is turned away only by a      *)
(* token that has expired or that somebody else has used.                  *)
NeverStranded ==
    \A d \in Devices :
        st[d] = "failed" => \/ TokenOf[d] \in expired
                            \/ \E i \in 1..Len(requests) :
                                  /\ Wrote(i) /\ Token(i) = TokenOf[d]
                                  /\ requests[i].dev # d
=============================================================================
