--------------------------- MODULE EnrolmentProofs --------------------------
(***************************************************************************)
(* Enrolment for any number of devices, names, tokens, groups, overlapping *)
(* requests and faults.                                                    *)
(***************************************************************************)
EXTENDS Enrolment, TLAPS

Stages == {"redeem", "check", "upsert", "mark", "done"}
Statuses == {"open", "ok", "error", "unauthorized", "conflict"}
Request == [dev : Devices, stage : Stages, status : Statuses,
            agent_id : Nat, written : Nat]
Agent == [id : Nat, group : Groups, cred : Nat, disabled : BOOLEAN]
Identity == [id : Nat, cred : Nat]
States == {"off", "verify", "register", "waiting", "running", "failed"}

(* The values the tables, the requests and the devices may hold.           *)
TypeOK ==
    /\ requests \in Seq(Request)
    /\ DOMAIN agents \subseteq Names /\ agents \in [DOMAIN agents -> Agent]
    /\ burned \subseteq Tokens /\ expired \subseteq Tokens
    /\ st \in [Devices -> States] /\ awaiting \in [Devices -> Nat]
    /\ disk \in [Devices -> Identity \union {None}]
    /\ mem \in [Devices -> Identity \union {None}]
    /\ faults \in Nat

Sent(i, d) == i \in 1..Len(requests) /\ requests[i].dev = d

(* A device waits for, runs with and has saved only what answers its own   *)
(* requests.                                                               *)
OwnAnswers ==
    \A d \in Devices :
        /\ awaiting[d] # 0 => Sent(awaiting[d], d)
        /\ mem[d] # None => Sent(mem[d].cred, d)
        /\ disk[d] # None => Sent(disk[d].cred, d)

(* The request that created a row asked for the name of that row, so no id *)
(* stands under two names.                                                 *)
IdsByName ==
    \A n \in DOMAIN agents :
        agents[n].id \in 1..Len(requests) /\ Name(agents[n].id) = n

(* A handler that has come to marking the token has written its agent.     *)
MarkAfterWrite ==
    \A i \in 1..Len(requests) : requests[i].stage = "mark" => Wrote(i)

IInv == TypeOK /\ OwnAnswers /\ IdsByName /\ MarkAfterWrite /\ BurnedByAgent

-----------------------------------------------------------------------------
(* Requests are never taken back: each keeps its sender, and one that has  *)
(* written an agent has written it.                                        *)
Kept ==
    /\ Len(requests) <= Len(requests')
    /\ \A i \in 1..Len(requests) :
          /\ requests'[i].dev = requests[i].dev
          /\ requests[i].written # 0 => requests'[i].written # 0

(* The initial state satisfies the invariant.                              *)
LEMMA InitIInv == Init => IInv
<1> SUFFICES ASSUME Init PROVE IInv
  OBVIOUS
<1>1. TypeOK
  BY DEF Init, TypeOK, States
<1> QED  BY <1>1 DEF Init, IInv, OwnAnswers, IdsByName, MarkAfterWrite, BurnedByAgent

(* What a request says of its sender is in the sets the type names.        *)
LEMMA RequestFacts ==
  ASSUME TypeOK, NEW i \in 1..Len(requests)
  PROVE  /\ requests[i] \in Request /\ requests[i].dev \in Devices
         /\ Name(i) \in Names /\ Token(i) \in Tokens /\ Group(i) \in Groups
<1>1. requests[i] \in Request
  BY DEF TypeOK
<1>2. requests[i].dev \in Devices
  BY <1>1 DEF Request
<1> QED  BY <1>1, <1>2 DEF Name, Token, Group, Names, Tokens, Groups

(* A step that only moves a request on to another stage keeps it whole.    *)
LEMMA AdvanceFacts ==
  ASSUME IInv, NEW i \in 1..Len(requests), NEW stage \in Stages \ {"mark"},
         NEW status \in Statuses, Advance(i, stage, status)
  PROVE  requests' \in Seq(Request) /\ Kept /\ MarkAfterWrite'
<1> USE DEF Advance
<1>1. requests[i] \in Request
  BY RequestFacts DEF IInv
<1>2. requests \in Seq(Request) /\ Len(requests) \in Nat
  BY DEF IInv, TypeOK
<1> DEFINE r == [requests[i] EXCEPT !.stage = stage, !.status = status]
<1>r. /\ r \in Request /\ r.dev = requests[i].dev
      /\ r.written = requests[i].written /\ r.stage = stage
  BY <1>1 DEF Request
<1>s. requests' = [requests EXCEPT ![i] = r]
  BY <1>1, <1>2
<1> HIDE DEF r
<1>3. /\ requests' \in Seq(Request) /\ Len(requests') = Len(requests)
      /\ \A j \in 1..Len(requests) :
            /\ requests'[j].dev = requests[j].dev
            /\ requests'[j].written = requests[j].written
            /\ requests'[j].stage = IF j = i THEN stage ELSE requests[j].stage
  BY <1>1, <1>2, <1>r, <1>s
<1>4. Kept
  BY <1>3, <1>2 DEF Kept
<1>5. MarkAfterWrite'
  BY <1>3, <1>2 DEF IInv, MarkAfterWrite, Wrote
<1> QED  BY <1>3, <1>4, <1>5

(* What the invariant says of requests already sent survives any step that *)
(* keeps them.                                                             *)
LEMMA KeptFacts ==
  ASSUME IInv, Kept, requests' \in Seq(Request)
  PROVE  /\ \A d \in Devices, i \in Nat : Sent(i, d) => Sent(i, d)'
         /\ (agents' = agents) => IdsByName'
         /\ (UNCHANGED <<awaiting, disk, mem>>) => OwnAnswers'
         /\ (burned' = burned) => BurnedByAgent'
<1>1. Len(requests) \in Nat /\ Len(requests') \in Nat /\ Len(requests) <= Len(requests')
  BY DEF IInv, TypeOK, Kept
<1>2. \A i \in 1..Len(requests) :
         /\ i \in 1..Len(requests') /\ requests'[i].dev = requests[i].dev
         /\ Wrote(i) => Wrote(i)'
         /\ Name(i)' = Name(i) /\ Token(i)' = Token(i)
  BY <1>1 DEF Kept, Wrote, Name, Token
<1>3. \A d \in Devices, i \in Nat : Sent(i, d) => Sent(i, d)'
  BY <1>2 DEF Sent
<1>4. (agents' = agents) => IdsByName'
  BY <1>2 DEF IInv, IdsByName, Name
<1>5. (UNCHANGED <<awaiting, disk, mem>>) => OwnAnswers'
  BY <1>3, <1>2 DEF IInv, OwnAnswers, Sent
<1>6. (burned' = burned) => BurnedByAgent'
  BY <1>2 DEF IInv, BurnedByAgent
<1> QED  BY <1>3, <1>4, <1>5, <1>6

(* A step that leaves the requests alone keeps all it says of them.        *)
LEMMA RequestsAlone ==
  ASSUME IInv, requests' = requests
  PROVE  Kept /\ requests' \in Seq(Request) /\ MarkAfterWrite'
BY DEF IInv, TypeOK, Kept, MarkAfterWrite, Wrote

-----------------------------------------------------------------------------
(* Agent::enrol and Agent::verify.                                         *)

(* A step of a device that leaves both sides' tables alone and keeps the   *)
(* device's identity, or takes it from the file, keeps the invariant.      *)
LEMMA DeviceIInv ==
  ASSUME IInv, NEW d \in Devices, NEW state \in States,
         UNCHANGED <<agents, burned, expired, requests, disk>>, faults' \in Nat,
         Become(d, state),
         awaiting' = awaiting \/ awaiting' = [awaiting EXCEPT ![d] = 0],
         \/ mem' = mem \/ mem' = [mem EXCEPT ![d] = None]
         \/ mem' = [mem EXCEPT ![d] = disk[d]]
  PROVE  IInv'
<1>1. TypeOK'
  BY DEF IInv, TypeOK, Become
<1>2. OwnAnswers'
  BY DEF IInv, TypeOK, OwnAnswers, Sent
<1>3. IdsByName' /\ BurnedByAgent' /\ MarkAfterWrite'
  BY RequestsAlone, KeptFacts
<1> QED  BY <1>1, <1>2, <1>3 DEF IInv

(* An answer is used, and saved or not: Registered.                        *)
LEMMA RegisteredIInv ==
  ASSUME IInv, NEW d \in Devices, Registered(d)
  PROVE  IInv'
<1> USE DEF Registered
<1> DEFINE a == awaiting[d]
           id == Issued(a)
<1>1. a # 0 /\ Sent(a, d) /\ a \in Nat
  BY DEF IInv, TypeOK, OwnAnswers, Reply
<1>2. requests[a] \in Request
  BY <1>1, RequestFacts DEF IInv, Sent
<1>3. id \in Identity /\ id.cred = a
  BY <1>1, <1>2 DEF Issued, Identity, Request
<1> HIDE DEF a, id
<1>4. /\ mem' = [mem EXCEPT ![d] = id]
      /\ awaiting' = [awaiting EXCEPT ![d] = 0]
      /\ disk' = disk \/ disk' = [disk EXCEPT ![d] = id]
      /\ faults' = faults \/ faults' = faults + 1
  BY DEF a, id, Fault
<1>5. TypeOK'
  BY <1>3, <1>4 DEF IInv, TypeOK, Become, States
<1>6. OwnAnswers'
  BY <1>1, <1>3, <1>4 DEF IInv, TypeOK, OwnAnswers, Sent
<1>7. IdsByName' /\ BurnedByAgent' /\ MarkAfterWrite'
  BY RequestsAlone, KeptFacts
<1> QED  BY <1>5, <1>6, <1>7 DEF IInv

(* A registration is sent: SendRegister.                                   *)
LEMMA SendRegisterIInv ==
  ASSUME IInv, NEW d \in Devices, SendRegister(d)
  PROVE  IInv'
<1> USE DEF SendRegister
<1> DEFINE r == [dev |-> d, stage |-> "redeem", status |-> "open",
                 agent_id |-> IF disk[d] = None THEN 0 ELSE disk[d].id,
                 written |-> 0]
<1>n. PICK n \in Nat : n = Len(requests) + 1
  BY DEF IInv, TypeOK
<1>1. disk[d] = None \/ disk[d] \in Identity
  BY DEF IInv, TypeOK
<1>2. r \in Request /\ r.dev = d /\ r.stage = "redeem"
  BY <1>1 DEF Request, Identity, Stages, Statuses
<1>3. requests' = Append(requests, r) /\ requests \in Seq(Request)
  BY DEF IInv, TypeOK
<1> HIDE DEF r
<1>4. /\ requests' \in Seq(Request) /\ Len(requests) \in Nat /\ Len(requests') = n
      /\ \A i \in 1..Len(requests) : requests'[i] = requests[i]
      /\ requests'[n] = r
  BY <1>2, <1>3, <1>n
<1>5. Kept
  BY <1>4, <1>n DEF Kept
<1>6. TypeOK'
  BY <1>4, <1>n DEF IInv, TypeOK, Become, States
<1>7. OwnAnswers'
  <2>1. Sent(n, d)'
    BY <1>4, <1>2, <1>n DEF Sent
  <2>2. \A e \in Devices, i \in Nat : Sent(i, e) => Sent(i, e)'
    BY <1>4, <1>5, KeptFacts
  <2>3. /\ disk' = disk /\ mem' = mem
        /\ \A e \in Devices : awaiting'[e] = IF e = d THEN n ELSE awaiting[e]
    BY <1>n DEF IInv, TypeOK
  <2>4. \A e \in Devices : /\ disk[e] # None => disk[e].cred \in Nat
                           /\ mem[e] # None => mem[e].cred \in Nat
                           /\ awaiting[e] \in Nat
    BY DEF IInv, TypeOK, Identity
  <2> SUFFICES ASSUME NEW e \in Devices
               PROVE  /\ awaiting'[e] # 0 => Sent(awaiting[e], e)'
                      /\ mem'[e] # None => Sent(mem[e].cred, e)'
                      /\ disk'[e] # None => Sent(disk[e].cred, e)'
    BY Zenon DEF OwnAnswers
  <2>5. /\ awaiting[e] # 0 => Sent(awaiting[e], e)
        /\ mem[e] # None => Sent(mem[e].cred, e)
        /\ disk[e] # None => Sent(disk[e].cred, e)
    BY DEF IInv, OwnAnswers
  <2> QED  BY <2>1, <2>2, <2>3, <2>4, <2>5 DEF Sent
<1>8. MarkAfterWrite'
  BY <1>4, <1>2, <1>n DEF IInv, MarkAfterWrite, Wrote
<1> QED  BY <1>4, <1>5, <1>6, <1>7, <1>8, KeptFacts DEF IInv

(* Every step of a device, and every fault that befalls one.               *)
LEMMA AgentIInv ==
  ASSUME IInv, NEW d \in Devices,
         \/ AgentStep(d) \/ VerifyUnexpected(d) \/ VerifyRetry(d)
         \/ GiveUp(d) \/ Crash(d)
  PROVE  IInv'
<1>0. faults \in Nat /\ (Fault => faults' \in Nat)
  BY DEF IInv, TypeOK, Fault
<1> USE <1>0, DeviceIInv DEF States
<1>1. CASE Boot(d)
  BY <1>1 DEF Boot
<1>2. CASE VerifyOk(d)
  BY <1>2 DEF VerifyOk
<1>3. CASE VerifyRevoked(d)
  BY <1>3 DEF VerifyRevoked
<1>4. CASE SendRegister(d)
  BY <1>4, SendRegisterIInv
<1>5. CASE Registered(d)
  BY <1>5, RegisteredIInv
<1>6. CASE Retry(d)
  BY <1>6 DEF Retry
<1>7. CASE Rejected(d)
  BY <1>7 DEF Rejected
<1>8. CASE Restart(d)
  BY <1>8 DEF Restart, Stop
<1>9. CASE VerifyUnexpected(d)
  BY <1>9 DEF VerifyUnexpected
<1>10. CASE VerifyRetry(d)
  <2>1. Become(d, st[d]) /\ st[d] \in States
    BY <1>10 DEF VerifyRetry, Become, device, IInv, TypeOK
  <2> QED  BY <1>10, <2>1 DEF VerifyRetry, device
<1>11. CASE GiveUp(d)
  BY <1>11 DEF GiveUp
<1>12. CASE Crash(d)
  BY <1>12 DEF Crash, Stop
<1> QED  BY <1>1, <1>2, <1>3, <1>4, <1>5, <1>6, <1>7, <1>8, <1>9, <1>10,
            <1>11, <1>12 DEF AgentStep

-----------------------------------------------------------------------------
(* handleRegister, and the operator.                                       *)

(* Rewriting a row or a request field by field leaves the other fields.    *)
LEMMA RowRewrite ==
  ASSUME NEW a \in Agent, NEW g \in Groups, NEW c \in Nat
  PROVE  LET b == [a EXCEPT !.group = g, !.cred = c]
         IN  b \in Agent /\ b.id = a.id
BY DEF Agent

(* The same for the request that has written its agent.                    *)
LEMMA WrittenRewrite ==
  ASSUME NEW a \in Request, NEW w \in Nat
  PROVE  LET b == [a EXCEPT !.stage = "mark", !.written = w]
         IN  b \in Request /\ b.dev = a.dev /\ b.written = w /\ b.stage = "mark"
BY DEF Request, Stages

(* The upsert by name.                                                     *)
LEMMA UpsertIInv ==
  ASSUME IInv, NEW i \in 1..Len(requests), Upsert(i)
  PROVE  IInv'
<1> DEFINE row == Row(i)
<1>1. /\ requests[i] \in Request /\ requests[i].dev \in Devices
      /\ Name(i) \in Names /\ Group(i) \in Groups
  BY RequestFacts DEF IInv
<1>2. requests \in Seq(Request) /\ Len(requests) \in Nat
  BY DEF IInv, TypeOK
<1>3. /\ row \in Agent /\ row.id \in 1..Len(requests) /\ Name(row.id) = Name(i)
  <2>1. CASE Name(i) \in DOMAIN agents
    <3>1. agents[Name(i)] \in Agent
      BY <2>1 DEF IInv, TypeOK
    <3>2. row = [agents[Name(i)] EXCEPT !.group = Group(i), !.cred = i]
      BY <2>1 DEF Row
    <3>3. row \in Agent /\ row.id = agents[Name(i)].id
      <4>1. i \in Nat
        BY <1>2
      <4> HIDE DEF row
      <4> QED  BY <3>1, <3>2, <1>1, <4>1, RowRewrite, Zenon
    <3> QED  BY <3>3, <2>1 DEF IInv, IdsByName
  <2>2. CASE Name(i) \notin DOMAIN agents
    BY <2>2, <1>1 DEF Row, Agent
  <2> QED  BY <2>1, <2>2
<1>6. agents' = [n \in DOMAIN agents \union {Name(i)} |->
                    IF n = Name(i) THEN row ELSE agents[n]]
  BY DEF Upsert
<1>w. requests' = [requests EXCEPT ![i].stage = "mark", ![i].written = row.id]
  BY DEF Upsert
<1> HIDE DEF row
<1> DEFINE r == [requests[i] EXCEPT !.stage = "mark", !.written = row.id]
<1>4. /\ r \in Request /\ r.dev = requests[i].dev
      /\ r.written = row.id /\ r.stage = "mark"
  <2>1. row.id \in Nat
    BY <1>2, <1>3
  <2> QED  BY <1>1, <2>1, WrittenRewrite, Zenon
<1>5. requests' = [requests EXCEPT ![i] = r]
  BY <1>1, <1>2, <1>w
<1> HIDE DEF r
<1>7. /\ requests' \in Seq(Request) /\ Len(requests') = Len(requests)
      /\ \A j \in 1..Len(requests) : requests'[j] = IF j = i THEN r ELSE requests[j]
  BY <1>2, <1>4, <1>5
<1>8. Kept
  BY <1>2, <1>3, <1>4, <1>7 DEF Kept
<1>9. TypeOK'
  <2>1. DOMAIN agents' \subseteq Names /\ agents' \in [DOMAIN agents' -> Agent]
    BY <1>1, <1>3, <1>6 DEF IInv, TypeOK
  <2> QED  BY <2>1, <1>7 DEF IInv, TypeOK, device, Upsert
<1>10. IdsByName'
  <2>1. \A j \in 1..Len(requests) : j \in 1..Len(requests') /\ Name(j)' = Name(j)
    BY <1>7, <1>4 DEF Name
  <2> SUFFICES ASSUME NEW n \in DOMAIN agents'
               PROVE  /\ agents'[n].id \in 1..Len(requests')
                      /\ NameOf[requests'[agents'[n].id].dev] = n
    BY DEF IdsByName, Name
  <2>2. CASE n = Name(i)
    BY <2>2, <1>3, <1>6, <2>1 DEF Name
  <2>3. CASE n # Name(i)
    <3>1. n \in DOMAIN agents /\ agents'[n] = agents[n]
      BY <2>3, <1>6
    <3> QED  BY <3>1, <2>1 DEF IInv, IdsByName, Name
  <2> QED  BY <2>2, <2>3
<1>11. MarkAfterWrite'
  BY <1>2, <1>3, <1>4, <1>7 DEF IInv, MarkAfterWrite, Wrote
<1>12. OwnAnswers' /\ BurnedByAgent'
  BY <1>7, <1>8, KeptFacts DEF device, Upsert
<1> QED  BY <1>9, <1>10, <1>11, <1>12 DEF IInv

(* The stages that only move the request on.                               *)
LEMMA AdvanceIInv ==
  ASSUME IInv, NEW i \in 1..Len(requests), NEW stage \in Stages \ {"mark"},
         NEW status \in Statuses, Advance(i, stage, status),
         UNCHANGED <<agents, expired, device>>, faults' \in Nat,
         \/ burned' = burned
         \/ burned' = burned \union {Token(i)} /\ requests[i].stage = "mark"
  PROVE  IInv'
<1>1. requests' \in Seq(Request) /\ Kept /\ MarkAfterWrite'
  BY AdvanceFacts
<1>2. Token(i) \in Tokens
  BY RequestFacts DEF IInv
<1>3. TypeOK'
  BY <1>1, <1>2 DEF IInv, TypeOK, device
<1>4. OwnAnswers' /\ IdsByName'
  BY <1>1, KeptFacts DEF device
<1>5. BurnedByAgent'
  <2>1. CASE burned' = burned
    BY <2>1, <1>1, KeptFacts
  <2>2. CASE burned' = burned \union {Token(i)} /\ requests[i].stage = "mark"
    <3>1. \A t \in burned' : \E j \in 1..Len(requests) : Wrote(j) /\ Token(j) = t
      BY <2>2 DEF IInv, BurnedByAgent, MarkAfterWrite
    <3>2. \A j \in 1..Len(requests) :
             /\ j \in 1..Len(requests') /\ Token(j)' = Token(j)
             /\ Wrote(j) => Wrote(j)'
      BY <1>1 DEF Kept, Token, Wrote, IInv, TypeOK
    <3> QED  BY <3>1, <3>2 DEF BurnedByAgent
  <2> QED  BY <2>1, <2>2
<1> QED  BY <1>1, <1>3, <1>4, <1>5 DEF IInv

(* Every step of a handler, and every fault that befalls one.              *)
LEMMA HandlerIInv ==
  ASSUME IInv, NEW i \in 1..Len(requests),
         HandlerStep(i) \/ MarkFails(i) \/ HandlerFails(i)
  PROVE  IInv'
<1>0. faults \in Nat /\ (Fault => faults' \in Nat)
  BY DEF IInv, TypeOK, Fault
<1> USE <1>0, AdvanceIInv DEF Stages, Statuses
<1>1. CASE Redeem(i)
  BY <1>1 DEF Redeem
<1>2. CASE Check(i)
  BY <1>2 DEF Check
<1>3. CASE Upsert(i)
  BY <1>3, UpsertIInv
<1>4. CASE MarkUsed(i)
  BY <1>4 DEF MarkUsed
<1>5. CASE MarkFails(i)
  BY <1>5 DEF MarkFails
<1>6. CASE HandlerFails(i)
  BY <1>6 DEF HandlerFails
<1> QED  BY <1>1, <1>2, <1>3, <1>4, <1>5, <1>6 DEF HandlerStep

(* The operator disables, enables or deletes an agent.                     *)
LEMMA OperatorIInv ==
  ASSUME IInv, NEW n \in Names,
         (\E flag \in BOOLEAN : SetDisabled(n, flag)) \/ DeleteAgent(n)
  PROVE  IInv'
<1>1. /\ UNCHANGED <<burned, expired, requests, device>> /\ faults' \in Nat
      /\ DOMAIN agents' \subseteq DOMAIN agents /\ agents' \in [DOMAIN agents' -> Agent]
      /\ \A m \in DOMAIN agents' : agents'[m].id = agents[m].id
  <2>1. CASE DeleteAgent(n)
    BY <2>1 DEF DeleteAgent, Fault, IInv, TypeOK
  <2>2. CASE \E flag \in BOOLEAN : SetDisabled(n, flag)
    <3>1. PICK flag \in BOOLEAN : SetDisabled(n, flag)
      BY <2>2
    <3>2. \A m \in DOMAIN agents : agents[m] \in Agent
      BY DEF IInv, TypeOK
    <3>3. /\ DOMAIN agents' = DOMAIN agents
          /\ \A m \in DOMAIN agents :
               agents'[m] \in Agent /\ agents'[m].id = agents[m].id
      BY <3>1, <3>2 DEF SetDisabled, Agent
    <3>4. agents' \in [DOMAIN agents' -> Agent]
      BY <3>1, <3>3 DEF SetDisabled
    <3> QED  BY <3>1, <3>3, <3>4 DEF SetDisabled, Fault, IInv, TypeOK
  <2> QED  BY <2>1, <2>2
<1>2. TypeOK'
  BY <1>1 DEF IInv, TypeOK, device
<1>3. IdsByName'
  BY <1>1 DEF IInv, IdsByName, Name
<1> QED  BY <1>1, <1>2, <1>3, RequestsAlone, KeptFacts DEF IInv, device

-----------------------------------------------------------------------------
(* Every step keeps the invariant.                                         *)
LEMMA NextIInv == IInv /\ [Next]_vars => IInv'
<1> SUFFICES ASSUME IInv, [Next]_vars PROVE IInv'
  OBVIOUS
<1>1. CASE UNCHANGED vars
  BY <1>1, RequestsAlone, KeptFacts DEF vars, IInv, TypeOK
<1>2. CASE Next
  <2>1. CASE \E d \in Devices : AgentStep(d)
    BY <2>1, AgentIInv
  <2>2. CASE \E i \in 1..Len(requests) : HandlerStep(i)
    BY <2>2, HandlerIInv
  <2>3. CASE FaultStep
    BY <2>3, AgentIInv, HandlerIInv, OperatorIInv DEF FaultStep
  <2>4. CASE Idle
    BY <2>4, <1>1 DEF Idle
  <2>5. CASE \E t \in Tokens : Expire(t)
    <3>1. PICK t \in Tokens : Expire(t)
      BY <2>5
    <3>2. TypeOK'
      BY <3>1 DEF Expire, IInv, TypeOK, device
    <3> QED  BY <3>1, <3>2, RequestsAlone, KeptFacts DEF Expire, IInv, device
  <2> QED  BY <1>2, <2>1, <2>2, <2>3, <2>4, <2>5 DEF Next
<1> QED  BY <1>1, <1>2

(* The inductive invariant holds in every reachable state, whatever        *)
(* devices share a name or a token and however their requests overlap.     *)
THEOREM EnrolmentInvariance == Spec => []IInv
BY InitIInv, NextIInv, PTL DEF Spec

(* A token is burned only by a registration that wrote its agent.          *)
THEOREM TokenBurnedByAgent == Spec => []BurnedByAgent
<1>1. IInv => BurnedByAgent
  BY DEF IInv
<1> QED  BY <1>1, EnrolmentInvariance, PTL

(* No agent id works from two devices.  An id names the request that       *)
(* created the row and with it the row; the row holds one credential; and  *)
(* the credential names the device whose request it answered.              *)
THEOREM CredentialHasOneHolder == Spec => []OneHolder
<1>1. IInv => OneHolder
  <2> SUFFICES ASSUME IInv, NEW d \in Devices, NEW e \in Devices, d # e,
                      Valid(mem[d]), Valid(mem[e]), mem[d].id = mem[e].id
               PROVE  FALSE
    BY DEF OneHolder
  <2>1. PICK n \in DOMAIN agents : agents[n].cred = mem[d].cred /\ agents[n].id = mem[d].id
    BY DEF Valid
  <2>2. PICK m \in DOMAIN agents : agents[m].cred = mem[e].cred /\ agents[m].id = mem[e].id
    BY DEF Valid
  <2>3. n = m
    BY <2>1, <2>2 DEF IInv, IdsByName
  <2>4. Sent(mem[d].cred, d) /\ Sent(mem[e].cred, e)
    BY DEF Valid, IInv, OwnAnswers
  <2> QED  BY <2>1, <2>2, <2>3, <2>4 DEF Sent
<1> QED  BY <1>1, EnrolmentInvariance, PTL

(* An agent keeps its id through every reclaim of its name.                *)
THEOREM HistoryStaysAttached == Spec => HistoryAttached
<1> DEFINE Keeps == \A n \in DOMAIN agents :
                       n \in DOMAIN agents' => agents'[n].id = agents[n].id
<1>1. IInv /\ [Next]_vars => [Keeps]_vars
  <2> SUFFICES ASSUME IInv, Next PROVE Keeps
    OBVIOUS
  <2>1. CASE agents' = agents
    BY <2>1
  <2>2. ASSUME NEW i \in 1..Len(requests), Upsert(i) PROVE Keeps
    <3>1. \A n \in DOMAIN agents : agents[n] \in Agent
      BY DEF IInv, TypeOK
    <3>2. Name(i) \in DOMAIN agents => Row(i).id = agents[Name(i)].id
      BY <3>1 DEF Row, Agent
    <3>3. agents' = [n \in DOMAIN agents \union {Name(i)} |->
                       IF n = Name(i) THEN Row(i) ELSE agents[n]]
      BY <2>2 DEF Upsert
    <3> QED  BY <3>2, <3>3
  <2>3. ASSUME NEW n \in Names, NEW flag \in BOOLEAN, SetDisabled(n, flag) PROVE Keeps
    <3>1. \A m \in DOMAIN agents : agents[m] \in Agent
      BY DEF IInv, TypeOK
    <3> QED  BY <2>3, <3>1 DEF SetDisabled, Agent
  <2>4. ASSUME NEW n \in Names, DeleteAgent(n) PROVE Keeps
    BY <2>4 DEF DeleteAgent
  <2> HIDE DEF Keeps
  <2> QED  BY <2>1, <2>2, <2>3, <2>4
           DEF Next, AgentStep, HandlerStep, FaultStep, Idle, Boot, VerifyOk,
               VerifyRevoked, SendRegister, Registered, Retry, Rejected, Restart,
               Stop, Redeem, Check, MarkUsed, VerifyUnexpected, VerifyRetry,
               GiveUp, Crash, MarkFails, HandlerFails, Expire, vars
<1> QED  BY <1>1, EnrolmentInvariance, PTL DEF Spec, HistoryAttached
=============================================================================
