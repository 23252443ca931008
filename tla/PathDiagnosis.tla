--------------------------- MODULE PathDiagnosis ----------------------------
(***************************************************************************)
(* What the agent concludes from a router's traceroute and IP scan         *)
(* (agent/src/discovery/tools.rs).  An address is a model value, a time is *)
(* in milliseconds, a share in percent; the wording of a finding is left   *)
(* out, what it names is kept.  A hop that did not answer has a Blank       *)
(* address.                                                                *)
(***************************************************************************)
EXTENDS SurveyFindings

CONSTANT Cgnat      \* the addresses inside 100.64.0.0/10

LATENCY_STEP_MS == 30
REAL_LOSS_PCT == 2

-----------------------------------------------------------------------------
(* RouterOS repeats the whole answer in sections, one per round, and only  *)
(* the last is complete.  A row without a number is in section 0.          *)
last_section(rows) ==
    LET newest == Max({rows[i].section : i \in 1..Len(rows)})
    IN  IF rows = << >> THEN rows
        ELSE Where(rows, LAMBDA r : r.section = newest)

(* The position within the section is the distance.                        *)
parse_traceroute(rows) ==
    LET last == last_section(rows)
    IN  [i \in 1..Len(last) |->
           [ttl |-> i, address |-> last[i].address,
            loss_pct |-> last[i].loss, avg_ms |-> last[i].avg]]

responded(h) == h.address # Blank /\ h.loss_pct < 100

-----------------------------------------------------------------------------
(* The steps between neighbouring hops that answered, worth naming and     *)
(* still there at the destination.                                         *)
(* Mutation: the destination is not looked at.                             *)
persists_Anywhere(h, final_rtt) == TRUE

persists(h, final_rtt) == h.avg_ms <= final_rtt + LATENCY_STEP_MS

Steps(hs) ==
    {i \in 1..(Len(hs) - 1) :
        /\ hs[i + 1].avg_ms - hs[i].avg_ms >= LATENCY_STEP_MS
        /\ persists(hs[i + 1], Last(hs).avg_ms)}

(* The largest step, and of equal ones the first.                          *)
latency_step(hs, reached) ==
    LET rise(i) == hs[i + 1].avg_ms - hs[i].avg_ms
        worst == CHOOSE i \in Steps(hs) : \A j \in Steps(hs) :
                    rise(j) < rise(i) \/ (rise(j) = rise(i) /\ i <= j)
    IN  IF ~reached \/ Steps(hs) = {} THEN << >>
        ELSE <<Finding("path.latency_step",
                       IF rise(worst) >= 100 THEN "warning" ELSE "info",
                       <<hs[worst].ttl, hs[worst + 1].ttl>>)>>

(* The hop loss is said to start at.                                       *)
onset(hs) ==
    hs[Min({i \in 1..Len(hs) : hs[i].loss_pct >= REAL_LOSS_PCT})]

path_loss(hs, reached) ==
    IF ~reached \/ Last(hs).loss_pct < REAL_LOSS_PCT THEN << >>
    ELSE <<Finding("path.loss",
                   IF Last(hs).loss_pct >= 10 THEN "critical" ELSE "warning",
                   <<onset(hs).ttl>>)>>

routing_loop(hs) ==
    LET twice == {h \in ToSet(hs) :
                    \E g \in ToSet(hs) : g.address = h.address /\ g.ttl # h.ttl}
    IN  Naming("path.routing_loop", "critical", {h.address : h \in twice})

cgnat(hs) ==
    Naming("path.cgnat", "info",
           {h.ttl : h \in Filter(hs, LAMBDA h : h.address \in Cgnat)})

analyse_path(hops, target) ==
    LET hs == Where(hops, responded)
        reached == Last(hs).address = target
        unreachable == Finding("path.unreachable", "critical", <<Last(hs).ttl>>)
    IN  IF hops = << >> THEN << >>
        ELSE IF hs = << >>
        THEN <<Finding("path.no_response", "critical", << >>)>>
        ELSE (IF reached THEN << >> ELSE <<unreachable>>)
               \o latency_step(hs, reached) \o path_loss(hs, reached)
               \o routing_loop(hs) \o cgnat(hs)

-----------------------------------------------------------------------------
(* The scan.  A MAC address is a device and the case it is written in; the *)
(* lease table is compared without regard to case, the scan's own rows are *)
(* grouped as they are written.                                            *)
parse_ip_scan(rows) ==
    Where(last_section(rows), LAMBDA r : r.address # Blank)

mac_multiple_addresses(hosts) ==
    {h.mac : h \in {x \in ToSet(hosts) :
        x.mac # NoMac /\ Cardinality({i \in 1..Len(hosts) :
                                        hosts[i].mac = x.mac}) > 1}}

analyse_scan(hosts, leases) ==
    LET unmanaged == {h \in ToSet(hosts) :
            h.mac # NoMac /\ ~\E l \in ToSet(leases) : same_mac(l.mac, h.mac)}
    IN  Naming("scan.mac_multiple_addresses", "warning",
               mac_multiple_addresses(hosts))
        \o (IF leases = << >> THEN << >>
            ELSE Naming("scan.unmanaged_host", "info",
                        {h.mac : h \in unmanaged}))

-----------------------------------------------------------------------------
(* What a traceroute's findings are worth.                                 *)
Coded(found, code) == Where(found, LAMBDA f : f.code = code)

(* A step is real when nothing behind it is faster than its far end.  (Of  *)
(* 5, 80 and 40 ms neither rise is: a far end slow to answer for itself    *)
(* hides the step it stands on, in the code as here.)                      *)
RealStep(hs, i) ==
    /\ hs[i + 1].avg_ms - hs[i].avg_ms >= LATENCY_STEP_MS
    /\ \A j \in (i + 1)..Len(hs) : hs[j].avg_ms >= hs[i + 1].avg_ms

(* The hop from which on every hop loses.                                  *)
Lossless(hs) == {i \in 1..Len(hs) : hs[i].loss_pct < REAL_LOSS_PCT}
Lasting(hs) == Max(Lossless(hs) \union {0}) + 1

(* Of a path that reaches its target: a step in latency whose far end      *)
(* nothing behind undercuts is never missed, the step named is at least as *)
(* large, and its far end is no slower than the target by a step; loss is  *)
(* reported exactly when the target suffers it, and said to start at the   *)
(* first hop that loses, which is the one it lasts from unless a hop       *)
(* before that one loses too.  (The code's comment says the hop where it   *)
(* appears and stays: of 5, 0 and 5 percent it names the first hop.)  Of a *)
(* path that does not, something is reported, and nothing is said of       *)
(* latency or loss (analyse_path).                                         *)
PathSound(rows, target) ==
    LET hops == parse_traceroute(rows)
        hs == Where(hops, responded)
        found == analyse_path(hops, target)
        step == Coded(found, "path.latency_step")
        loss == Coded(found, "path.loss")
        rtt(ttl) == hops[ttl].avg_ms
    IN  IF hs = << >> \/ Last(hs).address # target
        THEN step = << >> /\ loss = << >> /\ (hops # << >> => found # << >>)
        ELSE /\ \A i \in 1..(Len(hs) - 1) : RealStep(hs, i) =>
                  step # << >> /\ rtt(step[1].names[2]) - rtt(step[1].names[1])
                                    >= hs[i + 1].avg_ms - hs[i].avg_ms
             /\ step # << >> =>
                  rtt(step[1].names[2]) - Last(hs).avg_ms <= LATENCY_STEP_MS
             /\ loss # << >> <=> Last(hs).loss_pct >= REAL_LOSS_PCT
             /\ loss # << >> =>
                  \E k \in 1..Lasting(hs) : /\ loss[1].names[1] = hs[k].ttl
                                            /\ k \notin Lossless(hs)
                                            /\ 1..(k - 1) \subseteq Lossless(hs)

(* The rounds before the last leave no trace: the path that is diagnosed   *)
(* and the hosts that are listed are those of a single round.              *)
OneRound(rows) ==
    LET hops == parse_traceroute(rows)
    IN  \E s \in {rows[i].section : i \in 1..Len(rows)} \union {0} :
          /\ \A i \in 1..Len(rows) : rows[i].section <= s
          /\ Len(hops) = Cardinality({i \in 1..Len(rows) : rows[i].section = s})
=============================================================================
