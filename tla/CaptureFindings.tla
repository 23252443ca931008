--------------------------- MODULE CaptureFindings --------------------------
(***************************************************************************)
(* What the agent concludes from the router's sniffers and from its        *)
(* bandwidth test: the parsers and rules of agent/src/discovery/capture.rs *)
(* and agent/src/routeros/btest.rs.                                        *)
(*                                                                         *)
(* A captured frame stands for "copies" equal ones, so that the thresholds *)
(* on the number of frames are met by short sequences.  A transmitter is a *)
(* natural number, in the order of its name, and 0 where it has none.      *)
(***************************************************************************)
EXTENDS SurveyFindings

CONSTANT Multicast  \* the broadcast and multicast addresses

MAX_CAPTURE == 60
MAX_REST_DURATION == 45
CPU_SATURATED_PCT == 90
CPU_BUSY_PCT == 70
LOW_RATE_MBPS == 12
MIN_DATA_FRAMES == 20

-----------------------------------------------------------------------------
(* A length of time the router is asked for, and whether it was cut.       *)
clamp(want) ==
    [secs |-> Min({Max({want, 1}), MAX_CAPTURE}), cut |-> want > MAX_CAPTURE]

busiest(h) == Max({h.tx_rate_bps, h.rx_rate_bps})

(* One host is ahead of another: busier, or as busy with a larger total.   *)
Outdoes(g, h) ==
    \/ busiest(g) > busiest(h)
    \/ busiest(g) = busiest(h) /\ g.total_bytes > h.total_bytes

(* A host goes behind every one it does not outdo.                         *)
Placed(ranked, h) ==
    InsertAt(ranked, Cardinality({i \in DOMAIN ranked : ~Outdoes(h, ranked[i])}) + 1, h)

(* Mutation: as they came.                                                 *)
busiest_first_AsTheyCame(hosts) == hosts

(* Busiest first, the larger total first among equals, else as they came.  *)
busiest_first(hosts) ==
    LET sorted[k \in 0..Len(hosts)] ==
            IF k = 0 THEN << >> ELSE Placed(sorted[k - 1], hosts[k])
    IN  sorted[Len(hosts)]

(* A rate is "tx/rx"; a half that does not parse is zero.                  *)
parse_hosts(rows) ==
    LET host(r) == [address |-> r.address,
                    tx_rate_bps |-> num_of(r.rate[1]),
                    rx_rate_bps |-> num_of(r.rate[2]),
                    total_bytes |-> num_of(r.total[1]) + num_of(r.total[2])]
    IN  busiest_first(Where([i \in 1..Len(rows) |-> host(rows[i])],
                                LAMBDA h : h.address # Blank))

parse_frames(rows) == Where(rows, LAMBDA r : r.src # 0 \/ r.dst # Blank)

-----------------------------------------------------------------------------
is_broadcastish(address) == address \in Multicast

analyse_hosts(hosts) ==
    LET total == TotalOf(hosts, busiest)
        top == hosts[1]
        bum == TotalOf(Where(hosts, LAMBDA h : is_broadcastish(h.address)),
                     busiest)
    IN  IF hosts = << >> \/ total = 0 THEN << >>
        ELSE (IF 2 * busiest(top) >= total /\ Len(hosts) > 1
              THEN <<Finding("capture.dominant_host",
                             IF 10 * busiest(top) >= 8 * total THEN "warning"
                             ELSE "info", {top.address})>>
              ELSE << >>)
             \o (IF bum > 0 /\ 10 * bum >= 3 * total
                 THEN <<Finding("capture.broadcast_storm_source", "critical",
                                {h.address : h \in Filter(hosts, LAMBDA h :
                                    is_broadcastish(h.address))})>>
                 ELSE << >>)

-----------------------------------------------------------------------------
copies(frame) == frame.copies

is_broadcast(f) == f.dst = "FF:FF:FF:FF:FF:FF"

(* Only data frames: the others are slow by design.                        *)
rate_is_diagnostic(f) == f.frame_type = "data"

sent_by(frames, src) ==
    TotalOf(Where(frames, LAMBDA f : f.src = src), copies)

analyse_wireless(frames) ==
    LET n == TotalOf(frames, copies)
        crc == TotalOf(Where(frames, LAMBDA f : f.crc_error), copies)
        data == Where(frames, rate_is_diagnostic)
        d == TotalOf(data, copies)
        low == Where(data, LAMBDA f :
                    f.rate_mbps > 0 /\ f.rate_mbps <= LOW_RATE_MBPS)
        bcast == TotalOf(Where(data, is_broadcast), copies)
        talkers == {f.src : f \in Filter(frames, LAMBDA f : f.src # 0)}
        loudest == CHOOSE t \in talkers : \A u \in talkers :
                      \/ sent_by(frames, u) < sent_by(frames, t)
                      \/ sent_by(frames, u) = sent_by(frames, t) /\ t <= u
        kinds == {f.frame_type : f \in ToSet(frames)} \ {Blank}
    IN  IF n = 0
        THEN <<Finding("capture.wireless_silent", "info", {})>>
        ELSE (IF 100 * crc >= 15 * n
              THEN <<Finding("capture.wifi_crc_errors",
                             IF 10 * crc >= 3 * n THEN "critical" ELSE "warning",
                             {})>>
              ELSE << >>)
             \o (IF d >= MIN_DATA_FRAMES /\ 10 * TotalOf(low, copies) >= 4 * d
                 THEN <<Finding("capture.wifi_low_rate_frames", "warning",
                                {f.src : f \in ToSet(low)})>>
                 ELSE << >>)
             \o (IF Cardinality(talkers) > 1 /\ 2 * sent_by(frames, loudest) >= n
                 THEN <<Finding("capture.wifi_dominant_transmitter", "info",
                                {loudest})>>
                 ELSE << >>)
             \o Naming("capture.wifi_frame_mix", "info", kinds)
             \o (IF d >= MIN_DATA_FRAMES /\ 10 * bcast >= 3 * d
                 THEN <<Finding("capture.wifi_broadcast_heavy", "warning", {})>>
                 ELSE << >>)

analyse_capture(cap) ==
    IF cap.used_wireless_sniffer THEN analyse_wireless(cap.frames)
    ELSE analyse_hosts(cap.hosts)

-----------------------------------------------------------------------------
(* The bandwidth test.  The seconds RouterOS is asked for stay clear of    *)
(* its limit on a REST command.                                            *)
to_request(want) ==
    [secs |-> Min({Max({want, 1}), MAX_REST_DURATION}),
     cut |-> want > MAX_REST_DURATION]

Reported(text) == IF text.ok THEN {Min({text.n, 100})} ELSE {}

(* Mutation: only the nearer router's load is looked at.                   *)
worst_cpu_Local(row) == Max(Reported(row.local_cpu) \union {0})

worst_cpu(row) ==
    Max(Reported(row.local_cpu) \union Reported(row.remote_cpu) \union {0})

cpu_verdict(load) ==
    IF load >= CPU_SATURATED_PCT THEN "router_limited"
    ELSE IF load >= CPU_BUSY_PCT THEN "router_contributing"
    ELSE "link_limited"

(* A status is known by which of the words the agent looks for it holds.   *)
Words == {"connect", "done"}

(* A refusal comes in the shape of a result.                               *)
Refusal(rows) ==
    Len(rows) = 1 /\ "connect" \in rows[1].status /\ "done" \notin rows[1].status

(* The last section is the result.                                         *)
parse_btest(rows, cfg) ==
    IF rows = << >> \/ Refusal(rows)
    THEN [ok |-> FALSE]
    ELSE LET last == Last(rows)
         IN  [ok |-> TRUE, tx_bps |-> last.tx_average, rx_bps |-> last.rx_average,
              verdict |-> cpu_verdict(worst_cpu(last)),
              lost |-> IF cfg.protocol = "udp" THEN last.lost ELSE Blank,
              notes |-> (IF to_request(cfg.duration_s).cut THEN {"cut"} ELSE {})
                        \union (IF cfg.direction = "both" THEN {"contend"} ELSE {})
                        \union (IF cfg.protocol = "udp" THEN {"loss_expected"}
                                ELSE {})]
=============================================================================
