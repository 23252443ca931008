--------------------------- MODULE SurveyFindings ---------------------------
(***************************************************************************)
(* What the agent concludes from a look around its host router: the        *)
(* parsers of agent/src/discovery/collect.rs, which turn RouterOS rows     *)
(* into a snapshot, and the rules of agent/src/discovery/findings.rs,      *)
(* which turn the snapshot into findings.                                  *)
(*                                                                         *)
(* RouterOS answers in text.  A number is [ok, n]: whether its head parses *)
(* and as what.  A duration is the sequence of <<number, unit>> it is      *)
(* written as.  A MAC address is [device, upper]: which device and the     *)
(* case it is written in.  A finding keeps its code, its severity and what *)
(* it names.                                                               *)
(***************************************************************************)
EXTENDS Tables, FiniteSetsExt, SequencesExt

CONSTANT Blank      \* an absent or empty text

WEAK_SIGNAL_DBM == -75
STRONG_SIGNAL_DBM == -60
SLOW_RATE_BPS == 24000000
BROADCAST_STORM_PPS == 500
SIGNIFICANT_AP_DBM == -82
IDLE_AFTER_S == 30
MIN_CLIENTS_FOR_CONTENTION == 2
RATE_SAMPLE == 2

Filter(s, Test(_)) == {r \in ToSet(s) : Test(r)}

-----------------------------------------------------------------------------
(* The field helpers.                                                      *)
num_of(text) == IF text.ok THEN text.n ELSE 0

bool_of(text) == text \in {"true", "yes"}

first_non_empty(row, keys) ==
    LET given == Where(keys, LAMBDA k : row[k] # Blank)
    IN  IF given = << >> THEN Blank ELSE row[given[1]]

NoMac == [device |-> Blank, upper |-> TRUE]

(* Leases are compared without regard to the case a MAC is written in.     *)
(* Mutation: the case matters.                                             *)
same_mac_Exact(m, n) == m = n

same_mac(m, n) == m.device = n.device

(* A bare number is already in bits per second, a suffix scales it.        *)
parse_legacy_rate(text) ==
    text.n * CASE text.unit = "gbps" -> 1000000000
               [] text.unit = "mbps" -> 1000000
               [] text.unit = "kbps" -> 1000
               [] OTHER -> 1

UnitSeconds == [w |-> 604800, d |-> 86400, h |-> 3600, m |-> 60, s |-> 1]

(* An unknown unit counts for nothing.                                     *)
parse_uptime(text) ==
    TotalOf(text, LAMBDA part : IF part[2] \in DOMAIN UnitSeconds
                                THEN part[1] * UnitSeconds[part[2]] ELSE 0)

(* The addresses of a pool: a bare address is a pool of one, a range that  *)
(* does not parse or runs backwards counts for nothing.                    *)
count_range(parts) ==
    TotalOf(parts, LAMBDA p : IF p.bare THEN 1
                              ELSE IF p.ok /\ p.hi >= p.lo THEN p.hi - p.lo + 1
                              ELSE 0)

-----------------------------------------------------------------------------
(* The parsers.                                                            *)
parse_arp(rows) ==
    LET entry(r) == [address |-> r.address, mac |-> r.mac,
                     from_dhcp |-> bool_of(r.dhcp),
                     complete |-> bool_of(r.complete)]
    IN  Where([i \in 1..Len(rows) |-> entry(rows[i])],
                  LAMBDA e : e.address # Blank)

(* The live binding is preferred to the configured reservation.            *)
parse_leases(rows) ==
    LET mac(r) == IF r.active_mac # NoMac THEN r.active_mac ELSE r.mac
        lease(r) == [address |-> first_non_empty(r, <<"active_address", "address">>),
                     mac |-> mac(r),
                     active |-> r.status = "bound" \/ r.active_address # Blank]
    IN  Where([i \in 1..Len(rows) |-> lease(rows[i])],
                  LAMBDA l : l.mac # NoMac)

parse_wifi_clients(rows) ==
    LET client(r) == [mac |-> r.mac, interface |-> r.interface, band |-> r.band,
                      signal_dbm |-> num_of(r.signal),
                      tx_rate_bps |-> num_of(r.tx_rate),
                      last_activity_s |-> parse_uptime(r.last_activity)]
    IN  Where([i \in 1..Len(rows) |-> client(rows[i])],
                  LAMBDA c : c.mac # NoMac)

parse_legacy_clients(rows) ==
    LET client(r) == [mac |-> r.mac, interface |-> r.interface, band |-> r.band,
                      signal_dbm |-> num_of(r.signal),
                      tx_rate_bps |-> parse_legacy_rate(r.tx_rate),
                      last_activity_s |-> parse_uptime(r.last_activity)]
    IN  Where([i \in 1..Len(rows) |-> client(rows[i])],
                  LAMBDA c : c.mac # NoMac)

(* A radio whose frequency is missing or zero keeps none (0).              *)
parse_wifi_radios(rows) ==
    LET radio(r) == [name |-> r.name, frequency_mhz |-> num_of(r.frequency),
                     band |-> first_non_empty(r, <<"channel_band", "band">>)]
    IN  Where([i \in 1..Len(rows) |-> radio(rows[i])],
                  LAMBDA r : r.name # Blank)

parse_legacy_radios(rows) ==
    LET radio(r) == [name |-> r.name, frequency_mhz |-> num_of(r.frequency),
                     band |-> r.band]
    IN  Where([i \in 1..Len(rows) |-> radio(rows[i])],
                  LAMBDA r : r.name # Blank)

(* Counters are read twice; one that went backwards is a rate of zero.     *)
(* Mutation: the distance between the readings, whichever way it went.     *)
saturating_sub_Distance(b, a) == IF b >= a THEN b - a ELSE a - b

saturating_sub(b, a) == IF b >= a THEN b - a ELSE 0

(* Only an interface that both readings name has a rate.                   *)
interface_rates(first, second) ==
    LET delta(b, key) ==
            LET a == CHOOSE x \in first : x.name = b.name
            IN  saturating_sub(b[key], a[key]) \div RATE_SAMPLE
    IN  {[name |-> b.name, running |-> bool_of(b.running),
          rx_broadcast_per_s |-> delta(b, "rx_broadcast"),
          rx_multicast_per_s |-> delta(b, "rx_multicast")] :
            b \in {x \in second : x.name # Blank
                                  /\ \E y \in first : y.name = x.name}}

(* No pool with an address in it is no known pool (0).                     *)
pool_size(pools) == TotalOf(pools, count_range)

(* Snapshot::default, where nothing answered.                              *)
Snapshot ==
    [clients |-> << >>, radios |-> << >>, neighbour_aps |-> << >>,
     arp |-> << >>, leases |-> << >>, interfaces |-> {}, dhcp_pool_size |-> 0]

-----------------------------------------------------------------------------
(* The rules.                                                              *)
Finding(code, severity, names) ==
    [code |-> code, severity |-> severity, names |-> names]

(* One finding when anything is named.                                     *)
Naming(code, severity, names) ==
    IF names = {} THEN << >> ELSE <<Finding(code, severity, names)>>

is_2ghz(c) == c.band = "2ghz"

(* An idle client's rate is that of whatever it sent last.                 *)
rate_is_meaningful(c) == c.last_activity_s <= IDLE_AFTER_S

Macs(clients) == {c.mac : c \in clients}

slow_client_airtime(s) ==
    LET on(i) == Where(s.clients,
                    LAMBDA c : c.interface = i /\ rate_is_meaningful(c))
        slow(i) == Where(on(i), LAMBDA c : c.tx_rate_bps <= SLOW_RATE_BPS)
        fastest(i) == Max({c.tx_rate_bps : c \in ToSet(on(i))})
        slowest(i) == Min({c.tx_rate_bps : c \in ToSet(slow(i))})
        serious(i) == \/ 4 * Len(slow(i)) >= Len(on(i))
                      \/ slowest(i) = 0 \/ fastest(i) \div 20 >= slowest(i)
        troubled == {i \in {c.interface : c \in ToSet(s.clients)} :
                        /\ Len(on(i)) >= MIN_CLIENTS_FOR_CONTENTION
                        /\ slow(i) # << >>}
    IN  SetToSeq({Finding("wifi.slow_client_airtime",
                          IF serious(i) THEN "critical" ELSE "warning",
                          Macs(ToSet(slow(i)))) : i \in troubled})

weak_signal_clients(s) ==
    Naming("wifi.weak_signal", "warning",
           Macs(Filter(s.clients, LAMBDA c : c.signal_dbm < WEAK_SIGNAL_DBM)))

rate_signal_mismatch(s) ==
    Naming("wifi.rate_signal_mismatch", "warning",
           Macs(Filter(s.clients, LAMBDA c :
                    /\ rate_is_meaningful(c)
                    /\ c.signal_dbm >= STRONG_SIGNAL_DBM
                    /\ c.tx_rate_bps <= SLOW_RATE_BPS)))

band_steering_opportunity(s) ==
    IF ~\E r \in ToSet(s.radios) : r.band = "5ghz" THEN << >>
    ELSE Naming("wifi.band_steering_opportunity", "info",
                Macs(Filter(s.clients, LAMBDA c :
                        is_2ghz(c) /\ c.signal_dbm >= STRONG_SIGNAL_DBM)))

co_channel_contention(s) ==
    LET contenders(r) == Where(s.neighbour_aps, LAMBDA n :
                            /\ n.frequency_mhz = r.frequency_mhz
                            /\ n.signal_dbm >= SIGNIFICANT_AP_DBM)
        shared == Where(s.radios, LAMBDA r :
                    r.frequency_mhz > 0 /\ Len(contenders(r)) >= 2)
    IN  [i \in 1..Len(shared) |->
            Finding("wifi.co_channel_contention",
                    IF Len(contenders(shared[i])) >= 4 THEN "critical"
                    ELSE "warning",
                    {shared[i].name})]

broadcast_storm(s) ==
    SetToSeq({Finding("network.broadcast_storm", "critical", {i.name}) :
        i \in {x \in s.interfaces :
                /\ x.running
                /\ x.rx_broadcast_per_s + x.rx_multicast_per_s
                     >= BROADCAST_STORM_PPS}})

duplicate_addresses(s) ==
    LET entries == Filter(s.arp, LAMBDA e : e.complete)
        macs(a) == {e.mac : e \in {x \in entries : x.address = a}}
    IN  SetToSeq({Finding("network.duplicate_address", "critical", {a}) :
            a \in {x \in {e.address : e \in entries} :
                    Cardinality(macs(x)) > 1}})

unleased_devices(s) ==
    IF s.leases = << >> THEN << >>
    ELSE Naming("network.unleased_device", "info",
                {e.address : e \in Filter(s.arp, LAMBDA e :
                    e.complete /\ ~e.from_dhcp
                    /\ ~\E l \in ToSet(s.leases) :
                            same_mac(l.mac, e.mac))})

dhcp_pool_pressure(s) ==
    LET active == Len(Where(s.leases, LAMBDA l : l.active))
        size == s.dhcp_pool_size
    IN  IF size = 0 \/ 100 * active < 85 * size THEN << >>
        ELSE <<Finding("network.dhcp_pool_pressure",
                       IF 100 * active >= 95 * size THEN "critical"
                       ELSE "warning", {})>>

(* Every rule, most severe first; the sort is stable.                      *)
most_severe_first(found) ==
    LET of(severity) == Where(found, LAMBDA f : f.severity = severity)
    IN  of("critical") \o of("warning") \o of("info")

analyse(s) ==
    most_severe_first(
        slow_client_airtime(s) \o weak_signal_clients(s)
        \o rate_signal_mismatch(s) \o band_steering_opportunity(s)
        \o co_channel_contention(s) \o broadcast_storm(s)
        \o duplicate_addresses(s) \o unleased_devices(s)
        \o dhcp_pool_pressure(s))
=============================================================================
