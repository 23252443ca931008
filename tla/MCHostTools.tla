---------------------------- MODULE MCHostTools -----------------------------
(* The tasks and the answers TLC runs HostTools on.                        *)
EXTENDS HostTools

Num(n) == [ok |-> TRUE, n |-> n]
Junk == [ok |-> FALSE, n |-> 0]
Mac(d, u) == [device |-> d, upper |-> u]

Template ==
    [kind |-> "trace", front |-> "agent", router |-> TRUE, target |-> "t",
     direction |-> "both", protocol |-> "udp", duration_s |-> 10,
     wireless |-> FALSE, interface |-> Blank]

MCTasks ==
    LET trace == Template
        btest == [Template EXCEPT !.kind = "btest", !.duration_s = 50]
        capture == [Template EXCEPT !.kind = "capture"]
        long == [capture EXCEPT !.duration_s = 90]
        radio == [capture EXCEPT !.wireless = TRUE]
        wifi == [Template EXCEPT !.kind = "wifi"]
        cli(t) == [t EXCEPT !.front = "cli"]
    IN  {trace, cli(trace), [trace EXCEPT !.target = Blank],
         [trace EXCEPT !.router = FALSE],
         btest, cli(btest), [btest EXCEPT !.direction = Blank],
         capture, long, cli(capture), radio, [radio EXCEPT !.interface = "wlan1"],
         wifi, cli(wifi), cli([Template EXCEPT !.kind = "scan"])}

Hops == [section : {1}, address : {"a", "b", "t"}, loss : {0, 5},
         avg : {5, 40, 80}]
        \union [section : {1}, address : {Blank}, loss : {100}, avg : {0}]

Traces ==
    LET hop(a, l, r) == [section |-> 1, address |-> a, loss |-> l, avg |-> r]
    IN  {<< >>, <<hop(Blank, 100, 0)>>}
        \union {<<h, g, hop("t", 0, 40)>> : h \in Hops, g \in Hops}
        \union {<<h, g, hop("t", 5, 80)>> : h \in Hops, g \in Hops}
        \union {<<[h EXCEPT !.section = 0], h, g>> : h \in Hops, g \in Hops}

Client(d, rate, signal, quiet, text, band) ==
    [mac |-> Mac(d, TRUE), interface |-> "wlan1", band |-> band,
     signal |-> signal, tx_rate |-> rate, last_activity |-> text,
     quiet_for |-> quiet]

(* The same clients as either stack writes them.                           *)
Clients(rate(_)) ==
    LET busy(d, r) == Client(d, rate(r), Num(-50), 6, <<<<6, "s">>>>, "5ghz")
        slow(d) == Client(d, rate(6), Num(-80), 30, <<<<30, "s">>>>, "2ghz")
        idle(d) == Client(d, rate(6), Junk, 86401, <<<<1, "d">>, <<1, "s">>>>, "2ghz")
    IN  {<< >>, <<busy("d1", 300), slow("d2"), idle("d3")>>,
         <<busy("d1", 24), idle("d2")>>, <<[slow("d1") EXCEPT !.mac = NoMac]>>}

Lease(mac, status) ==
    [active_address |-> Blank, address |-> "10.0.0.9", active_mac |-> NoMac,
     mac |-> mac, status |-> status]

Arp(a, mac, complete) ==
    [address |-> a, mac |-> mac, dhcp |-> "false", complete |-> complete]

Radio(band) ==
    [name |-> "wlan1", frequency |-> Num(2412), channel_band |-> Blank,
     band |-> band]

Load(status, near, far) ==
    [status |-> status, local_cpu |-> near, remote_cpu |-> far,
     tx_average |-> Num(900), rx_average |-> Junk, lost |-> Num(3)]

Host(a, tx, rx) ==
    [address |-> a, rate |-> <<tx, rx>>, total |-> <<tx, rx>>]

HostRows == {Host("a", Num(1), Num(4)), Host("b", Num(9), Junk),
             Host("m", Num(4), Num(0)), Host(Blank, Num(20), Num(20))}

Frame(src, dst, type, rate, crc, n) ==
    [src |-> src, dst |-> dst, frame_type |-> type, rate_mbps |-> rate,
     crc_error |-> crc, copies |-> n]

FrameRows == {Frame(1, "FF:FF:FF:FF:FF:FF", "beacon", 6, FALSE, 20),
              Frame(2, "d1", "data", 6, FALSE, 10),
              Frame(3, "FF:FF:FF:FF:FF:FF", "data", 54, TRUE, 10),
              Frame(0, "d2", Blank, 0, FALSE, 1), Frame(0, Blank, Blank, 0, TRUE, 1)}

Addresses(lo, hi) == [bare |-> FALSE, ok |-> TRUE, lo |-> lo, hi |-> hi]

Ok == {<< >>}

MCAnswers ==
    [identity |-> Ok, set |-> Ok, start |-> Ok, stop |-> Ok, protocol |-> Ok,
     wsniffer |-> Ok, wset |-> Ok, sniff |-> Ok,
     traceroute |-> Traces,
     bandwidth |-> UNION {[1..n -> {Load(w, Junk, Junk) : w \in SUBSET Words}
                                   \union {Load({"done"}, l, r) :
                                      l \in {Num(20), Num(95)},
                                      r \in {Junk, Num(70), Num(300)}}] : n \in 0..2},
     host |-> UNION {[1..n -> HostRows] : n \in 0..3},
     packet |-> UNION {[1..n -> FrameRows] : n \in 0..3},
     pick |-> {<< >>, <<[name |-> "wlan1", running |-> "false"],
                        [name |-> "wlan2", running |-> "true"]>>},
     arp |-> {<<Arp("10.0.0.1", Mac("d1", FALSE), "true"),
                Arp("10.0.0.1", Mac("d2", TRUE), "yes"),
                Arp(Blank, Mac("d3", TRUE), "true")>>,
              <<Arp("10.0.0.2", Mac("d1", FALSE), "true"),
                Arp("10.0.0.3", Mac("d4", TRUE), "false")>>},
     lease |-> {<< >>, <<Lease(Mac("d1", TRUE), "bound"),
                         Lease(NoMac, "bound"),
                         [Lease(Mac("d5", TRUE), "waiting") EXCEPT
                             !.active_address = "10.0.0.7"]>>},
     wifi_table |-> Clients(LAMBDA r : Num(r * 1000000)),
     wireless_table |-> Clients(LAMBDA r : [n |-> r, unit |-> "mbps"]),
     wifi |-> {<<Radio("5ghz"), [Radio("2ghz") EXCEPT !.name = Blank]>>},
     wireless |-> {<<Radio("5ghz")>>},
     interface |-> [name : {"ether1"}, rx_broadcast : {0, 1000},
                    rx_multicast : {0}, running : {"true"}, present : BOOLEAN],
     pool |-> {<<<<Addresses(1, 2)>>>>, <<<<Addresses(9, 3), Addresses(1, 8)>>,
                                      <<[bare |-> TRUE]>>>>},
     ip_scan |-> {<<[section |-> 0, address |-> "x", mac |-> Mac("d9", TRUE)],
                    [section |-> 1, address |-> "y", mac |-> Mac("d1", FALSE)],
                    [section |-> 1, address |-> "z", mac |-> Mac("d9", TRUE)],
                    [section |-> 1, address |-> "w", mac |-> Mac("d9", TRUE)]>>},
     scan_lease |-> {<<Lease(Mac("d1", TRUE), "bound")>>, << >>}]
=============================================================================
