------------------------------ MODULE MCLevel3 ------------------------------
(***************************************************************************)
(* Small domains for Level3, as the topology that a file gives.  Server    *)
(* names are model values, the links are numbered as the file has them.    *)
(***************************************************************************)
EXTENDS Level3

CONSTANT Gateway   \* an application server

File == INSTANCE Compilation

(* An M2PA association with a host of its own. *)
Wire(id, adjacent) ==
    File!Association([id |-> id, adaptation |-> "M2pa", role |-> "Client", addrs |-> {id},
                      port |-> 3565, adjacent_pc |-> adjacent])

LinksetOn(name, wires) ==
    File!Linkset([name |-> name,
                  links |-> [i \in DOMAIN wires |-> File!Link([assoc |-> wires[i]])]])

By(dpc, linkset, priority) ==
    File!Mtp3Route([dpc |-> dpc, linkset |-> {linkset}, priority |-> priority])

(* One linkset of two links, to the adjacent point 1, which a server is    *)
(* the second choice for.                                                  *)
OneRaw ==
    [node |-> [point_code |-> 9, variant |-> "Itu"],
     associations |->
        <<Wire("w1", {1}), Wire("w2", {1}),
          File!Association([id |-> "asp", adaptation |-> "M3ua", role |-> "Server",
                            addrs |-> {"local"}, port |-> 2905])>>,
     application_servers |->
        <<File!ApplicationServer([name |-> Gateway, traffic_mode |-> "Loadshare",
                                  routing_context |-> 1, asps |-> <<"asp">>])>>,
     linksets |-> <<LinksetOn("ls1", <<"w1", "w2">>)>>,
     mtp3_routes |-> <<File!Mtp3Route([dpc |-> 1, as |-> {Gateway}, priority |-> 1])>>]

(* Two linksets of one link, to 1 and 2, that share the traffic to 3.      *)
TwoLinksets(adjacent) ==
    [node |-> [point_code |-> 9, variant |-> "Itu"],
     associations |-> <<Wire("w1", {1}), Wire("w2", adjacent)>>,
     linksets |-> <<LinksetOn("ls1", <<"w1">>), LinksetOn("ls2", <<"w2">>)>>,
     mtp3_routes |-> <<By(3, "ls1", 1), By(3, "ls2", 1)>>]

TwoRaw == TwoLinksets({2})

(* The adjacent point of the second linkset is not configured. *)
HalfRaw == TwoLinksets({})

Way(via, priority) == [via |-> via, priority |-> priority]

OneLinksetOf == <<1, 1>>
OneAdjacent == <<1>>
OneServer == {Gateway}
OneRoutes == <<<<Way(1, 0), Way(Gateway, 1)>>>>
OnePc == {1}

TwoLinksetOf == <<1, 2>>
TwoAdjacent == <<1, 2>>
TwoServer == {}
TwoRoutes == <<<<Way(1, 0)>>, <<Way(2, 0)>>, <<Way(1, 1), Way(2, 1)>>>>
TwoPc == 1..3

HalfAdjacent == <<1, NoPc>>
HalfRoutes == [pc \in {1, 3} |-> TwoRoutes[pc]]
HalfPc == {1, 3}

MCOwnPc == 9
MCTfpUnknown == TRUE

(* These are what the files are compiled to. *)
Compiles(raw, linkset, adjacent, servers, routes) ==
    LET tenant == File!FromRaw(raw).tenants.default
        topology == File!Topology(File!FromRaw(raw), tenant)
    IN  /\ File!Accepted(raw) /\ topology.own_pc = MCOwnPc
        /\ topology.linkset = linkset /\ topology.servers = servers /\ topology.routes = routes
        /\ adjacent = [ls \in DOMAIN topology.adjacent |-> File!Or(topology.adjacent[ls], NoPc)]
        /\ tenant.mtp3.tfp_for_unknown_destination = MCTfpUnknown

ASSUME FilesAssumption ==
    /\ Compiles(OneRaw, OneLinksetOf, OneAdjacent, OneServer, OneRoutes)
    /\ Compiles(TwoRaw, TwoLinksetOf, TwoAdjacent, TwoServer, TwoRoutes)
    /\ Compiles(HalfRaw, TwoLinksetOf, HalfAdjacent, TwoServer, HalfRoutes)

Episode(messages, fails) ==
    [messages |-> messages, fails |-> fails, managed |-> {}, serving |-> {}, together |-> FALSE]

(* Changeover and changeback, every message of them and timers together;   *)
(* inhibition of the first link, which alone fails; and inhibition while   *)
(* links fail, the server comes and goes and the destination is paused.    *)
LinkEpisodes ==
    {[Episode({"TRA", "CBD", "XCO", "COO", "ECO", "XCA", "ECA", "CBA"}, {1, 2})
        EXCEPT !.together = TRUE],
     [Episode({"TRA", "LIN", "LUN", "LFU", "LUA", "LLT", "LRT", "XCO"}, {1})
        EXCEPT !.managed = {1}],
     [Episode({"TRA", "LIN", "LUN", "Pause"}, {1, 2})
        EXCEPT !.managed = {1, 2}, !.serving = {Gateway}]}

RestartEpisodes == {Episode({"TRA"}, {1, 2})}

(* What is said and asked about routes. *)
RouteEpisodes == {Episode({"TFP", "TFR", "TFA", "RST", "RSR", "Unroutable"}, {1})}
=============================================================================
