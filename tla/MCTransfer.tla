----------------------------- MODULE MCTransfer -----------------------------
(***************************************************************************)
(* Three transfer points in a triangle, a host h behind A, and a host g    *)
(* behind B and C.  A shares the traffic to g between B and C.  Each       *)
(* linkset is named for the point that it leads to.                        *)
(***************************************************************************)
EXTENDS Transfer, SequencesExt

File == INSTANCE Tenancy

A == 1
B == 2
C == 3
g == 8
h == 9
nowhere == 20

MCEnds ==
    [hA |-> {h, A}, AB1 |-> {A, B}, AB2 |-> {A, B}, AC |-> {A, C}, BC |-> {B, C}, Bg |-> {B, g},
     Cg |-> {C, g}]

(* The end of a link at a point: the higher point dials. *)
Wire(id, point) ==
    LET far == CHOOSE p \in MCEnds[id] : p # point
    IN  File!Association([id |-> id, adaptation |-> "M2pa", addrs |-> {id}, port |-> 3565,
                          role |-> IF point > far THEN "Client" ELSE "Server",
                          adjacent_pc |-> {far}])

To(name, wires) == [name |-> name, wires |-> wires]

WiresOf ==
    [n \in {A, B, C} |->
        CASE n = A -> <<To("h", <<"hA">>), To("B", <<"AB1", "AB2">>), To("C", <<"AC">>)>>
          [] n = B -> <<To("A", <<"AB1", "AB2">>), To("C", <<"BC">>), To("g", <<"Bg">>)>>
          [] n = C -> <<To("A", <<"AC">>), To("B", <<"BC">>), To("g", <<"Cg">>)>>]

AssociationsOf(n) ==
    LET ids == {id \in DOMAIN MCEnds : n \in MCEnds[id]}
        order == SetToSeq(ids)
    IN  [i \in DOMAIN order |-> Wire(order[i], n)]

LinksetsOf(n) ==
    [i \in DOMAIN WiresOf[n] |->
        LET wires == WiresOf[n][i].wires
        IN  File!Linkset([name  |-> WiresOf[n][i].name,
                          links |-> [k \in DOMAIN wires |-> File!Link([assoc |-> wires[k]])]])]

By(dpc, linkset, priority) ==
    File!Mtp3Route([dpc |-> dpc, linkset |-> {linkset}, priority |-> priority])

RoutesOf ==
    [n \in {A, B, C} |->
        CASE n = A -> <<By(g, "B", 1), By(g, "C", 1)>>
          [] n = B -> <<By(h, "C", 2), By(h, "A", 1), By(g, "C", 2)>>
          [] n = C -> <<By(h, "A", 1), By(h, "B", 2), By(g, "B", 2)>>]

Rule(titles, to) == [match |-> titles, to |-> File!RouteTarget(to)]

(* "round" leads from A to B to C to A; "far" leads to g through B or C;   *)
(* "here" is a subsystem of C; "lost" leads to a point without a route,    *)
(* and "other" to another tenant.                                          *)
RulesOf ==
    [n \in {A, B, C} |->
        CASE n = A -> <<Rule({"round"}, [dpc |-> {B}]), Rule({"far"}, [group |-> {"relays"}]),
                        Rule({"lost", "barred", "other"}, [dpc |-> {B}]),
                        Rule({"here"}, [dpc |-> {C}])>>
          [] n = B -> <<Rule({"round"}, [dpc |-> {C}]), Rule({"far"}, [dpc |-> {g}]),
                        Rule({"lost"}, [dpc |-> {nowhere}]), Rule({"other"}, [tenant |-> {"t"}])>>
          [] n = C -> <<Rule({"round"}, [dpc |-> {A}]), Rule({"far"}, [dpc |-> {g}]),
                        Rule({"here"}, [local |-> TRUE])>>]

RelayGroup ==
    [name |-> "relays", mode |-> "Share",
     members |-> <<File!GroupMember([dpc |-> B]), File!GroupMember([dpc |-> C])>>]

SccpOf(n) ==
    File!Sccp([local_ssns |-> {8}, gtt |-> RulesOf[n],
               gtt_groups |-> IF n = A THEN <<RelayGroup>> ELSE <<>>,
               plmn_map |-> <<[e214 |-> "mobile", e164 |-> "far"]>>])

(* B drops what is barred, by its content or as ISUP, and translates the   *)
(* rest.                                                                   *)
BarContent ==
    File!ContentRouting(
        [protocol |-> "GsmMap",
         address_tables |-> <<[name |-> "barred", entries |-> {"barred"}]>>,
         imsi_tables |-> <<[name |-> "ours", entries |-> {"i"}]>>,
         rules |-> <<[name |-> "bar", action |-> File!ContentAction([screen |-> TRUE]),
                      match |-> File!ContentMatch([cdpa_gt_in |-> {"barred"},
                                                   imsi_in |-> {"ours"}])]>>])

ScreenBarred ==
    File!IsupScreening([rules |-> <<[name |-> "bar", match |-> {"barred"}, action |-> "Block"]>>])

TenantOf(n) ==
    [point_code |-> n, variant |-> "Itu", linksets |-> LinksetsOf(n), mtp3_routes |-> RoutesOf[n],
     sccp |-> SccpOf(n)]

(* B has a second tenant, the other two nodes have flat files. *)
RawOf(n) ==
    [associations |-> AssociationsOf(n)]
        @@ IF n = B
           THEN [tenants |->
                    [default |-> [content_routing |-> {BarContent}, isup_screening |-> {ScreenBarred}]
                                     @@ TenantOf(B),
                     t |-> [point_code |-> 30, variant |-> "Ansi"]]]
           ELSE [node |-> [point_code |-> n, variant |-> "Itu"], linksets |-> LinksetsOf(n),
                 mtp3_routes |-> RoutesOf[n], sccp |-> SccpOf(n)]

ASSUME FilesAssumption == \A n \in {A, B, C} : File!Accepted(RawOf(n))

Titles == {"round", "far", "mobile", "lost", "other", "here", "barred"}

CompiledAt(n) == File!Compiled(File!FromRaw(RawOf(n)), "default", Titles) @@ [policy |-> n = C]

Nodes == A :> CompiledAt(A) @@ B :> CompiledAt(B) @@ C :> CompiledAt(C)

MCConfig == Nodes

(* What the routes and the group are compiled to: the shorter way first,   *)
(* an adjacent point by its own linkset.                                   *)
Ways(names, priorities) ==
    [i \in DOMAIN names |-> [via |-> names[i], priority |-> priorities[i]]]

ASSUME CompiledAssumption ==
    /\ MCConfig[A].routes = (h :> Ways(<<"h">>, <<0>>) @@ B :> Ways(<<"B">>, <<0>>)
                                @@ C :> Ways(<<"C">>, <<0>>) @@ g :> Ways(<<"B", "C">>, <<1, 1>>))
    /\ MCConfig[B].routes = (A :> Ways(<<"A">>, <<0>>) @@ C :> Ways(<<"C">>, <<0>>)
                                @@ h :> Ways(<<"A", "C">>, <<1, 2>>)
                                @@ g :> Ways(<<"g", "C">>, <<0, 2>>))
    /\ MCConfig[C].routes = (A :> Ways(<<"A">>, <<0>>) @@ B :> Ways(<<"B">>, <<0>>)
                                @@ h :> Ways(<<"A", "B">>, <<1, 2>>)
                                @@ g :> Ways(<<"g", "B">>, <<0, 2>>))
    /\ MCConfig[A].groups = [relays |-> [mode |-> "Share", members |-> <<B, C>>]]
    /\ \A n \in {A, B, C} : MCConfig[n].links =
           [name \in {to.name : to \in Range(WiresOf[n])} |->
                (CHOOSE to \in Range(WiresOf[n]) : to.name = name).wires]

MCHost == {g, h}

Plain ==
    [id |-> 0, opc |-> h, link |-> "hA", dpc |-> g, sls |-> 0, si |-> "SCCP", type |-> "UDT",
     hops |-> 0, title |-> None, ssn |-> 8, asks |-> FALSE, wants |-> FALSE, starts |-> "No",
     barred |-> FALSE, content |-> "None", imsi |-> None, back |-> FALSE]

Asking(title, type, hops) ==
    [Plain EXCEPT !.dpc = A, !.title = title, !.type = type, !.hops = hops,
                  !.asks = TRUE, !.wants = TRUE]

MCTraffic ==
    {Plain, [Plain EXCEPT !.sls = 1],
     [Plain EXCEPT !.si = "ISUP", !.title = "barred"],
     Asking("round", "XUDT", 3), Asking("round", "XUDT", 4), Asking("mobile", "XUDT", 3),
     Asking("lost", "UDT", 0),
     Asking("other", "UDT", 0),
     [Asking("here", "XUDT", 3) EXCEPT !.starts = "Begin", !.barred = TRUE],
     [Asking("barred", "UDT", 0) EXCEPT !.content = "View", !.imsi = Unread]}

Circling == {[Plain EXCEPT !.dpc = A, !.title = "round"]}

Mark(dpc, via, status) == [node |-> A, mark |-> <<dpc, via, status>>]

MCChanges == {Mark(g, "B", "Restricted"), Mark(g, "B", "Allowed"), Mark(g, "C", "Prohibited")}
=============================================================================
