----------------------------- MODULE Compilation -----------------------------
(***************************************************************************)
(* What a node makes of its configuration before it starts: the route      *)
(* table (mtp3/route.rs), what level 3 manages (mtp3/management.rs), the   *)
(* ASPs and their servers (transport/m3ua/aspm.rs), the settings of its    *)
(* links (transport/registry.rs) and whom an endpoint accepts              *)
(* (transport/mod.rs).  Every operator takes a file that Valid accepts.    *)
(***************************************************************************)
EXTENDS Configuration

(* The entry of a set of numbers that k others are below. *)
Nth(set, k) == CHOOSE i \in set : Cardinality({j \in set : j < i}) = k

(* A stable sort. *)
SortedBy(entries, Key(_)) ==
    LET Before(i, j) ==
            \/ Key(entries[i]) < Key(entries[j])
            \/ Key(entries[i]) = Key(entries[j]) /\ i < j
        Rank(i) == Cardinality({j \in DOMAIN entries : Before(j, i)})
    IN  [k \in DOMAIN entries |-> entries[CHOOSE i \in DOMAIN entries : Rank(i) = k - 1]]

(* Every entry where it occurs first. *)
Distinct(entries) ==
    LET firsts == {i \in DOMAIN entries : \A j \in 1 .. i - 1 : entries[j] # entries[i]}
    IN  [k \in 1 .. Cardinality(firsts) |-> entries[Nth(firsts, k - 1)]]

PositionOf(entries, name) == CHOOSE i \in DOMAIN entries : entries[i].name = name

AssociationOf(file, id) ==
    file.associations[CHOOSE i \in DOMAIN file.associations : file.associations[i].id = id]

----------------------------------------------------------------------------
(* RouteTable: RouteResolver::build.                                       *)

AdjacentOf(file, link) == AssociationOf(file, link.assoc).adjacent_pc

AdjacentPoints(file, linkset) ==
    UNION {AdjacentOf(file, linkset.links[i]) : i \in DOMAIN linkset.links}

Via(name, priority) == [via |-> name, priority |-> priority]

(* A point that links lead to is reached by their linksets, before any     *)
(* route that is written out.                                              *)
ImplicitRoutes(file, tenant, pc) ==
    LET Leads(linkset) == pc \in AdjacentPoints(file, linkset)
        through == SelectSeq(tenant.linksets, Leads)
    IN  [i \in DOMAIN through |-> Via(through[i].name, 0)]

ExplicitRoutes(tenant, pc) ==
    LET Leads(route) == route.dpc = pc
        through == SelectSeq(tenant.mtp3_routes, Leads)
    IN  [i \in DOMAIN through |->
            Via(The(through[i].as \union through[i].linkset), through[i].priority)]

Destinations(file, tenant) ==
    UNION {AdjacentPoints(file, tenant.linksets[i]) : i \in DOMAIN tenant.linksets}
        \union {tenant.mtp3_routes[i].dpc : i \in DOMAIN tenant.mtp3_routes}

RouteTable(file, tenant) ==
    LET Priority(route) == route.priority
    IN  [pc \in Destinations(file, tenant) |->
            SortedBy(ImplicitRoutes(file, tenant, pc) \o ExplicitRoutes(tenant, pc), Priority)]

----------------------------------------------------------------------------
(* Level 3: Topology::build.  Links are numbered through all linksets, and *)
(* a route goes by the number of a linkset or the name of a server.        *)

LinksetOfLinks(tenant) ==
    FlattenSeq([n \in DOMAIN tenant.linksets |-> [i \in DOMAIN tenant.linksets[n].links |-> n]])

(* What the first link that says has at its other end. *)
AdjacentPoint(file, linkset) ==
    LET saying == {i \in DOMAIN linkset.links : AdjacentOf(file, linkset.links[i]) # {}}
    IN  IF saying = {} THEN {} ELSE AdjacentOf(file, linkset.links[Nth(saying, 0)])

Managed(tenant, route) ==
    IF route.via \in NameSet(tenant.linksets)
    THEN Via(PositionOf(tenant.linksets, route.via), route.priority)
    ELSE route

Topology(file, tenant) ==
    [own_pc   |-> tenant.point_code,
     linkset  |-> LinksetOfLinks(tenant),
     adjacent |-> [n \in DOMAIN tenant.linksets |-> AdjacentPoint(file, tenant.linksets[n])],
     servers  |-> NameSet(tenant.application_servers),
     routes   |-> [pc \in Destinations(file, tenant) \ {tenant.point_code} |->
                      LET routes == RouteTable(file, tenant)[pc]
                      IN  Distinct([i \in DOMAIN routes |-> Managed(tenant, routes[i])])]]

----------------------------------------------------------------------------
(* ASPs: Layout::build.                                                    *)

AspsOf(file) ==
    LET IsM3ua(a) == a.adaptation = "M3ua" IN SelectSeq(file.associations, IsM3ua)

MembersOf(file, server) ==
    {i \in DOMAIN AspsOf(file) : AspsOf(file)[i].id \in Range(server.asps)}

Gateways(file) == {i \in DOMAIN AspsOf(file) : AspsOf(file)[i].role = "Server"}

Layout(file, tenant) ==
    LET servers == tenant.application_servers
        members == [s \in DOMAIN servers |-> MembersOf(file, servers[s])]
    IN  [asps     |-> DOMAIN AspsOf(file),
         servers  |-> DOMAIN servers,
         members  |-> members,
         mode     |-> [s \in DOMAIN servers |-> servers[s].traffic_mode],
         required |-> [s \in DOMAIN servers |-> Max({servers[s].required_asps, 1})],
         recovers |-> [s \in DOMAIN servers |->
                          members[s] \intersect Gateways(file) # {} /\ servers[s].recovery_ms > 0],
         gateway  |-> Gateways(file)]

----------------------------------------------------------------------------
(* Registry::build, and the doors of an endpoint.                          *)

(* The linkset that an association is a link of: the first one, or none.   *)
PlaceOf(tenant, id) ==
    LET Has(linkset) == \E i \in DOMAIN linkset.links : linkset.links[i].assoc = id
        n == SelectInSeq(tenant.linksets, Has)
    IN  IF n = 0 THEN {} ELSE {tenant.linksets[n]}

(* A link is tested when its linkset says so and its far end is known.     *)
LinkSettings(file, tenant, id) ==
    LET a == AssociationOf(file, id)
        m2pa == Or(a.m2pa, M2paBlock(NothingGiven))
    IN  [proving |-> m2pa.proving, tx_queue |-> m2pa.tx_queue,
         tested  |-> a.adjacent_pc # {} /\ \E place \in PlaceOf(tenant, id) : place.link_test.enabled]

QueueLimit(server) == server.pending_queue

LinksOf(linkset) == [i \in DOMAIN linkset.links |-> linkset.links[i].assoc]

(* The rules of the endpoint that an association listens at, by which a    *)
(* peer is taken for one of those that share it.                           *)
Endpoint(file, i) ==
    {j \in Listening(file) : j = i \/ Meet(file.associations[i], file.associations[j])}

Doors(file, i) ==
    [k \in 1 .. Cardinality(Endpoint(file, i)) |->
        LET a == file.associations[Nth(Endpoint(file, i), k - 1)]
        IN  [addrs |-> a.peer_addrs, port |-> a.peer_port]]
=============================================================================
