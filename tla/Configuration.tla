---------------------------- MODULE Configuration ----------------------------
(***************************************************************************)
(* The configuration of a node (src/config.rs): what a file may say, what  *)
(* it means when it says nothing, and which files are refused at load.     *)
(*                                                                         *)
(* A block of the file is a record of the keys that are given; the         *)
(* operator named for the block fills in the rest.  A key whose value the  *)
(* code has as an Option is a set of at most one value.  Lists in which    *)
(* order and repetition mean nothing (addresses) are sets, point codes and *)
(* times are numbers, a test pattern is its length in octets, and an       *)
(* address is an address: that a text parses is not modelled.  What a rule *)
(* tests of a message is the set of titles that pass the test.             *)
(***************************************************************************)
EXTENDS Integers, Sequences, FiniteSets, SequencesExt

The(option) == CHOOSE x \in option : TRUE

Or(option, default) == IF option = {} THEN default ELSE The(option)

NothingGiven == [key \in {} |-> {}]

NameSet(entries) == {entries[i].name : i \in DOMAIN entries}

Unique(values) == \A i, j \in DOMAIN values : values[i] = values[j] => i = j

HaveNames(entries) == Unique([i \in DOMAIN entries |-> entries[i].name])

NoneIsZero(block, keys) == \A key \in keys : block[key] # 0

(* RawPc::resolve: an ITU point code has 14 bits, the others 24. *)
Fits(pc, variant) == pc \in 0 .. (2 ^ (IF variant = "Itu" THEN 14 ELSE 24)) - 1

----------------------------------------------------------------------------
(* Associations.                                                           *)

(* Required: id, adaptation ("M3ua", "M2pa" or "Sua"), role ("Server" or   *)
(* "Client"), addrs and port.                                              *)
Association(given) ==
    given @@ [peer_addrs |-> {}, peer_port |-> {}, local_addrs |-> {}, local_port |-> {},
              dial |-> {}, adjacent_pc |-> {}, m2pa |-> {}, m3ua |-> {}]

Dial(given) ==
    given @@ [connect_timeout_ms |-> 10000, backoff_initial_ms |-> 1000,
              backoff_max_ms |-> 30000, backoff_jitter_percent |-> 20]

M3uaPeer(given) == given @@ [beat_ms |-> 0, ack_ms |-> 2000, asp_id |-> {}]

M2paBlock(given) ==
    given @@ [proving |-> "Normal", t1_ms |-> 45000, t2_ms |-> 30000, t3_ms |-> 1500,
              t4n_ms |-> 8200, t4e_ms |-> 500, t6_ms |-> 4500, t7_ms |-> 2000,
              proving_interval_ms |-> 100, restart_ms |-> 1000, tx_queue |-> 4096]

ValidDial(dial) ==
    /\ NoneIsZero(dial, {"connect_timeout_ms", "backoff_initial_ms", "backoff_max_ms"})
    /\ dial.backoff_max_ms >= dial.backoff_initial_ms
    /\ dial.backoff_jitter_percent <= 100

(* What only one role, or one adaptation, may say; and what may not be 0.  *)
(* An adjacent point is held to 24 bits, whatever the variant.             *)
ValidAssociation(a) ==
    /\ a.addrs # {}
    /\ a.role = "Client" => a.peer_addrs = {} /\ a.peer_port = {}
    /\ a.peer_port # {} => a.peer_addrs # {}
    /\ 0 \notin a.peer_port
    /\ a.role = "Server" => a.local_addrs = {} /\ a.local_port = {} /\ a.dial = {}
    /\ 0 \notin a.local_port
    /\ \A dial \in a.dial : ValidDial(dial)
    /\ \A pc \in a.adjacent_pc : Fits(pc, "Ansi")
    /\ \A m3ua \in a.m3ua : a.adaptation = "M3ua" /\ m3ua.ack_ms # 0
    /\ \A m2pa \in a.m2pa :
           a.adaptation = "M2pa" /\ NoneIsZero(m2pa, DOMAIN m2pa \ {"proving"})

(* listen_groups.  Associations whose local addresses meet on one port are *)
(* one endpoint, where a peer is told apart by its address and port.       *)
AnyAddress == "0.0.0.0"

Listening(file) ==
    {i \in DOMAIN file.associations : file.associations[i].role = "Server"}

Meet(a, b) ==
    /\ a.port # 0 /\ a.port = b.port
    /\ AnyAddress \in a.addrs \union b.addrs \/ a.addrs \intersect b.addrs # {}

PeerInCommon(a, b) ==
    /\ a.peer_addrs \intersect b.peer_addrs # {}
    /\ a.peer_port = {} \/ b.peer_port = {} \/ a.peer_port = b.peer_port

ToldApart(a, b) ==
    /\ a.addrs = b.addrs
    /\ a.peer_addrs # {} /\ b.peer_addrs # {}
    /\ ~PeerInCommon(a, b)

EndpointsAreClear(file) ==
    \A i, j \in Listening(file) :
        i < j /\ Meet(file.associations[i], file.associations[j])
            => ToldApart(file.associations[i], file.associations[j])

ValidAssociations(file) ==
    /\ Unique([i \in DOMAIN file.associations |-> file.associations[i].id])
    /\ \A i \in DOMAIN file.associations : ValidAssociation(file.associations[i])
    /\ EndpointsAreClear(file)

(* The adaptation of an association, and nothing of one that is not there. *)
AdaptationOf(file, id) ==
    {file.associations[i].adaptation :
        i \in {i \in DOMAIN file.associations : file.associations[i].id = id}}

----------------------------------------------------------------------------
(* Application servers, linksets and routes.                               *)

(* Required: name, traffic_mode ("Loadshare", "Override" or "Broadcast"),  *)
(* routing_context and asps, a list of associations.                       *)
ApplicationServer(given) ==
    given @@ [recovery_ms |-> 2000, pending_queue |-> 4096, required_asps |-> 1]

MostRequired(server) == IF server.traffic_mode = "Override" THEN 1 ELSE Len(server.asps)

ValidServer(file, server) ==
    /\ server.asps # <<>>
    /\ server.pending_queue # 0
    /\ server.required_asps \in 1 .. MostRequired(server)
    /\ \E adaptation \in {"M3ua", "Sua"} :
           \A i \in DOMAIN server.asps : AdaptationOf(file, server.asps[i]) = {adaptation}

LinkTestBlock(given) == given @@ [enabled |-> TRUE, t1_ms |-> 8000, t2_ms |-> 60000, pattern |-> 8]

Link(given) == given @@ [slc |-> {}]

Linkset(given) == given @@ [link_test |-> LinkTestBlock(NothingGiven)]

(* The signalling link code of a link: its own, or its position. *)
SlcOf(linkset, i) == Or(linkset.links[i].slc, (i - 1) % 16)

ValidLinkset(file, variant, linkset) ==
    /\ Len(linkset.links) \in 1 .. 16
    /\ \A i \in DOMAIN linkset.links : SlcOf(linkset, i) <= 15
    /\ Unique([i \in DOMAIN linkset.links |-> SlcOf(linkset, i)])
    /\ linkset.link_test.pattern \in 1 .. 15
    /\ NoneIsZero(linkset.link_test, {"t1_ms", "t2_ms"})
    /\ \A i \in DOMAIN linkset.links : AdaptationOf(file, linkset.links[i].assoc) = {"M2pa"}
    /\ variant # "Ansi"

Mtp3(given) ==
    given @@ [t1_ms |-> 800, t2_ms |-> 1400, t3_ms |-> 800, t4_ms |-> 800, t5_ms |-> 800,
              t6_ms |-> 800, t8_ms |-> 1000, t10_ms |-> 45000, t12_ms |-> 1150,
              t13_ms |-> 1150, t18_ms |-> 20000, t19_ms |-> 68000, t20_ms |-> 60000,
              t21_ms |-> 64000, t23_ms |-> 240000, tfp_for_unknown_destination |-> TRUE,
              rerouting_buffer |-> 4096]

ValidMtp3(mtp3) == NoneIsZero(mtp3, DOMAIN mtp3 \ {"tfp_for_unknown_destination"})

(* Required: dpc and priority. *)
Mtp3Route(given) == given @@ [as |-> {}, linkset |-> {}]

ValidRoute(tenant, route) ==
    /\ Fits(route.dpc, tenant.variant)
    /\ (route.as = {}) # (route.linkset = {})
    /\ route.as \subseteq NameSet(tenant.application_servers)
    /\ route.linkset \subseteq NameSet(tenant.linksets)

----------------------------------------------------------------------------
(* Global titles, content and screening.                                   *)

(* Required: name, mode ("Cost" or "Share") and members. *)
GroupMember(given) == given @@ [cost |-> {}, weight |-> {}]

ValidGroup(tenant, group) ==
    /\ group.members # <<>>
    /\ \A i \in DOMAIN group.members : Fits(group.members[i].dpc, tenant.variant)

RouteTarget(given) ==
    given @@ [dpc |-> {}, group |-> {}, local |-> FALSE, tenant |-> {}]

(* A target names at least one thing, and what it names is there. *)
ValidTarget(file, tenant, target) ==
    /\ target.local \/ target.dpc # {} \/ target.group # {} \/ target.tenant # {}
    /\ \A pc \in target.dpc : Fits(pc, tenant.variant)
    /\ target.group \subseteq NameSet(tenant.sccp.gtt_groups)
    /\ target.tenant \subseteq DOMAIN file.tenants

(* A rule of gtt is [match, to], an entry of plmn_map [e214, e164]. *)
Sccp(given) == given @@ [local_ssns |-> {}, gtt_groups |-> <<>>, gtt |-> <<>>, plmn_map |-> <<>>]

ValidSccp(file, tenant) ==
    /\ HaveNames(tenant.sccp.gtt_groups)
    /\ \A i \in DOMAIN tenant.sccp.gtt_groups : ValidGroup(tenant, tenant.sccp.gtt_groups[i])
    /\ \A i \in DOMAIN tenant.sccp.gtt : ValidTarget(file, tenant, tenant.sccp.gtt[i].to)

ContentMatch(given) ==
    given @@ [operation |-> {}, imsi_in |-> {}, imsi_prefix |-> {}, cdpa_gt_in |-> {},
              cgpa_gt_in |-> {}]

ContentAction(given) == given @@ [route |-> {}, rewrite_cdpa_gt |-> {}, screen |-> FALSE]

(* Required: protocol. *)
ContentRouting(given) ==
    given @@ [address_tables |-> <<>>, imsi_tables |-> <<>>, rules |-> <<>>]

(* Operation::from_kebab, by the protocol an operation belongs to. *)
Operations ==
    [GsmMap |-> {"sri-sm", "mo-forward-sm", "mt-forward-sm", "update-location",
                 "cancel-location", "send-auth-info", "insert-subscriber-data",
                 "provide-subscriber-info"},
     GsmCap |-> {"initial-dp", "connect"}]

ValidContentRule(file, tenant, content, rule) ==
    /\ rule.match.imsi_in \subseteq NameSet(content.imsi_tables)
    /\ rule.match.cdpa_gt_in \union rule.match.cgpa_gt_in \subseteq NameSet(content.address_tables)
    /\ rule.match.operation \subseteq Operations[content.protocol]
    /\ \A target \in rule.action.route : ValidTarget(file, tenant, target)

ValidContent(file, tenant) ==
    \A content \in tenant.content_routing :
        /\ HaveNames(content.address_tables)
        /\ HaveNames(content.imsi_tables)
        /\ HaveNames(content.rules)
        /\ \A i \in DOMAIN content.rules :
               ValidContentRule(file, tenant, content, content.rules[i])

(* A screening rule is [name, match, action]. *)
IsupScreening(given) == given @@ [default |-> "Allow", rules |-> <<>>]

ValidScreening(tenant) == \A screening \in tenant.isup_screening : HaveNames(screening.rules)

----------------------------------------------------------------------------
(* Tenants and the whole file.                                             *)

(* Required: point_code and variant ("Itu", "Ansi" or "China"). *)
Tenant(given) ==
    given @@ [network_indicator |-> "International", application_servers |-> <<>>,
              linksets |-> <<>>, mtp3_routes |-> <<>>, mtp3 |-> Mtp3(NothingGiven),
              sccp |-> Sccp(NothingGiven), content_routing |-> {}, isup_screening |-> {}]

TcapBlock(given) ==
    given @@ [invoke_timer_ms |-> 15000, dialogue_timer_ms |-> 30000, max_dialogues |-> 100000]

(* The keys of a tenant that a file without tenants has at its top level.  *)
(* A list that is given is not empty.                                      *)
RoutingKeys ==
    {"application_servers", "linksets", "mtp3_routes", "mtp3", "sccp", "content_routing",
     "isup_screening"}

FlatPart(raw) == [key \in RoutingKeys \intersect DOMAIN raw |-> raw[key]]

(* from_raw: a file is flat, with a node, or has tenants; never both. *)
WellFormed(raw) ==
    IF "tenants" \in DOMAIN raw
    THEN DOMAIN raw.tenants # {} /\ DOMAIN FlatPart(raw) = {}
    ELSE "node" \in DOMAIN raw

FromRaw(raw) ==
    [associations |-> IF "associations" \in DOMAIN raw THEN raw.associations ELSE <<>>,
     tcap |-> TcapBlock(IF "tcap" \in DOMAIN raw THEN raw.tcap ELSE NothingGiven),
     tenants |-> IF "tenants" \in DOMAIN raw
                 THEN [id \in DOMAIN raw.tenants |-> Tenant(raw.tenants[id])]
                 ELSE [default |-> Tenant(raw.node @@ FlatPart(raw))]]

(* Application servers and linksets share one name space. *)
ValidTenant(file, tenant) ==
    /\ Fits(tenant.point_code, tenant.variant)
    /\ ValidMtp3(tenant.mtp3)
    /\ HaveNames(tenant.application_servers \o tenant.linksets)
    /\ \A i \in DOMAIN tenant.application_servers : ValidServer(file, tenant.application_servers[i])
    /\ \A i \in DOMAIN tenant.linksets : ValidLinkset(file, tenant.variant, tenant.linksets[i])
    /\ \A i \in DOMAIN tenant.mtp3_routes : ValidRoute(tenant, tenant.mtp3_routes[i])
    /\ ValidSccp(file, tenant)
    /\ ValidContent(file, tenant)
    /\ ValidScreening(tenant)

Valid(file) ==
    /\ ValidAssociations(file)
    /\ \A id \in DOMAIN file.tenants : ValidTenant(file, file.tenants[id])

(* Config::parse: the file is read, or refused. *)
Accepted(raw) == WellFormed(raw) /\ Valid(FromRaw(raw))
=============================================================================
