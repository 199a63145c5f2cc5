------------------------------- MODULE Tenancy -------------------------------
(***************************************************************************)
(* What Tenancy::build (src/tenant.rs) makes of one tenant: the record     *)
(* that Routing reads, but for the admission policy, which the operator's  *)
(* scripts set.  Groups are compiled as in sccp/gtt.rs, content rules as   *)
(* in content.rs, screening rules as in isup.rs.                           *)
(***************************************************************************)
EXTENDS Compilation

CONSTANT None   \* nothing: see Routing

(* A cost group has its cheapest member first; a share group has each as   *)
(* often as its weight says.                                               *)
MembersInTurn(group) ==
    LET Cost(member) == Or(member.cost, 255)
        byCost == SortedBy(group.members, Cost)
        Weight(member) == Max({Or(member.weight, 1), 1})
        Shares(member) == [n \in 1 .. Weight(member) |-> member.dpc]
    IN  IF group.mode = "Cost" THEN [i \in DOMAIN byCost |-> byCost[i].dpc]
        ELSE FlattenSeq([i \in DOMAIN group.members |-> Shares(group.members[i])])

Groups(sccp) ==
    [name \in NameSet(sccp.gtt_groups) |->
        LET group == sccp.gtt_groups[PositionOf(sccp.gtt_groups, name)]
        IN  [mode |-> group.mode, members |-> MembersInTurn(group)]]

To(what, name) == [to |-> what, name |-> name]

(* What wins where a target names several things. *)
TargetOf(target) ==
    CASE target.tenant # {} -> To("Tenant", The(target.tenant))
      [] target.tenant = {} /\ target.local -> To("Local", None)
      [] target.tenant = {} /\ ~target.local /\ target.group # {} -> To("Group", The(target.group))
      [] target.tenant = {} /\ ~target.local /\ target.group = {} /\ target.dpc # {} ->
            To("Dpc", The(target.dpc))
      [] OTHER -> To("None", None)

TitleRules(sccp) ==
    [i \in DOMAIN sccp.gtt |-> [titles |-> sccp.gtt[i].match, to |-> TargetOf(sccp.gtt[i].to)]]

(* GtConverter::from: of two entries for a title the later one holds. *)
Numbering(sccp) ==
    [title \in {sccp.plmn_map[i].e214 : i \in DOMAIN sccp.plmn_map} |->
        LET Is(entry) == entry.e214 = title
        IN  sccp.plmn_map[SelectLastInSeq(sccp.plmn_map, Is)].e164]

(* The entries of a table, of all there are where none is named.  A title  *)
(* stands for the calling party and the operation of a message as well, so *)
(* both address tests are of it, and none of the operation.                *)
InTable(tables, named, all) ==
    {x \in all : \A name \in named : x \in tables[PositionOf(tables, name)].entries}

(* The IMSIs that a rule asks for, by a table, a prefix or both, which do  *)
(* not contradict each other.                                              *)
Imsis(content, match) ==
    LET listed == UNION {content.imsi_tables[PositionOf(content.imsi_tables, name)].entries :
                             name \in match.imsi_in}
    IN  IF match.imsi_in = {} THEN UNION match.imsi_prefix
        ELSE {imsi \in listed : \A prefix \in match.imsi_prefix : imsi \in prefix}

ContentRule(content, rule, titles) ==
    [covers |-> InTable(content.address_tables, rule.match.cdpa_gt_in \union rule.match.cgpa_gt_in,
                        titles),
     imsis  |-> Imsis(content, rule.match),
     screen |-> rule.action.screen,
     to     |-> TargetOf(Or(rule.action.route, RouteTarget(NothingGiven))),
     digits |-> Or(rule.action.rewrite_cdpa_gt, None)]

ContentRules(tenant, titles) ==
    FlattenSeq([n \in 1 .. Cardinality(tenant.content_routing) |->
        LET content == The(tenant.content_routing)
        IN  [i \in DOMAIN content.rules |-> ContentRule(content, content.rules[i], titles)]])

Screening(tenant) == Or(tenant.isup_screening, [default |-> "None", rules |-> <<>>])

ScreenRules(tenant) ==
    LET rules == Screening(tenant).rules
    IN  [i \in DOMAIN rules |-> [titles |-> rules[i].match, action |-> rules[i].action]]

Compiled(file, id, titles) ==
    LET tenant == file.tenants[id]
    IN  [pc        |-> tenant.point_code,
         links     |-> [name \in NameSet(tenant.linksets) |->
                           LinksOf(tenant.linksets[PositionOf(tenant.linksets, name)])],
         routes    |-> RouteTable(file, tenant),
         ssns      |-> tenant.sccp.local_ssns,
         rules     |-> TitleRules(tenant.sccp),
         groups    |-> Groups(tenant.sccp),
         e164      |-> Numbering(tenant.sccp),
         content   |-> ContentRules(tenant, titles),
         isup      |-> Screening(tenant).default,
         isupRules |-> ScreenRules(tenant)]
=============================================================================
