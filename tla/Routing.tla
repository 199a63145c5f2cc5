------------------------------- MODULE Routing -------------------------------
(***************************************************************************)
(* How a node decides where a message goes: the route table, the links of  *)
(* a linkset, global title translation, and the content and admission      *)
(* rules in front of it (mtp3/route.rs, routing.rs, sccp/gtt.rs,           *)
(* content.rs, isup.rs, admission.rs).  All of it is pure: `c` is what     *)
(* Tenancy::build makes of the configuration of one tenant, `s` the state  *)
(* that routing reads.                                                     *)
(*                                                                         *)
(*   c.pc        the point code of the node                                *)
(*   c.links     the links of each linkset, in the order of the file       *)
(*   c.routes    the routes to each destination, sorted by priority        *)
(*   c.ssns      the subsystems of the node                                *)
(*   c.rules     the global title rules, each with the titles it matches   *)
(*   c.groups    the groups that a rule may name, members expanded         *)
(*   c.e164      the E.164 title of each E.214 title of the plmn_map       *)
(*   c.content   the content rules                                         *)
(*   c.policy    whether an admission policy is set                        *)
(*   c.isup      "None", or what ISUP screening does with what no rule     *)
(*               matches: "Allow" or "Block"                               *)
(*                                                                         *)
(*   s.up        the links that level 3 routes to (LinkPort.is_routable)   *)
(*   s.open      the linksets that are up in the route state               *)
(*   s.marks     what adjacent points said: <<dpc, linkset, status>>       *)
(*   s.paused    the destinations that are prohibited                      *)
(*   s.cursor    the cursor of each group                                  *)
(***************************************************************************)
EXTENDS Integers, Sequences, FiniteSets

CONSTANTS
    None,       \* no linkset, link, title or subsystem
    Unread      \* the IMSI of an argument that cannot be decoded

(* The element of a set of numbers that k others are below. *)
Nth(set, k) == CHOOSE i \in set : Cardinality({j \in set : j < i}) = k

----------------------------------------------------------------------------
(* Routes.                                                                 *)

Candidates(c, dpc) == IF dpc \in DOMAIN c.routes THEN c.routes[dpc] ELSE <<>>

Usable(s, dpc, via, avoid) ==
    CASE via \notin s.open \/ via = avoid -> "No"
      [] <<dpc, via, "Prohibited">> \in s.marks -> "No"
      [] <<dpc, via, "Restricted">> \in s.marks -> "Restricted"
      [] OTHER -> "Yes"

(* The routes of the first priority that has a usable one. *)
TierInUse(routes, use) ==
    {i \in DOMAIN routes :
        \E j \in DOMAIN routes :
            /\ use[j] # "No" /\ routes[i].priority = routes[j].priority
            /\ \A k \in 1 .. j - 1 : routes[k].priority < routes[j].priority => use[k] = "No"}

ClassInUse(tier, use) == IF \E i \in tier : use[i] = "Yes" THEN "Yes" ELSE "Restricted"

(* The route of a selection code: its normal one while that is in use. *)
ChooseRoute(tier, use, sls) ==
    LET normal == Nth(tier, sls % Cardinality(tier))
        inUse == {i \in tier : use[i] = ClassInUse(tier, use)}
    IN  IF normal \in inUse THEN normal ELSE Nth(inUse, sls % Cardinality(inUse))

ChosenAmong(routes, use, tier, sls) ==
    IF tier = {} THEN None ELSE routes[ChooseRoute(tier, use, sls)].via

ChosenOf(routes, use, sls) == ChosenAmong(routes, use, TierInUse(routes, use), sls)

(* resolve_avoiding *)
EgressFor(c, s, dpc, sls, avoid) ==
    IF dpc \in s.paused THEN None
    ELSE ChosenOf(Candidates(c, dpc),
                  [i \in DOMAIN Candidates(c, dpc) |->
                      Usable(s, dpc, Candidates(c, dpc)[i].via, avoid)],
                  sls)

Resolve(c, s, dpc, sls) == EgressFor(c, s, dpc, sls, None)

(* How many ways the selection codes are split before a link is chosen. *)
Through(c, dpc, via) == {i \in DOMAIN c.routes[dpc] : c.routes[dpc][i].via = via}

TierWidth(routes, own) ==
    Cardinality({i \in DOMAIN routes : routes[i].priority = routes[own].priority})

ShareWidth(c, via) ==
    LET Widths == {1} \union
            {TierWidth(c.routes[d], Nth(Through(c, d, via), 0)) :
                d \in {d \in DOMAIN c.routes : Through(c, d, via) # {}}}
    IN  CHOOSE w \in Widths : \A v \in Widths : v <= w

LinksetOf(c, link) == CHOOSE ls \in DOMAIN c.links : \E i \in DOMAIN c.links[ls] : c.links[ls][i] = link

(* select_link_avoiding *)
LinkAmong(links, fit, key) ==
    IF fit = {} THEN None
    ELSE IF (key % Len(links)) + 1 \in fit THEN links[(key % Len(links)) + 1]
    ELSE links[Nth(fit, key % Cardinality(fit))]

SelectLink(c, s, ls, sls, avoid) ==
    LinkAmong(c.links[ls],
              {i \in DOMAIN c.links[ls] : c.links[ls][i] \in s.up \ {avoid}},
              sls \div ShareWidth(c, ls))

----------------------------------------------------------------------------
(* Global titles.                                                          *)

(* The target of a rule: a point code, a group, this node, another tenant, *)
(* or nothing at all.                                                      *)
Target(to, name) == [to |-> to, name |-> name]

(* The member a group gives, cost first or in turn, and the cursor then.   *)
Member(group, cursor) ==
    IF group.mode = "Cost" THEN group.members[1] ELSE group.members[cursor + 1]

Turned(group, cursor) ==
    IF group.mode = "Cost" THEN cursor ELSE (cursor + 1) % Len(group.members)

InGroup(c, target) == target.to = "Group" /\ target.name \in DOMAIN c.groups

(* result_of *)
ResultOf(c, s, target) ==
    CASE InGroup(c, target) ->
            Target("Dpc", Member(c.groups[target.name], s.cursor[target.name]))
      [] target.to = "Group" -> Target("None", None)
      [] OTHER -> target

Selected(c, s, target) ==
    IF InGroup(c, target)
    THEN [s EXCEPT !.cursor[target.name] = Turned(c.groups[target.name], @)]
    ELSE s

(* pre_convert *)
Converted(c, title) == IF title \in DOMAIN c.e164 THEN c.e164[title] ELSE title

(* translate: the first rule that matches decides. *)
Matching(c, title) == {i \in DOMAIN c.rules : title \in c.rules[i].titles}

Translate(c, title) ==
    IF Matching(c, title) = {} THEN Target("None", None)
    ELSE c.rules[Nth(Matching(c, title), 0)].to

----------------------------------------------------------------------------
(* Content rules.  A rule covers titles (and operations: those stand for   *)
(* whatever it tests but the identity), may test the IMSI, and screens the *)
(* message or names a target and new digits.                               *)

FallsUnder(rule, msg) ==
    /\ msg.title \in rule.covers
    /\ rule.imsis # {} => msg.imsi \in rule.imsis \union {Unread}

Hits(c, msg) ==
    {i \in DOMAIN c.content :
        msg.si = "SCCP" /\ msg.content = "View" /\ FallsUnder(c.content[i], msg)}

(* The rule that decides, and whether it drops the message: by its action, *)
(* or because it tests an IMSI that cannot be read.                        *)
Deciding(c, msg) == c.content[Nth(Hits(c, msg), 0)]

Screens(rule, msg) == rule.screen \/ (rule.imsis # {} /\ msg.imsi = Unread)

----------------------------------------------------------------------------
(* route_for.                                                              *)

Decision(do, dpc, via, digits) == [do |-> do, dpc |-> dpc, via |-> via, digits |-> digits]

Drop == Decision("Drop", None, None, None)
Local == Decision("Local", None, None, None)

(* decision_from_gtt *)
DecisionOf(c, s, result, sls, digits) ==
    CASE result.to = "Dpc" ->
            Decision("RouteTo", result.name, Resolve(c, s, result.name, sls), digits)
      [] result.to = "Local" -> Local
      [] result.to = "Tenant" -> Decision("CrossTenant", None, None, None)
      [] OTHER -> Drop

(* The called party, as inbound_from_msu reads it: of SCCP messages only. *)
TitleOf(msg) == IF msg.si = "SCCP" THEN msg.title ELSE None
SsnOf(msg) == IF msg.si = "SCCP" THEN msg.ssn ELSE None

(* What a message for this node is translated to, once no rule drops it. A *)
(* content rule whose target is nothing leaves it to the title.            *)
ByContent(c, s, msg) ==
    Hits(c, msg) # {} /\ ResultOf(c, s, Deciding(c, msg).to).to # "None"

TargetFor(c, s, msg) ==
    CASE ByContent(c, s, msg) -> Deciding(c, msg).to
      [] TitleOf(msg) # None -> Translate(c, Converted(c, msg.title))
      [] OTHER -> Target("None", None)

Translated(c, s, msg) ==
    DecisionOf(c, s, ResultOf(c, s, TargetFor(c, s, msg)), msg.sls,
               IF ByContent(c, s, msg) THEN Deciding(c, msg).digits ELSE None)

OwnSubsystem(c, msg) == SsnOf(msg) \in c.ssns /\ TitleOf(msg) = None

Blocked(c, msg) ==
    \/ msg.si = "SCCP" /\ msg.content = "Damaged" /\ c.content # <<>>
    \/ Hits(c, msg) # {} /\ Screens(Deciding(c, msg), msg)

Transit(via) == IF via = None THEN Drop ELSE Decision("Route", None, via, None)

RouteFor(c, s, msg) ==
    CASE msg.dpc # c.pc -> Transit(Resolve(c, s, msg.dpc, msg.sls))
      [] msg.dpc = c.pc /\ OwnSubsystem(c, msg) -> Local
      [] OTHER -> IF Blocked(c, msg) THEN Drop ELSE Translated(c, s, msg)

(* The state after it: a group that was asked has moved on. *)
Routed(c, s, msg) ==
    IF msg.dpc # c.pc \/ OwnSubsystem(c, msg) \/ Blocked(c, msg) THEN s
    ELSE Selected(c, s, TargetFor(c, s, msg))

----------------------------------------------------------------------------
(* What else may stop a message.                                           *)

(* IsupScreen::screen: the first rule that matches, or the default, which  *)
(* a message that cannot be decoded gets too.                              *)
Screening(c, msg) == {i \in DOMAIN c.isupRules : msg.title \in c.isupRules[i].titles}

Verdict(c, msg) ==
    IF msg.content = "Damaged" \/ Screening(c, msg) = {} THEN c.isup
    ELSE c.isupRules[Nth(Screening(c, msg), 0)].action

ScreenedOut(c, msg) == msg.si = "ISUP" /\ c.isup # "None" /\ Verdict(c, msg) = "Block"

(* The types of message that a user of SCCP sends, and the one a return of *)
(* each is sent in.                                                        *)
Service == [UDT |-> "UDTS", XUDT |-> "XUDTS", LUDT |-> "LUDTS"]

HasHops(type) == type \in {"XUDT", "XUDTS", "LUDT", "LUDTS"}

(* admission::check.  The policy is the operator's; here it refuses the    *)
(* dialogues that are marked.                                              *)
RefusedBy(c, msg) ==
    c.policy /\ msg.si = "SCCP" /\ msg.type \in DOMAIN Service /\ msg.starts # "No" /\ msg.barred
=============================================================================
