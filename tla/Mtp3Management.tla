--------------------------- MODULE Mtp3Management ---------------------------
(***************************************************************************)
(* Signalling network management of one routing domain (ITU-T Q.704):      *)
(* src/mtp3/management.rs, a state machine without I/O or clock.           *)
(*                                                                         *)
(* Management is a record, and every method an operator from the record to *)
(* the record after the call.  The actions that the caller carries out at  *)
(* once and in order (perform in src/transport/management.rs) are applied  *)
(* where the code pushes them: timers is the set of deadlines that run,    *)
(* heldLinks and openLinks what each link was last told to do with its     *)
(* traffic, mark the marks of the routing table, holding the destinations  *)
(* whose traffic is held.  What goes to others, the messages and the       *)
(* commands to the links, is also kept in order in out.  What is only      *)
(* counted, logged or announced to the user parts (Note, Ignored,          *)
(* Congestion, Restarting, Accessibility, Restricted) is left out, and so  *)
(* are the lengths of the timers.                                          *)
(***************************************************************************)
EXTENDS Integers, Sequences

CONSTANTS
    LinksetOf,   \* the linkset of every link (LinkSpec::linkset); links are numbered
    Adjacent,    \* the adjacent point of every linkset, or NoPc; linksets are numbered
    Server,      \* the application servers
    Routes,      \* the routes of every destination, in priority order
    Pc,          \* the point codes messages are about
    NoPc,        \* the adjacent point of a linkset whose links do not say
    OwnPc,       \* own_pc
    TfpUnknown,  \* tfp_for_unknown_destination
    Fsn,         \* the sequence numbers of level 2
    NoFsn,       \* the number of a message that carries none
    FirstBsnt    \* the number before the first message: 0x00FF_FFFF

Link == DOMAIN LinksetOf
Linkset == DOMAIN Adjacent
Dest == DOMAIN Routes

LinksOf == [ls \in Linkset |-> {l \in Link : LinksetOf[l] = ls}]
RoutesOf(d) == DOMAIN Routes[d]
RoutesThrough(d, ls) == {r \in RoutesOf(d) : Routes[d][r].via = ls}

ASSUME LinksAssumption == Link \subseteq Nat /\ \A l \in Link : LinksetOf[l] \in Linkset
ASSUME AdjacentAssumption == NoPc \notin Pc /\ \A ls \in Linkset : Adjacent[ls] \in Pc \union {NoPc}
ASSUME RoutesAssumption ==
    /\ Dest \subseteq Pc /\ OwnPc \notin Dest
    /\ \A d \in Dest : Routes[d] \in Seq([via : Linkset \union Server, priority : Nat])
ASSUME ServerAssumption == Server \intersect Linkset = {}
ASSUME TfpUnknownAssumption == TfpUnknown \in BOOLEAN
ASSUME FsnAssumption == NoFsn \notin Fsn /\ FirstBsnt \in Fsn

RouteStatus == {"Allowed", "Restricted", "Prohibited"}

\* ChangebackDeclared { second: true } is ChangebackRepeated here.
Phase == {"Closed", "Open", "ChangeoverOrdered", "ChangeoverTimed", "ChangebackDeclared",
          "ChangebackRepeated", "ChangebackTimed", "AwaitRestart"}
Changeover == {"ChangeoverOrdered", "ChangeoverTimed"}
Declared == {"ChangebackDeclared", "ChangebackRepeated"}
Carrying == {"Open", "ChangebackTimed"} \union Declared

\* No changeover order from the far end waits for level 2.
NoOrder == [fsnc |-> NoFsn, emergency |-> FALSE, out |-> FALSE]
Order(fsnc, emergency) == [fsnc |-> fsnc, emergency |-> emergency, out |-> TRUE]

\* Declared is kept as the links a declaration went out on: a code names the
\* last 256 declarations apart, and an acknowledgement matches one or none.
NewLink ==
    [up |-> FALSE, phase |-> "Closed", remoteInhibited |-> FALSE, bsnt |-> FirstBsnt,
     back |-> FALSE, ordered |-> NoOrder, declared |-> {},
     uninhibitAttempts |-> 0, forceAttempts |-> 0]

\* A flag of a linkset or a destination is the set of those that have it.
NewManagement ==
    [link |-> [l \in Link |-> NewLink],
     restartingSets |-> {}, traSent |-> {}, traReceived |-> {}, guard |-> {}, synced |-> {},
     servers |-> {}, paused |-> {}, accessible |-> {}, restricted |-> {}, told |-> {},
     status |-> {}, holding |-> {}, deferred |-> {}, guarded |-> {},
     restarting |-> FALSE, restartDue |-> TRUE, isolated |-> TRUE,
     timers |-> {}, heldLinks |-> {}, openLinks |-> {}, mark |-> {}, out |-> <<>>]

\* status has <<d, r, s>> for a route r of d that is not allowed, and mark
\* <<d, ls, s>> for a linkset that the routing table has such a mark for.
StatusOf(m, d, r) ==
    CASE <<d, r, "Prohibited">> \in m.status -> "Prohibited"
      [] <<d, r, "Restricted">> \in m.status -> "Restricted"
      [] OTHER -> "Allowed"

SetStatus(m, d, r, status) ==
    LET others == {s \in m.status : s[1] # d \/ s[2] # r}
    IN  [m EXCEPT !.status = others \union ({<<d, r, status>>} \ {<<d, r, "Allowed">>})]

\* note_route_status, for several linksets of one destination at once.
SetMarks(m, d, marks) ==
    LET others == {s \in m.mark : s[1] # d \/ \A k \in marks : k[2] # s[2]}
    IN  [m EXCEPT !.mark = others \union {k \in marks : k[3] # "Allowed"}]

----------------------------------------------------------------------------
(* What the caller does with an action.                                    *)

Start(m, timer) == [m EXCEPT !.timers = @ \union {timer}]
Stop(m, timer) == [m EXCEPT !.timers = @ \ {timer}]

Push(m, action) == [m EXCEPT !.out = Append(@, action)]

\* Hold, Open and Divert also tell the link what to do with its traffic.
HoldAll(m, links) ==
    Push([m EXCEPT !.heldLinks = @ \union links, !.openLinks = @ \ links],
         [do |-> "Hold", links |-> links])
OpenAll(m, links) ==
    Push([m EXCEPT !.heldLinks = @ \ links, !.openLinks = @ \union links],
         [do |-> "Open", links |-> links])
Hold(m, l) == HoldAll(m, {l})
Open(m, l) == OpenAll(m, {l})
Divert(m, l, fsnc) ==
    Push([m EXCEPT !.heldLinks = @ \ {l}, !.openLinks = @ \ {l}],
         [do |-> "Divert", link |-> l, fsnc |-> fsnc])
FailLink(m, l) == Push(m, [do |-> "Fail", link |-> l])

\* Nothing is sent to a linkset whose adjacent point is not known.
SendAll(m, linksets, message, path) ==
    LET known == {ls \in linksets : Adjacent[ls] # NoPc}
    IN  IF known = {} THEN m
        ELSE Push(m, [do |-> "Send", to |-> known, message |-> message, path |-> path])
Send(m, ls, message, path) == SendAll(m, {ls}, message, path)

OnLink(l) == [on |-> "Link", link |-> l]
Behind(l) == [on |-> "Behind", link |-> l]
AnyLink == [on |-> "Adjacent", link |-> 0]
Avoiding(l) == [on |-> "Adjacent", link |-> l]

Tell(m, ls, message) == Send(m, ls, message, AnyLink)

LinkOrRoute(m, l) == IF m.link[l].up THEN OnLink(l) ELSE Avoiding(l)

About(l, name) == [name |-> name, link |-> l]
AboutFsn(l, name, fsn) == [name |-> name, link |-> l, fsn |-> fsn]
AboutDest(d, name) == [name |-> name, dest |-> d]
Tra == [name |-> "TRA"]

----------------------------------------------------------------------------
(* Availability.                                                           *)

LinkAvailable(m, l) == m.link[l].phase \in Carrying

LinksetAvailable(m, ls) == \E l \in LinksOf[ls] : LinkAvailable(m, l)

LinksetSignalling(m, ls) == \E l \in LinksOf[ls] : m.link[l].up

Usable(m, d, r) ==
    LET via == Routes[d][r].via
        status == StatusOf(m, d, r)
    IN  CASE d \in m.paused -> "No"
          [] d \notin m.paused /\ via \in Server -> IF via \in m.servers THEN "Yes" ELSE "No"
          [] d \notin m.paused /\ via \in Linkset ->
                 IF ~LinksetAvailable(m, via) \/ status = "Prohibited" THEN "No"
                 ELSE IF status = "Restricted" THEN "Restricted" ELSE "Yes"

FirstTier(d, usable) ==
    {r \in usable : \A s \in usable : Routes[d][r].priority <= Routes[d][s].priority}

\* The unrestricted routes, if there are any.
Unrestricted(m, d, tier) ==
    LET open == {r \in tier : Usable(m, d, r) = "Yes"} IN IF open = {} THEN tier ELSE open

InUse(m, d) ==
    Unrestricted(m, d, FirstTier(d, {r \in RoutesOf(d) : Usable(m, d, r) # "No"}))

\* A destination that is not configured is in no table.
Reachable(m, d) == d \in Dest /\ InUse(m, d) # {}

OnlyRestricted(m, d) ==
    LET Only(used) == used # {} /\ \A r \in used : Usable(m, d, r) = "Restricted"
    IN  Only(InUse(m, d))

CanTell(m, ls) == LinksetSignalling(m, ls) \/ Reachable(m, Adjacent[ls])

\* Not reachable, or reached by way of the linkset itself.
ProhibitedToward(m, d, ls) ==
    LET Against(used) == used = {} \/ \E r \in used : Routes[d][r].via = ls
    IN  d \notin Dest \/ Against(InUse(m, d))

----------------------------------------------------------------------------
(* What follows every input: settle and watch_isolation.                   *)

Guard(m, dests) ==
    [m EXCEPT !.guarded = @ \union dests, !.timers = @ \union {<<"Prohibited", d>> : d \in dests}]

Named == {ls \in Linkset : Adjacent[ls] # NoPc}

\* The adjacent points are told the difference between what they believe and
\* what is to be told.
Correct(m, believed, told) ==
    LET next == [m EXCEPT !.told = told]
    IN  IF told = believed THEN next
        ELSE Push(next, [do |-> "Broadcast", tfp |-> told \ believed, tfa |-> believed \ told])

\* A mistake: a point that goes out of reach stays in synced.
SpeakToSynced(m, tellable) ==
    LET believed == {p \in m.told : p[1] \notin tellable \ m.synced}
        spoken == {p \in tellable \X Dest : p[2] # Adjacent[p[1]]}
    IN  Correct([m EXCEPT !.synced = @ \union tellable], believed,
                (believed \ spoken) \union {p \in spoken : ProhibitedToward(m, p[2], p[1])})

\* A point that was out of reach believes nothing of what it was told before.
SpeakTo(m, tellable) ==
    LET believed == {p \in m.told : p[1] \notin tellable \ m.synced}
        spoken == {p \in tellable \X Dest : p[2] # Adjacent[p[1]]}
    IN  Correct([m EXCEPT !.synced = (@ \ Named) \union tellable], believed,
                (believed \ spoken) \union {p \in spoken : ProhibitedToward(m, p[2], p[1])})

Broadcast(m) == SpeakTo(m, {ls \in Named : CanTell(m, ls)})

\* A restarting node tells nobody.
Announce(m, lost) == IF m.restarting THEN m ELSE Broadcast(Guard(m, lost))

Settle(m) ==
    LET Given(reachable) ==
            Announce([m EXCEPT !.accessible = reachable,
                               !.restricted = {d \in reachable : OnlyRestricted(m, d)}],
                     m.accessible \ reachable)
    IN  Given({d \in Dest : Reachable(m, d)})

WatchIsolation(m) ==
    LET isolated == (\A l \in Link : ~m.link[l].up) /\ m.servers = {}
    IN  IF isolated = m.isolated THEN m
        ELSE IF isolated THEN Start([m EXCEPT !.isolated = TRUE], <<"Isolation">>)
        ELSE Stop([m EXCEPT !.isolated = FALSE], <<"Isolation">>)

Settled(m) == WatchIsolation(Settle(m))

----------------------------------------------------------------------------
(* Routes through a linkset are allowed again.                             *)

AllowRoutesThrough(m, linksets) ==
    LET cleared == {s \in m.status : Routes[s[1]][s[2]].via \in linksets}
        through == {<<s[1], Routes[s[1]][s[2]].via>> : s \in cleared}
    IN  [m EXCEPT !.status = @ \ cleared,
                  !.timers = @ \ {<<"RouteSetTest", p[1], p[2]>> : p \in through},
                  !.mark = {k \in @ : <<k[1], k[2]>> \notin through}]

----------------------------------------------------------------------------
(* Links: restoration and changeback (clause 6).                           *)

TimeControlledChangeback(m, l) ==
    Start(Hold([m EXCEPT !.link[l].phase = "ChangebackTimed"], l), <<"Changeback", l>>)

\* Some of the traffic the linkset should carry is on another route.
Diverted(m, ls) == \E d \in m.accessible : RoutesThrough(d, ls) # {}

StartTraffic(m, l) ==
    IF Diverted(m, LinksetOf[l]) THEN TimeControlledChangeback(m, l)
    ELSE Open(Settle([m EXCEPT !.link[l].phase = "Open"]), l)

DeclareChangeback(m, l, carrying) ==
    LET declared == [Hold(m, l) EXCEPT !.link[l].declared = carrying,
                                       !.link[l].phase = "ChangebackDeclared"]
    IN  Start(Push(declared, [do |-> "Declare", link |-> l, behind |-> carrying]),
              <<"Changeback", l>>)

BeginAdjacentRestart(m, l, ls) ==
    LET begun == [m EXCEPT !.restartingSets = @ \union {ls}, !.traReceived = @ \ {ls},
                           !.synced = @ \ {ls}]
        waits == [AllowRoutesThrough(begun, {ls}) EXCEPT !.link[l].phase = "AwaitRestart"]
    IN  [Send(Settle(Start(waits, <<"AdjacentRestart", ls>>)), ls, Tra, OnLink(l)) EXCEPT
            !.traSent = @ \union {ls}]

\* A link that is up and not inhibited is to carry traffic again.
Restore(m, l) ==
    LET ls == LinksetOf[l]
        carrying == {k \in LinksOf[ls] \ {l} : m.link[k].phase = "Open"}
    IN  IF m.restarting \/ ls \in m.restartingSets
        THEN [m EXCEPT !.link[l].phase = "AwaitRestart"]
        ELSE IF LinksetAvailable(m, ls)
        THEN IF carrying = {} \/ Adjacent[ls] = NoPc THEN TimeControlledChangeback(m, l)
             ELSE DeclareChangeback(m, l, carrying)
        ELSE IF Adjacent[ls] # NoPc /\ ~Reachable(m, Adjacent[ls])
        THEN BeginAdjacentRestart(m, l, ls)
        ELSE StartTraffic(m, l)

FinishChangeback(m, l) ==
    Open(Stop([m EXCEPT !.link[l].declared = {}, !.link[l].phase = "Open"], <<"Changeback", l>>), l)

----------------------------------------------------------------------------
(* Links: failure and changeover (clause 5).                               *)

\* A mistake: T1 is not started when there is no path for the order.
BeginChangeoverUntimed(m, l) ==
    LET ls == LinksetOf[l]
        held == Hold(m, l)
        ordered == [held EXCEPT !.link[l].phase = "ChangeoverOrdered"]
    IN  IF CanTell(ordered, ls) /\ Adjacent[ls] # NoPc
        THEN Start(Send(ordered, ls, AboutFsn(l, "XCO", m.link[l].bsnt), Avoiding(l)),
                   <<"Changeover", l>>)
        ELSE [held EXCEPT !.link[l].phase = "ChangeoverTimed"]

BeginChangeover(m, l) ==
    LET ls == LinksetOf[l]
        held == Hold(m, l)
        ordered == [held EXCEPT !.link[l].phase = "ChangeoverOrdered"]
        timed == [held EXCEPT !.link[l].phase = "ChangeoverTimed"]
    IN  Start(IF CanTell(ordered, ls) /\ Adjacent[ls] # NoPc
              THEN Send(ordered, ls, AboutFsn(l, "XCO", m.link[l].bsnt), Avoiding(l))
              ELSE timed,
              <<"Changeover", l>>)

\* A mistake: a link that came up during its changeover is not restored.
CompleteAndForget(m, l, fsnc) ==
    LET closed == [Stop(m, <<"Changeover", l>>) EXCEPT !.link[l].phase = "Closed"]
    IN  [Divert(closed, l, fsnc) EXCEPT !.link[l].back = FALSE]

CompleteChangeover(m, l, fsnc) ==
    LET closed == [Stop(m, <<"Changeover", l>>) EXCEPT !.link[l].phase = "Closed"]
        diverted == [Divert(closed, l, fsnc) EXCEPT !.link[l].back = FALSE]
    IN  IF m.link[l].back /\ m.link[l].up /\ ~m.link[l].remoteInhibited
        THEN Restore(diverted, l) ELSE diverted

AcknowledgeOrder(m, l, emergency) ==
    Send(m, LinksetOf[l],
         IF emergency THEN About(l, "ECA") ELSE AboutFsn(l, "XCA", m.link[l].bsnt), Avoiding(l))

ChangeoverOrder(m, l, fsnc, emergency) ==
    IF m.link[l].phase \in Changeover /\ ~m.link[l].up
    THEN CompleteChangeover(AcknowledgeOrder(m, l, emergency), l, fsnc)
    ELSE IF m.link[l].up
    THEN FailLink([m EXCEPT !.link[l].ordered = Order(fsnc, emergency)], l)
    ELSE Send(m, LinksetOf[l], About(l, "ECA"), Avoiding(l))

ChangeoverAcknowledgement(m, l, fsnc) ==
    IF m.link[l].phase = "ChangeoverOrdered" THEN CompleteChangeover(m, l, fsnc) ELSE m

\* No link of the linkset is up any more: its adjacent point is not waited for.
AbandonAdjacentRestart(m, ls) ==
    IF LinksetSignalling(m, ls) THEN m
    ELSE Stop([m EXCEPT !.restartingSets = @ \ {ls}, !.traSent = @ \ {ls},
                        !.traReceived = @ \ {ls}],
              <<"AdjacentRestart", ls>>)

LinkDown(m, l, bsnt) ==
    LET order == m.link[l].ordered
        down == [m EXCEPT !.link[l].up = FALSE, !.link[l].bsnt = bsnt, !.link[l].back = FALSE,
                          !.link[l].ordered = NoOrder]
        answered == IF order.out THEN AcknowledgeOrder(down, l, order.emergency) ELSE down
        stopped == Stop([answered EXCEPT !.link[l].declared = {}], <<"Changeback", l>>)
    IN  AbandonAdjacentRestart(
            CASE m.link[l].phase \in Carrying /\ order.out ->
                     CompleteChangeover(Hold(stopped, l), l, order.fsnc)
              [] m.link[l].phase \in Carrying /\ ~order.out -> BeginChangeover(stopped, l)
              [] m.link[l].phase \in Changeover /\ order.out ->
                     CompleteChangeover(answered, l, order.fsnc)
              [] m.link[l].phase = "AwaitRestart" -> [answered EXCEPT !.link[l].phase = "Closed"]
              [] OTHER -> answered,
            LinksetOf[l])

----------------------------------------------------------------------------
(* Management inhibiting (clause 10).                                      *)

\* A mistake: another link that is only up is taken to carry the traffic.
WouldLeaveNoLink(m, l) == \A k \in LinksOf[LinksetOf[l]] \ {l} : ~m.link[k].up

\* Without the link, a destination that is reachable now would not be.
WouldIsolate(m, l) ==
    LET without == [m EXCEPT !.link[l].phase = "Closed"]
    IN  \E d \in Dest : Reachable(m, d) /\ ~Reachable(without, d)

SendAbout(m, l, name) == Send(m, LinksetOf[l], About(l, name), LinkOrRoute(m, l))

Inhibit(m, l) ==
    LET marked == SendAbout([m EXCEPT !.link[l].remoteInhibited = TRUE], l, "LIA")
        leaving == [marked EXCEPT !.link[l].declared = {}, !.link[l].phase = "ChangeoverTimed"]
        left == CASE m.link[l].phase \in Carrying ->
                         Start(Hold(Stop(leaving, <<"Changeback", l>>), l), <<"Changeover", l>>)
                  [] m.link[l].phase = "AwaitRestart" ->
                         [marked EXCEPT !.link[l].phase = "Closed"]
                  [] OTHER -> marked
    IN  Start(left, <<"InhibitTest", l>>)

Lin(m, l) ==
    IF m.link[l].remoteInhibited THEN SendAbout(m, l, "LIA")
    ELSE IF LinkAvailable(m, l) /\ WouldIsolate(m, l) THEN SendAbout(m, l, "LID")
    ELSE Inhibit(m, l)

Lun(m, l) ==
    LET answered == Stop([SendAbout(m, l, "LUA") EXCEPT !.link[l].forceAttempts = 0],
                         <<"ForceUninhibit", l>>)
        lifted == Stop([answered EXCEPT !.link[l].remoteInhibited = FALSE], <<"InhibitTest", l>>)
    IN  IF ~m.link[l].remoteInhibited THEN answered
        ELSE IF ~m.link[l].up THEN lifted
        ELSE IF m.link[l].phase = "Closed" THEN Restore(lifted, l)
        ELSE IF m.link[l].phase \in Changeover THEN [lifted EXCEPT !.link[l].back = TRUE]
        ELSE lifted

Lfu(m, l) == SendAbout(m, l, "LUN")

Lua(m, l) ==
    IF m.link[l].uninhibitAttempts = 0 THEN m
    ELSE Stop([m EXCEPT !.link[l].uninhibitAttempts = 0], <<"Uninhibit", l>>)

Llt(m, l) ==
    IF m.link[l].remoteInhibited \/ m.link[l].forceAttempts # 0 THEN m
    ELSE Start(SendAbout([m EXCEPT !.link[l].forceAttempts = 1], l, "LFU"), <<"ForceUninhibit", l>>)

Lrt(m, l) ==
    IF m.link[l].uninhibitAttempts # 0 THEN m
    ELSE Start(SendAbout([m EXCEPT !.link[l].uninhibitAttempts = 1], l, "LUN"), <<"Uninhibit", l>>)

\* T12 or T13 ran out: once more, then give up.
RepeatUninhibit(m, l) ==
    CASE m.link[l].uninhibitAttempts = 0 -> m
      [] m.link[l].uninhibitAttempts = 1 ->
             Start(SendAbout([m EXCEPT !.link[l].uninhibitAttempts = 2], l, "LUN"), <<"Uninhibit", l>>)
      [] OTHER -> [m EXCEPT !.link[l].uninhibitAttempts = 0]

RepeatForceUninhibit(m, l) ==
    CASE m.link[l].forceAttempts = 0 -> m
      [] m.link[l].forceAttempts = 1 ->
             Start(SendAbout([m EXCEPT !.link[l].forceAttempts = 2], l, "LFU"), <<"ForceUninhibit", l>>)
      [] OTHER -> [m EXCEPT !.link[l].forceAttempts = 0]

----------------------------------------------------------------------------
(* Routes (clause 13).                                                     *)

\* The deferred marks of a destination go into the routing table.
ApplyDeferred(m, d) ==
    LET deferred == {k \in m.deferred : k[1] = d}
    IN  [SetMarks(m, d, deferred) EXCEPT !.deferred = @ \ deferred]

\* They are applied together, so the last mark of each linkset is the one that
\* counts.
Defer(m, d, ls, status) ==
    [m EXCEPT !.deferred = {k \in @ : k[1] # d \/ k[2] # ls} \union {<<d, ls, status>>}]

\* T6 is over, or a transfer-prohibited ends it: the traffic moves on.
Release(m, d) ==
    Push(Stop([m EXCEPT !.holding = @ \ {d}], <<"Rerouting", d>>), [do |-> "Release", dest |-> d])

HoldDestination(m, d) ==
    Start(Push([m EXCEPT !.holding = @ \union {d}], [do |-> "HoldDestination", dest |-> d]),
          <<"Rerouting", d>>)

FirstRouteThrough(d, ls) ==
    CHOOSE r \in RoutesThrough(d, ls) : \A s \in RoutesThrough(d, ls) : r <= s

\* The traffic goes from some routes to others.
Moves(before, after) == before # after /\ before # {} /\ after # {}

\* A mistake: a transfer-prohibited waits for T6 as the others do.
MarkRouteLater(m, ls, d, status) ==
    LET noted == SetStatus(m, d, FirstRouteThrough(d, ls), status)
        tested == IF status = "Allowed" THEN Stop(noted, <<"RouteSetTest", d, ls>>)
                  ELSE Start(noted, <<"RouteSetTest", d, ls>>)
        deferred == Defer(tested, d, ls, status)
    IN  IF d \in m.holding THEN deferred
        ELSE IF Moves(InUse(m, d), InUse(noted, d)) THEN HoldDestination(deferred, d)
        ELSE SetMarks(tested, d, {<<d, ls, status>>})

\* A transfer-prohibited, -restricted or -allowed about a known route.
MarkRoute(m, ls, d, status) ==
    LET noted == SetStatus(m, d, FirstRouteThrough(d, ls), status)
        tested == IF status = "Allowed" THEN Stop(noted, <<"RouteSetTest", d, ls>>)
                  ELSE Start(noted, <<"RouteSetTest", d, ls>>)
        deferred == Defer(tested, d, ls, status)
        forced == SetMarks(ApplyDeferred(tested, d), d, {<<d, ls, status>>})
    IN  IF status = "Prohibited" THEN (IF d \in m.holding THEN Release(forced, d) ELSE forced)
        ELSE IF d \in m.holding THEN deferred
        ELSE IF Moves(InUse(m, d), InUse(noted, d)) THEN HoldDestination(deferred, d)
        ELSE SetMarks(tested, d, {<<d, ls, status>>})

RouteMessage(m, ls, d, status) ==
    IF d \notin Dest THEN m
    ELSE IF RoutesThrough(d, ls) = {} THEN m
    ELSE IF StatusOf(m, d, FirstRouteThrough(d, ls)) = status THEN m
    ELSE MarkRoute(m, ls, d, status)

TellAbout(m, ls, d, prohibited) ==
    LET told == IF d \notin Dest THEN m
                ELSE [m EXCEPT !.told = IF prohibited THEN @ \union {<<ls, d>>} ELSE @ \ {<<ls, d>>}]
    IN  Tell(told, ls, AboutDest(d, IF prohibited THEN "TFP" ELSE "TFA"))

\* A mistake: the answer goes by what the sender was last told.
RouteSetTestAsTold(m, ls, d, believes) ==
    LET prohibited == ProhibitedToward(m, d, ls)
    IN  IF (<<ls, d>> \in m.told) = prohibited THEN m ELSE TellAbout(m, ls, d, prohibited)

RouteSetTest(m, ls, d, believes) ==
    LET prohibited == ProhibitedToward(m, d, ls)
    IN  IF believes = (IF prohibited THEN "Prohibited" ELSE "Allowed") THEN m
        ELSE TellAbout(m, ls, d, prohibited)

\* The response method: a message for d that arrived on l cannot be transferred.
Unroutable(m, d, l) ==
    LET ls == LinksetOf[l]
    IN  IF \/ m.restarting \/ d = OwnPc \/ d \in m.guarded \/ Adjacent[ls] = NoPc
           \/ (d \notin Dest /\ ~TfpUnknown)
        THEN m
        ELSE Guard(TellAbout(m, ls, d, TRUE), {d})

----------------------------------------------------------------------------
(* MTP restart (clause 9).                                                 *)

BeginRestart(m) ==
    LET begun == [m EXCEPT !.restarting = TRUE, !.restartDue = FALSE, !.traReceived = {},
                           !.timers = @ \union {<<"Restart">>, <<"RestartOverall">>}]
    IN  AllowRoutesThrough(begun, Linkset)

Placed(m, links, phase) ==
    [m EXCEPT !.link = [l \in Link |-> IF l \in links THEN [m.link[l] EXCEPT !.phase = phase]
                                       ELSE m.link[l]]]

\* Traffic restart allowed goes to linksets, and an answer is not answered.
Invite(m, linksets) ==
    [SendAll(m, linksets, Tra, AnyLink) EXCEPT
        !.traSent = @ \union linksets, !.guard = @ \union linksets,
        !.timers = @ \union {<<"RestartAllowed", ls>> : ls \in linksets}]

\* A mistake: the links are opened, and traffic restart allowed is sent, first.
EndRestartUntold(m) ==
    LET opened == {l \in Link : m.link[l].phase = "AwaitRestart"}
        over == [Placed(m, opened, "Open") EXCEPT
                    !.restarting = FALSE, !.timers = @ \ {<<"Restart">>, <<"RestartOverall">>},
                    !.synced = {}]
        there == {ls \in Linkset : LinksetSignalling(m, ls)}
    IN  IF m.restarting THEN Settle(Invite(OpenAll(over, opened), there)) ELSE m

\* The second phase: the links that waited are opened once every adjacent
\* point knows what not to send, and each is told that traffic may restart.
EndRestart(m) ==
    LET opened == {l \in Link : m.link[l].phase = "AwaitRestart"}
        over == [Placed(m, opened, "Open") EXCEPT
                    !.restarting = FALSE, !.timers = @ \ {<<"Restart">>, <<"RestartOverall">>},
                    !.synced = {}]
        there == {ls \in Linkset : LinksetSignalling(m, ls)}
    IN  IF m.restarting THEN Invite(OpenAll(Settle(over), opened), there) ELSE m

\* One traffic restart allowed from every adjacent point is enough.
RestartProgress(m) ==
    IF \A ls \in Linkset :
          Adjacent[ls] = NoPc \/ (ls \in m.traReceived /\ LinksetSignalling(m, ls))
    THEN EndRestart(m) ELSE m

LinkUp(m, l) ==
    LET begins == m.restartDue /\ ~m.restarting /\ m.isolated
        begun == IF begins THEN BeginRestart(m) ELSE m
        up == [begun EXCEPT !.restartDue = @ /\ m.isolated, !.link[l].up = TRUE]
        Further(placed) == IF placed.restarting THEN RestartProgress(placed) ELSE placed
    IN  Further(CASE m.link[l].phase \in Changeover -> [up EXCEPT !.link[l].back = TRUE]
                  [] m.link[l].phase = "Closed" /\ ~m.link[l].remoteInhibited -> Restore(up, l)
                  [] OTHER -> up)

\* The links that waited with the first, which start_traffic has started: when
\* that made a destination accessible they find their traffic diverted to it,
\* and settling again changes nothing.
StartOthers(m, ls, links) ==
    IF links = {} THEN m
    ELSE IF Diverted(m, ls)
    THEN HoldAll([Placed(m, links, "ChangebackTimed") EXCEPT
                     !.timers = @ \union {<<"Changeback", l>> : l \in links}], links)
    ELSE OpenAll(Placed(m, links, "Open"), links)

\* start_traffic for every link that waited, in their order.
EndAdjacentRestart(m, ls) ==
    LET over == Stop([m EXCEPT !.restartingSets = @ \ {ls}], <<"AdjacentRestart", ls>>)
        waiting == {l \in LinksOf[ls] : m.link[l].phase = "AwaitRestart"}
        first == CHOOSE l \in waiting : \A k \in waiting : l <= k
    IN  IF waiting = {} THEN over
        ELSE StartOthers(StartTraffic(over, first), ls, waiting \ {first})

\* A mistake: a point that has restarted is taken to know what it was told.
TrafficRestartSynced(m, ls) ==
    LET received == [m EXCEPT !.traReceived = @ \union {ls}]
    IN  IF m.restarting THEN RestartProgress(received)
        ELSE IF ls \in m.restartingSets
        THEN (IF ls \in m.traSent THEN EndAdjacentRestart(received, ls) ELSE received)
        ELSE IF ls \in m.guard THEN m
        ELSE Start([Tell(Settle(m), ls, Tra) EXCEPT !.guard = @ \union {ls}], <<"RestartAllowed", ls>>)

TrafficRestartAllowed(m, ls) ==
    LET received == [m EXCEPT !.traReceived = @ \union {ls}]
    IN  IF m.restarting THEN RestartProgress(received)
        ELSE IF ls \in m.restartingSets
        THEN (IF ls \in m.traSent THEN EndAdjacentRestart(received, ls) ELSE received)
        ELSE IF ls \in m.guard THEN m
        ELSE Start([Tell(Settle([m EXCEPT !.synced = @ \ {ls}]), ls, Tra) EXCEPT
                       !.guard = @ \union {ls}],
                   <<"RestartAllowed", ls>>)

----------------------------------------------------------------------------
(* Timers that do more than call one of the above.                         *)

ChangeoverTimeout(m, l) ==
    IF m.link[l].phase \in Changeover THEN CompleteChangeover(m, l, NoFsn) ELSE m

\* A mistake: a declaration that is not acknowledged twice is left.
ChangebackTimeoutOnce(m, l) ==
    CASE m.link[l].phase = "ChangebackDeclared" ->
             Start(Push([m EXCEPT !.link[l].phase = "ChangebackRepeated"],
                        [do |-> "Declare", link |-> l, behind |-> m.link[l].declared]),
                   <<"Changeback", l>>)
      [] m.link[l].phase = "ChangebackTimed" -> FinishChangeback(m, l)
      [] OTHER -> m

ChangebackTimeout(m, l) ==
    CASE m.link[l].phase = "ChangebackDeclared" ->
             Start(Push([m EXCEPT !.link[l].phase = "ChangebackRepeated"],
                        [do |-> "Declare", link |-> l, behind |-> m.link[l].declared]),
                   <<"Changeback", l>>)
      [] m.link[l].phase \in {"ChangebackRepeated", "ChangebackTimed"} -> FinishChangeback(m, l)
      [] OTHER -> m

ChangebackAcknowledgement(m, l, behind) ==
    LET left == m.link[l].declared \ {behind}
        matched == behind \in m.link[l].declared /\ m.link[l].phase \in Declared
        noted == [m EXCEPT !.link[l].declared = left]
    IN  IF matched /\ left = {} THEN FinishChangeback(noted, l) ELSE noted

ReroutingTimeout(m, d) == IF d \in m.holding THEN Release(ApplyDeferred(m, d), d) ELSE m

RouteSetTestTimeout(m, d, ls) ==
    LET status == StatusOf(m, d, FirstRouteThrough(d, ls))
        test == AboutDest(d, IF status = "Prohibited" THEN "RST" ELSE "RSR")
    IN  IF status = "Allowed" THEN m
        ELSE Start(IF ~m.restarting /\ CanTell(m, ls) THEN Tell(m, ls, test) ELSE m,
                   <<"RouteSetTest", d, ls>>)

InhibitTestTimeout(m, l) ==
    IF m.link[l].remoteInhibited
    THEN Start(SendAbout(m, l, "LRT"), <<"InhibitTest", l>>) ELSE m

Timeout(m, t) ==
    CASE t[1] = "Changeover" -> ChangeoverTimeout(m, t[2])
      [] t[1] = "Changeback" -> ChangebackTimeout(m, t[2])
      [] t[1] = "Rerouting" -> ReroutingTimeout(m, t[2])
      [] t[1] = "Prohibited" -> [m EXCEPT !.guarded = @ \ {t[2]}]
      [] t[1] = "RouteSetTest" -> RouteSetTestTimeout(m, t[2], t[3])
      [] t[1] = "Uninhibit" -> RepeatUninhibit(m, t[2])
      [] t[1] = "ForceUninhibit" -> RepeatForceUninhibit(m, t[2])
      [] t[1] = "InhibitTest" -> InhibitTestTimeout(m, t[2])
      [] t[1] \in {"Restart", "RestartOverall"} -> EndRestart(m)
      [] t[1] = "RestartAllowed" -> [m EXCEPT !.guard = @ \ {t[2]}]
      [] t[1] = "AdjacentRestart" ->
             IF t[2] \in m.restartingSets THEN EndAdjacentRestart(m, t[2]) ELSE m
      [] t[1] = "Isolation" -> [m EXCEPT !.restartDue = @ \/ m.isolated]
====
