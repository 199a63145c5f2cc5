---------------------------- MODULE Level3Proofs ----------------------------
(***************************************************************************)
(* Proofs about Level3.                                                    *)
(*                                                                         *)
(* A method of Management mostly works on one link.  While it does, that   *)
(* link is between two phases, and everything else must go on to hold:     *)
(* Apart.  Its last steps put the link where NoLinkIsForgotten and         *)
(* EveryWaitIsTimed want it.                                               *)
(*                                                                         *)
(* The second half is about what the adjacent points hear.  A method says  *)
(* nothing about destinations, or changes no way to one, or settles and    *)
(* changes none after that (Talks); so what a point has heard is what this *)
(* node has recorded of it, and it hears that before traffic may go on.    *)
(***************************************************************************)
EXTENDS Level3, Recursion

----------------------------------------------------------------------------
(* Types.                                                                  *)

LinkTimer == {"Changeover", "Changeback", "InhibitTest", "Uninhibit", "ForceUninhibit"}

Timers ==
    LinkTimer \X Link \cup {"AdjacentRestart", "RestartAllowed"} \X Linkset
        \cup {"Rerouting"} \X Dest \cup {"Prohibited"} \X Pc
        \cup {"RouteSetTest"} \X Dest \X Linkset
        \cup {<<"Restart">>, <<"RestartOverall">>, <<"Isolation">>}

Orders == [fsnc : Fsn \cup {NoFsn}, emergency : BOOLEAN, out : BOOLEAN]

LinkStates ==
    [up : BOOLEAN, phase : Phase, remoteInhibited : BOOLEAN, bsnt : Fsn,
     back : BOOLEAN, ordered : Orders, declared : SUBSET Link,
     uninhibitAttempts : 0 .. 2, forceAttempts : 0 .. 2]

Fields ==
    {"link", "restartingSets", "traSent", "traReceived", "guard", "synced",
     "servers", "paused", "accessible", "restricted", "told",
     "status", "holding", "deferred", "guarded",
     "restarting", "restartDue", "isolated",
     "timers", "heldLinks", "openLinks", "mark", "out"}

\* A route that is not allowed is the first one through its linkset.
Statuses ==
    {s \in Dest \X Nat \X {"Restricted", "Prohibited"} :
        \E ls \in Linkset : RoutesThrough(s[1], ls) # {} /\ s[2] = FirstRouteThrough(s[1], ls)}

Shape(s) ==
    /\ DOMAIN s = Fields
    /\ s.link \in [Link -> LinkStates]
    /\ {s.restarting, s.restartDue, s.isolated} \subseteq BOOLEAN
    /\ s.restartingSets \subseteq Linkset /\ s.guard \subseteq Linkset
    /\ s.accessible \subseteq Dest /\ s.holding \subseteq Dest /\ s.guarded \subseteq Pc
    /\ s.status \subseteq Statuses
    /\ s.timers \subseteq Timers

----------------------------------------------------------------------------
(* The invariant.  E are the timers that have run out and are still to be  *)
(* fed, after the input in hand.                                           *)

Runs(s, E, t) == t \in s.timers \cup E

\* What holds of a link whatever its phase.
Base(s, E, l) ==
    LET k == s.link[l] IN
    /\ k.ordered.out => k.up
    /\ k.remoteInhibited => Runs(s, E, <<"InhibitTest", l>>)
    /\ k.uninhibitAttempts > 0 => Runs(s, E, <<"Uninhibit", l>>)
    /\ k.forceAttempts > 0 => Runs(s, E, <<"ForceUninhibit", l>>)

\* What holds of its phase.
Phased(s, E, l) ==
    LET k == s.link[l] IN
    /\ k.up /\ ~k.remoteInhibited => k.phase # "Closed" /\ (k.phase \in Changeover => k.back)
    /\ k.phase \in Carrying \cup {"AwaitRestart"} => k.up /\ ~k.remoteInhibited
    /\ k.phase = "AwaitRestart" => s.restarting \/ LinksetOf[l] \in s.restartingSets
    /\ l \in s.openLinks <=> k.phase = "Open"
    /\ l \in s.heldLinks <=> k.phase \in Changeover \cup Declared \cup {"ChangebackTimed"}
    /\ k.phase \in Changeover => Runs(s, E, <<"Changeover", l>>)
    /\ k.phase \in Declared \cup {"ChangebackTimed"} => Runs(s, E, <<"Changeback", l>>)

LinkOk(s, E, l) == Base(s, E, l) /\ Phased(s, E, l)

\* The marks of the routing table: TableIsRight, with what waits for T6.
TableOk(s) ==
    /\ \A d \in Dest, ls \in Linkset :
          RoutesThrough(d, ls) # {} =>
              LET r == FirstRouteThrough(d, ls) IN
              /\ <<d, r, "Prohibited">> \in s.status => <<d, ls, "Prohibited">> \in s.mark
              /\ <<d, ls, "Prohibited">> \in s.mark =>
                    \/ <<d, r, "Prohibited">> \in s.status
                    \/ \E k \in s.deferred : k[1] = d /\ k[2] = ls
    /\ \A k \in s.deferred :
          /\ k[1] \in s.holding /\ k[3] # "Prohibited"
          /\ k[2] \in Linkset /\ RoutesThrough(k[1], k[2]) # {}
          /\ <<k[1], FirstRouteThrough(k[1], k[2]), "Prohibited">> \notin s.status

\* The routes, and who is not to be told again.
RoutesOk(s, E) ==
    /\ \A ls \in s.guard : Runs(s, E, <<"RestartAllowed", ls>>)
    /\ \A d \in s.holding : Runs(s, E, <<"Rerouting", d>>)
    /\ \A x \in s.status : Runs(s, E, <<"RouteSetTest", x[1], Routes[x[1]][x[2]].via>>)
    /\ \A d \in s.guarded : Runs(s, E, <<"Prohibited", d>>)
    /\ TableOk(s)

\* The restarts.
RestartsOk(s, E) ==
    /\ \A ls \in s.restartingSets : Runs(s, E, <<"AdjacentRestart", ls>>)
    /\ s.restarting => Runs(s, E, <<"Restart">>) \/ Runs(s, E, <<"RestartOverall">>)

RestOk(s, E) == RoutesOk(s, E) /\ RestartsOk(s, E)

IsolationOk(s, E) == s.isolated => s.restartDue \/ Runs(s, E, <<"Isolation">>)

\* All of it, but for the phases of the links of L.
Apart(s, E, L) ==
    /\ Shape(s) /\ RestOk(s, E)
    /\ \A l \in Link : Base(s, E, l)
    /\ \A l \in Link \ L : Phased(s, E, l)

Sound(s, E) == Apart(s, E, {})

----------------------------------------------------------------------------
(* What a step of a method keeps.                                          *)

\* Only the links of L change, and what holds of the rest goes on to hold.
Around(s, n, E, L) ==
    /\ Shape(n)
    /\ RestOk(s, E) => RestOk(n, E)
    /\ n.restarting = s.restarting /\ n.restartDue = s.restartDue /\ n.isolated = s.isolated
    /\ s.restartingSets \subseteq n.restartingSets
    /\ <<"Isolation">> \in s.timers => <<"Isolation">> \in n.timers
    /\ \A k \in Link \ L :
          /\ n.link[k] = s.link[k]
          /\ k \in n.openLinks <=> k \in s.openLinks
          /\ k \in n.heldLinks <=> k \in s.heldLinks
          /\ \A t \in LinkTimer : <<t, k>> \in s.timers => <<t, k>> \in n.timers

\* No link is inhibited that was not.
NoneInhibited(s, n) ==
    \A l \in Link : n.link[l].remoteInhibited => s.link[l].remoteInhibited

\* Nothing changes but what is sent, what is accessible, and who was told.
Still(s, n) ==
    /\ Shape(n)
    /\ n.link = s.link /\ n.openLinks = s.openLinks /\ n.heldLinks = s.heldLinks
    /\ n.restartingSets = s.restartingSets /\ n.guard = s.guard
    /\ n.servers = s.servers /\ n.paused = s.paused
    /\ n.status = s.status /\ n.holding = s.holding /\ n.deferred = s.deferred /\ n.mark = s.mark
    /\ n.restarting = s.restarting /\ n.restartDue = s.restartDue /\ n.isolated = s.isolated
    /\ s.timers \subseteq n.timers
    /\ \A d \in n.guarded : d \in s.guarded \/ <<"Prohibited", d>> \in n.timers

LEMMA StillOn ==
    ASSUME NEW s, NEW n, NEW o, Still(s, n), Still(n, o)
    PROVE  Still(s, o)
BY DEF Still

LEMMA StillItself ==
    ASSUME NEW s, Shape(s)
    PROVE  Still(s, s)
BY DEF Still

\* More timers and nothing else that RestOk is about.
LEMMA StillRest ==
    ASSUME NEW s, NEW n, NEW E, Still(s, n)
    PROVE  /\ RoutesOk(s, E) => RoutesOk(n, E)
           /\ RestartsOk(s, E) => RestartsOk(n, E)
           /\ RestOk(s, E) => RestOk(n, E)
BY DEF Still, RestOk, RoutesOk, RestartsOk, TableOk, Runs

LEMMA StillAround ==
    ASSUME NEW s, NEW n, NEW E, NEW L, Still(s, n)
    PROVE  Around(s, n, E, L) /\ NoneInhibited(s, n)
BY StillRest DEF Still, Around, NoneInhibited

LEMMA StillPhased ==
    ASSUME NEW s, NEW n, NEW E, Still(s, n), NEW l \in Link
    PROVE  /\ Base(s, E, l) => Base(n, E, l)
           /\ Phased(s, E, l) => Phased(n, E, l)
BY DEF Still, Base, Phased, Runs

LEMMA StillApart ==
    ASSUME NEW s, NEW n, NEW E, NEW L, Still(s, n), Apart(s, E, L)
    PROVE  Apart(n, E, L)
BY StillRest, StillPhased DEF Apart, Still

LEMMA AroundOn ==
    ASSUME NEW s, NEW n, NEW o, NEW E, NEW L, Around(s, n, E, L), Around(n, o, E, L)
    PROVE  Around(s, o, E, L)
BY DEF Around

\* The links of L are put right.
LEMMA AroundApart ==
    ASSUME NEW s, NEW n, NEW E, NEW L, NEW K, Apart(s, E, L), K \subseteq L,
           Around(s, n, E, K),
           \A l \in K \cap Link : Base(n, E, l) /\ Phased(n, E, l)
    PROVE  Apart(n, E, L \ K)
<1>1. ASSUME NEW l \in Link \ K PROVE Base(n, E, l)
    BY DEF Apart, Around, Base, Runs, LinkTimer
<1>2. ASSUME NEW l \in Link \ L PROVE Phased(n, E, l)
    BY DEF Apart, Around, Phased, Runs, LinkTimer
<1> QED BY <1>1, <1>2 DEF Apart, Around

----------------------------------------------------------------------------
(* What the caller does with an action, and settle.                        *)

\* An action that is only sent.
LEMMA PushStill ==
    ASSUME NEW s, Shape(s), NEW action
    PROVE  Still(s, Push(s, action))
BY DEF Push, Shape, Still, Fields

\* send.
LEMMA SendAllStill ==
    ASSUME NEW s, Shape(s), NEW linksets, NEW message, NEW path
    PROVE  Still(s, SendAll(s, linksets, message, path))
BY PushStill, StillItself DEF SendAll

LEMMA SendStill ==
    ASSUME NEW s, Shape(s), NEW ls, NEW message, NEW path
    PROVE  Still(s, Send(s, ls, message, path))
BY SendAllStill DEF Send

\* A message about a link, or to an adjacent point.
LEMMA SendAboutStill ==
    ASSUME NEW s, Shape(s), NEW l, NEW name
    PROVE  Still(s, SendAbout(s, l, name))
BY SendStill DEF SendAbout

LEMMA TellStill ==
    ASSUME NEW s, Shape(s), NEW ls, NEW message
    PROVE  Still(s, Tell(s, ls, message))
BY SendStill DEF Tell

LEMMA AcknowledgeStill ==
    ASSUME NEW s, Shape(s), NEW l, NEW emergency
    PROVE  Still(s, AcknowledgeOrder(s, l, emergency))
BY SendStill DEF AcknowledgeOrder

\* A timer that starts.
LEMMA StartStill ==
    ASSUME NEW s, Shape(s), NEW t \in Timers
    PROVE  Still(s, Start(s, t)) /\ t \in Start(s, t).timers
BY DEF Start, Shape, Still, Fields

\* T8 of some destinations.
LEMMA GuardStill ==
    ASSUME NEW s, Shape(s), NEW dests \in SUBSET Pc
    PROVE  Still(s, Guard(s, dests))
<1>1. \A d \in dests : <<"Prohibited", d>> \in Timers
    BY DEF Timers
<1>2. {<<"Prohibited", d>> : d \in dests} \subseteq Timers
    BY <1>1
<1>3. \A d \in dests : <<"Prohibited", d>> \in {<<"Prohibited", c>> : c \in dests}
    OBVIOUS
<1> DEFINE more == {<<"Prohibited", d>> : d \in dests}
<1> HIDE DEF more
<1>4. Guard(s, dests) = [s EXCEPT !.guarded = @ \cup dests, !.timers = @ \cup more]
    BY DEF Guard, more
<1> QED BY <1>2, <1>3, <1>4 DEF Shape, Still, Fields, more

\* A broadcast.
LEMMA BroadcastStill ==
    ASSUME NEW s, Shape(s)
    PROVE  Still(s, Broadcast(s)) /\ Broadcast(s).accessible = s.accessible
<1>1. ASSUME NEW synced, NEW told
      PROVE  /\ Still(s, [[s EXCEPT !.synced = synced] EXCEPT !.told = told])
             /\ [[s EXCEPT !.synced = synced] EXCEPT !.told = told].accessible = s.accessible
    BY DEF Shape, Still, Fields
<1>2. ASSUME NEW synced, NEW believed, NEW told
      PROVE  /\ Still(s, Correct([s EXCEPT !.synced = synced], believed, told))
             /\ Correct([s EXCEPT !.synced = synced], believed, told).accessible = s.accessible
    <2> DEFINE next == [[s EXCEPT !.synced = synced] EXCEPT !.told = told]
               said == Push(next, [do |-> "Broadcast", tfp |-> told \ believed, tfa |-> believed \ told])
    <2>1. Still(s, next) /\ Shape(next) /\ next.accessible = s.accessible
        <3>1. Still(s, next) /\ next.accessible = s.accessible
            BY <1>1
        <3> HIDE DEF next
        <3> QED BY <3>1 DEF Still
    <2>2. Correct([s EXCEPT !.synced = synced], believed, told) \in {next, said}
        BY DEF Correct
    <2> HIDE DEF next
    <2>3. Still(s, said) /\ said.accessible = next.accessible
        <3>1. Still(next, said)
            BY <2>1, PushStill
        <3>2. said.accessible = next.accessible
            BY <2>1 DEF Push, Shape, Fields
        <3> QED BY <2>1, <3>1, <3>2, StillOn
    <2> QED BY <2>1, <2>2, <2>3
<1> QED BY <1>2 DEF Broadcast, SpeakTo

\* settle notes what is accessible now, and tells whom it concerns.
LEMMA SettleStill ==
    ASSUME NEW s, Shape(s)
    PROVE  /\ Still(s, Settle(s))
           /\ Settle(s).accessible = {d \in Dest : Reachable(s, d)}
<1> DEFINE reachable == {d \in Dest : Reachable(s, d)}
           restricted == {d \in reachable : OnlyRestricted(s, d)}
           lost == s.accessible \ reachable
           noted == [s EXCEPT !.accessible = reachable, !.restricted = restricted]
<1>1. Settle(s) \in {noted, Broadcast(Guard(noted, lost))}
    BY DEF Settle, Announce
<1>2. reachable \in SUBSET Dest /\ lost \in SUBSET Pc
    BY RoutesAssumption DEF Shape
<1> HIDE DEF reachable, restricted, lost
<1>3. Shape(noted) /\ Still(s, noted) /\ noted.accessible = reachable
    BY <1>2 DEF Shape, Still, Fields
<1> HIDE DEF noted
<1>4. Still(s, Guard(noted, lost)) /\ Guard(noted, lost).accessible = reachable
    <2>1. Guard(noted, lost).accessible = noted.accessible
        BY <1>3 DEF Guard, Shape, Fields
    <2> QED BY <1>2, <1>3, <2>1, GuardStill, StillOn
<1>5. /\ Still(s, Broadcast(Guard(noted, lost)))
      /\ Broadcast(Guard(noted, lost)).accessible = reachable
    BY <1>4, BroadcastStill, StillOn DEF Still
<1> QED BY <1>1, <1>3, <1>5 DEF reachable

\* The answer to a route set test, and a message that cannot be transferred.
LEMMA TellAboutStill ==
    ASSUME NEW s, Shape(s), NEW ls, NEW d, NEW prohibited
    PROVE  Still(s, TellAbout(s, ls, d, prohibited))
<1> DEFINE more == IF prohibited THEN s.told \cup {<<ls, d>>} ELSE s.told \ {<<ls, d>>}
           told == IF d \notin Dest THEN s ELSE [s EXCEPT !.told = more]
           about == AboutDest(d, IF prohibited THEN "TFP" ELSE "TFA")
<1>1. TellAbout(s, ls, d, prohibited) = Tell(told, ls, about)
    BY DEF TellAbout
<1> HIDE DEF more, about
<1>2. Still(s, told)
    BY DEF Shape, Still, Fields
<1> HIDE DEF told
<1> QED BY <1>1, <1>2, TellStill, StillOn DEF Still

LEMMA RouteSetTestStill ==
    ASSUME NEW s, Shape(s), NEW ls, NEW d, NEW believes
    PROVE  Still(s, RouteSetTest(s, ls, d, believes))
BY TellAboutStill, StillItself DEF RouteSetTest

LEMMA UnroutableStill ==
    ASSUME NEW s, Shape(s), NEW d \in Pc, NEW l \in Link
    PROVE  Still(s, Unroutable(s, d, l)) /\ Unroutable(s, d, l).accessible = s.accessible
<1> DEFINE told == TellAbout(s, LinksetOf[l], d, TRUE)
<1>1. Unroutable(s, d, l) \in {s, Guard(told, {d})}
    BY DEF Unroutable
<1>2. Still(s, told)
    BY TellAboutStill
<1>3. told.accessible = s.accessible
    BY Zenon, <1>2 DEF TellAbout, Tell, Send, SendAll, Push, Shape, Fields
<1> HIDE DEF told
<1>4. Still(s, Guard(told, {d})) /\ Guard(told, {d}).accessible = told.accessible
    BY <1>2, GuardStill, StillOn DEF Still, Guard, Shape, Fields
<1> QED BY <1>1, <1>3, <1>4, StillItself

----------------------------------------------------------------------------
(* Links: what is done to one of them, or to some.                         *)

\* The links of L, their timers and their traffic change, and nothing else of
\* the rest.
Local(s, n, L) ==
    /\ Shape(n)
    /\ n.restartingSets = s.restartingSets /\ n.guard = s.guard
    /\ n.servers = s.servers /\ n.paused = s.paused
    /\ n.status = s.status /\ n.holding = s.holding /\ n.deferred = s.deferred /\ n.mark = s.mark
    /\ n.restarting = s.restarting /\ n.restartDue = s.restartDue /\ n.isolated = s.isolated
    /\ \A d \in n.guarded : d \in s.guarded \/ <<"Prohibited", d>> \in n.timers
    /\ \A t \in s.timers : t \in n.timers \/ t \in LinkTimer \X L
    /\ \A k \in Link \ L :
          /\ n.link[k] = s.link[k]
          /\ k \in n.openLinks <=> k \in s.openLinks
          /\ k \in n.heldLinks <=> k \in s.heldLinks

\* What a method is to do with a link.
Puts(s, n, E, l) ==
    Around(s, n, E, {l}) /\ Base(n, E, l) /\ Phased(n, E, l) /\ NoneInhibited(s, n)

LEMMA LocalAround ==
    ASSUME NEW s, NEW n, NEW E, NEW L, Local(s, n, L)
    PROVE  Around(s, n, E, L)
<1>1. \A x \in LinkTimer :
          x \notin {"AdjacentRestart", "RestartAllowed", "Rerouting", "RouteSetTest", "Prohibited",
                    "Restart", "RestartOverall", "Isolation"}
    BY DEF LinkTimer
<1>2. \A x : /\ <<"AdjacentRestart", x>> \notin LinkTimer \X L
             /\ <<"RestartAllowed", x>> \notin LinkTimer \X L
             /\ <<"Rerouting", x>> \notin LinkTimer \X L
             /\ <<"Prohibited", x>> \notin LinkTimer \X L
    BY <1>1
<1>3. \A x, y : <<"RouteSetTest", x, y>> \notin LinkTimer \X L
    <2>1. \A t \in LinkTimer \X L : t[1] \in LinkTimer
        OBVIOUS
    <2>2. \A x, y : <<"RouteSetTest", x, y>>[1] = "RouteSetTest"
        OBVIOUS
    <2> QED BY <1>1, <2>1, <2>2
<1>4. /\ <<"Restart">> \notin LinkTimer \X L /\ <<"RestartOverall">> \notin LinkTimer \X L
      /\ <<"Isolation">> \notin LinkTimer \X L
    <2>1. \A t \in LinkTimer \X L : t[1] \in LinkTimer
        OBVIOUS
    <2>2. <<"Restart">>[1] = "Restart" /\ <<"RestartOverall">>[1] = "RestartOverall"
          /\ <<"Isolation">>[1] = "Isolation"
        OBVIOUS
    <2> QED BY <1>1, <2>1, <2>2
<1>5. \A x, k : <<x, k>> \in LinkTimer \X L => k \in L
    OBVIOUS
<1> DEFINE theirs == LinkTimer \X L
<1> HIDE DEF theirs
<1>6. /\ \A t \in s.timers : t \in n.timers \/ t \in theirs
      /\ \A x : /\ <<"AdjacentRestart", x>> \notin theirs /\ <<"RestartAllowed", x>> \notin theirs
                /\ <<"Rerouting", x>> \notin theirs /\ <<"Prohibited", x>> \notin theirs
      /\ \A x, y : <<"RouteSetTest", x, y>> \notin theirs
      /\ <<"Restart">> \notin theirs /\ <<"RestartOverall">> \notin theirs
      /\ <<"Isolation">> \notin theirs
      /\ \A x, k : <<x, k>> \in theirs => k \in L
    BY <1>2, <1>3, <1>4, <1>5 DEF Local, theirs
<1>7. RestOk(s, E) => RestOk(n, E)
    <2> SUFFICES ASSUME RestOk(s, E) PROVE RestOk(n, E)
        OBVIOUS
    <2>1. TableOk(n)
        BY DEF Local, RestOk, RoutesOk, TableOk
    <2>2. /\ \A ls \in n.restartingSets : Runs(n, E, <<"AdjacentRestart", ls>>)
          /\ \A ls \in n.guard : Runs(n, E, <<"RestartAllowed", ls>>)
          /\ \A d \in n.holding : Runs(n, E, <<"Rerouting", d>>)
          /\ \A d \in n.guarded : Runs(n, E, <<"Prohibited", d>>)
          /\ n.restarting => Runs(n, E, <<"Restart">>) \/ Runs(n, E, <<"RestartOverall">>)
        BY <1>6 DEF Local, RestOk, RoutesOk, RestartsOk, Runs
    <2>3. \A x \in n.status : Runs(n, E, <<"RouteSetTest", x[1], Routes[x[1]][x[2]].via>>)
        BY <1>6 DEF Local, RestOk, RoutesOk, RestartsOk, Runs
    <2> QED BY <2>1, <2>2, <2>3 DEF RestOk, RoutesOk, RestartsOk
<1>8. <<"Isolation">> \in s.timers => <<"Isolation">> \in n.timers
    BY <1>6
<1>9. ASSUME NEW k \in Link \ L, NEW t \in LinkTimer, <<t, k>> \in s.timers
      PROVE  <<t, k>> \in n.timers
    BY <1>6, <1>9
<1> QED BY <1>7, <1>8, <1>9 DEF Local, Around

LEMMA StillLocal ==
    ASSUME NEW s, NEW n, NEW L, Still(s, n)
    PROVE  Local(s, n, L)
BY DEF Still, Local

LEMMA LocalOn ==
    ASSUME NEW s, NEW n, NEW o, NEW L, Local(s, n, L), Local(n, o, L)
    PROVE  Local(s, o, L)
<1> DEFINE theirs == LinkTimer \X L
<1>1. \A t \in s.timers : t \in o.timers \/ t \in theirs
    BY DEF Local
<1>2. \A d \in o.guarded : d \in s.guarded \/ <<"Prohibited", d>> \in o.timers
    <2>1. ASSUME NEW d, <<"Prohibited", d>> \in theirs PROVE FALSE
        BY <2>1 DEF LinkTimer
    <2> HIDE DEF theirs
    <2>2. \A t \in n.timers : t \in o.timers \/ t \in theirs
        BY DEF Local, theirs
    <2> QED BY <2>1, <2>2 DEF Local
<1>3. \A k \in Link \ L :
          /\ o.link[k] = s.link[k]
          /\ k \in o.openLinks <=> k \in s.openLinks
          /\ k \in o.heldLinks <=> k \in s.heldLinks
    BY DEF Local
<1> HIDE DEF theirs
<1> QED BY <1>1, <1>2, <1>3 DEF Local, theirs

\* What is known of one link.
LEMMA LinkKnown ==
    ASSUME NEW s, Shape(s), NEW l \in Link
    PROVE  s.link[l] \in LinkStates
BY DEF Shape

\* Another state of a link.
LEMMA LinkLocal ==
    ASSUME NEW s, Shape(s), NEW l \in Link, NEW k \in LinkStates
    PROVE  LET n == [s EXCEPT !.link = [@ EXCEPT ![l] = k]] IN
           /\ Local(s, n, {l}) /\ n.link[l] = k
           /\ n.timers = s.timers /\ n.heldLinks = s.heldLinks /\ n.openLinks = s.openLinks
BY DEF Shape, Local, Fields

\* Hold, Open and Divert.
LEMMA HoldLocal ==
    ASSUME NEW s, Shape(s), NEW L \in SUBSET Link
    PROVE  LET n == HoldAll(s, L) IN
           /\ Local(s, n, L) /\ n.link = s.link /\ n.timers = s.timers
           /\ n.heldLinks = s.heldLinks \cup L /\ n.openLinks = s.openLinks \ L
BY DEF Shape, Local, Fields, HoldAll, Push

LEMMA OpenLocal ==
    ASSUME NEW s, Shape(s), NEW L \in SUBSET Link
    PROVE  LET n == OpenAll(s, L) IN
           /\ Local(s, n, L) /\ n.link = s.link /\ n.timers = s.timers
           /\ n.heldLinks = s.heldLinks \ L /\ n.openLinks = s.openLinks \cup L
BY DEF Shape, Local, Fields, OpenAll, Push

LEMMA DivertLocal ==
    ASSUME NEW s, Shape(s), NEW l \in Link, NEW fsnc
    PROVE  LET n == Divert(s, l, fsnc) IN
           /\ Local(s, n, {l}) /\ n.link = s.link /\ n.timers = s.timers
           /\ n.heldLinks = s.heldLinks \ {l} /\ n.openLinks = s.openLinks \ {l}
BY DEF Shape, Local, Fields, Divert, Push

\* The timer of a link is stopped.
LEMMA StopLocal ==
    ASSUME NEW s, Shape(s), NEW x \in LinkTimer, NEW l \in Link
    PROVE  LET n == Stop(s, <<x, l>>) IN
           /\ Local(s, n, {l}) /\ n.link = s.link
           /\ n.heldLinks = s.heldLinks /\ n.openLinks = s.openLinks
           /\ n.timers = s.timers \ {<<x, l>>}
BY DEF Shape, Local, Fields, Stop

----------------------------------------------------------------------------
(* A link goes from one phase to another.                                  *)

\* What a change of the phase leaves as it is.
Rephased(s, n, l) ==
    /\ Local(s, n, {l})
    /\ n.link[l].up = s.link[l].up
    /\ n.link[l].remoteInhibited = s.link[l].remoteInhibited
    /\ n.link[l].ordered = s.link[l].ordered
    /\ n.link[l].uninhibitAttempts = s.link[l].uninhibitAttempts
    /\ n.link[l].forceAttempts = s.link[l].forceAttempts
    /\ \A t \in {"InhibitTest", "Uninhibit", "ForceUninhibit"} :
          <<t, l>> \in s.timers => <<t, l>> \in n.timers

LEMMA RephasedOn ==
    ASSUME NEW s, NEW n, NEW o, NEW l \in Link, Rephased(s, n, l), Rephased(n, o, l)
    PROVE  Rephased(s, o, l)
BY LocalOn DEF Rephased

LEMMA RephasedShape ==
    ASSUME NEW s, NEW n, NEW l, Rephased(s, n, l)
    PROVE  Shape(n)
BY DEF Rephased, Local

LEMMA RephasedPuts ==
    ASSUME NEW s, NEW n, NEW E, NEW l \in Link, Rephased(s, n, l), Base(s, E, l), Phased(n, E, l)
    PROVE  Puts(s, n, E, l) /\ n.link[l].up = s.link[l].up
<1>1. Base(n, E, l)
    BY DEF Base, Rephased, Runs
<1>2. NoneInhibited(s, n)
    BY DEF NoneInhibited, Rephased, Local
<1> QED BY <1>1, <1>2, LocalAround DEF Puts, Rephased

LEMMA StillRephased ==
    ASSUME NEW s, NEW n, NEW l \in Link, Still(s, n)
    PROVE  Rephased(s, n, l)
BY StillLocal DEF Still, Rephased

\* A state of the link that differs in none of those.
LEMMA StateRephased ==
    ASSUME NEW s, Shape(s), NEW l \in Link, NEW k \in LinkStates,
           k.up = s.link[l].up, k.remoteInhibited = s.link[l].remoteInhibited,
           k.ordered = s.link[l].ordered,
           k.uninhibitAttempts = s.link[l].uninhibitAttempts,
           k.forceAttempts = s.link[l].forceAttempts
    PROVE  LET n == [s EXCEPT !.link = [@ EXCEPT ![l] = k]] IN
           /\ Rephased(s, n, l) /\ n.link[l] = k
           /\ n.timers = s.timers /\ n.heldLinks = s.heldLinks /\ n.openLinks = s.openLinks
<1> DEFINE n == [s EXCEPT !.link = [@ EXCEPT ![l] = k]]
<1>1. /\ Local(s, n, {l}) /\ n.link[l] = k
      /\ n.timers = s.timers /\ n.heldLinks = s.heldLinks /\ n.openLinks = s.openLinks
    BY LinkLocal
<1> HIDE DEF n
<1>2. Rephased(s, n, l)
    BY <1>1 DEF Rephased
<1> QED BY <1>1, <1>2 DEF n

LEMMA PhaseRephased ==
    ASSUME NEW s, Shape(s), NEW l \in Link, NEW p \in Phase
    PROVE  LET n == [s EXCEPT !.link[l].phase = p] IN
           /\ Rephased(s, n, l) /\ n.link[l] = [s.link[l] EXCEPT !.phase = p]
           /\ n.timers = s.timers /\ n.heldLinks = s.heldLinks /\ n.openLinks = s.openLinks
<1> DEFINE k == [s.link[l] EXCEPT !.phase = p]
<1>1. /\ k \in LinkStates
      /\ k.up = s.link[l].up /\ k.remoteInhibited = s.link[l].remoteInhibited
      /\ k.ordered = s.link[l].ordered
      /\ k.uninhibitAttempts = s.link[l].uninhibitAttempts
      /\ k.forceAttempts = s.link[l].forceAttempts
    BY LinkKnown DEF LinkStates
<1> HIDE DEF k
<1> QED BY <1>1, StateRephased DEF k

LEMMA DeclaredRephased ==
    ASSUME NEW s, Shape(s), NEW l \in Link, NEW declared \in SUBSET Link
    PROVE  LET n == [s EXCEPT !.link[l].declared = declared] IN
           /\ Rephased(s, n, l) /\ n.link[l] = [s.link[l] EXCEPT !.declared = declared]
           /\ n.timers = s.timers /\ n.heldLinks = s.heldLinks /\ n.openLinks = s.openLinks
<1> DEFINE k == [s.link[l] EXCEPT !.declared = declared]
<1>1. /\ k \in LinkStates
      /\ k.up = s.link[l].up /\ k.remoteInhibited = s.link[l].remoteInhibited
      /\ k.ordered = s.link[l].ordered
      /\ k.uninhibitAttempts = s.link[l].uninhibitAttempts
      /\ k.forceAttempts = s.link[l].forceAttempts
    BY LinkKnown DEF LinkStates
<1> HIDE DEF k
<1> QED BY <1>1, StateRephased DEF k

LEMMA BackRephased ==
    ASSUME NEW s, Shape(s), NEW l \in Link, NEW back \in BOOLEAN
    PROVE  LET n == [s EXCEPT !.link[l].back = back] IN
           /\ Rephased(s, n, l) /\ n.link[l] = [s.link[l] EXCEPT !.back = back]
           /\ n.timers = s.timers /\ n.heldLinks = s.heldLinks /\ n.openLinks = s.openLinks
<1> DEFINE k == [s.link[l] EXCEPT !.back = back]
<1>1. /\ k \in LinkStates
      /\ k.up = s.link[l].up /\ k.remoteInhibited = s.link[l].remoteInhibited
      /\ k.ordered = s.link[l].ordered
      /\ k.uninhibitAttempts = s.link[l].uninhibitAttempts
      /\ k.forceAttempts = s.link[l].forceAttempts
    BY LinkKnown DEF LinkStates
<1> HIDE DEF k
<1> QED BY <1>1, StateRephased DEF k

LEMMA HoldRephased ==
    ASSUME NEW s, Shape(s), NEW l \in Link
    PROVE  LET n == Hold(s, l) IN
           /\ Rephased(s, n, l) /\ n.link[l] = s.link[l] /\ n.timers = s.timers
           /\ l \in n.heldLinks /\ l \notin n.openLinks
BY HoldLocal DEF Hold, Rephased

LEMMA OpenRephased ==
    ASSUME NEW s, Shape(s), NEW l \in Link
    PROVE  LET n == Open(s, l) IN
           /\ Rephased(s, n, l) /\ n.link[l] = s.link[l] /\ n.timers = s.timers
           /\ l \notin n.heldLinks /\ l \in n.openLinks
BY OpenLocal DEF Open, Rephased

LEMMA DivertRephased ==
    ASSUME NEW s, Shape(s), NEW l \in Link, NEW fsnc
    PROVE  LET n == Divert(s, l, fsnc) IN
           /\ Rephased(s, n, l) /\ n.link[l] = s.link[l] /\ n.timers = s.timers
           /\ l \notin n.heldLinks /\ l \notin n.openLinks
<1> DEFINE n == Divert(s, l, fsnc)
<1>1. /\ Local(s, n, {l}) /\ n.link = s.link /\ n.timers = s.timers
      /\ n.heldLinks = s.heldLinks \ {l} /\ n.openLinks = s.openLinks \ {l}
    BY DivertLocal
<1> HIDE DEF n
<1> QED BY <1>1 DEF Rephased, n

LEMMA StopRephased ==
    ASSUME NEW s, Shape(s), NEW x \in {"Changeover", "Changeback"}, NEW l \in Link
    PROVE  LET n == Stop(s, <<x, l>>) IN
           /\ Rephased(s, n, l) /\ n.link[l] = s.link[l]
           /\ n.heldLinks = s.heldLinks /\ n.openLinks = s.openLinks
<1>1. x \in LinkTimer
    BY DEF LinkTimer
<1>2. \A t \in {"InhibitTest", "Uninhibit", "ForceUninhibit"} : <<t, l>> # <<x, l>>
    OBVIOUS
<1> QED BY <1>1, <1>2, StopLocal DEF Rephased

----------------------------------------------------------------------------
(* Links: restoration, changeback and changeover.                          *)

LEMMA PhasesAre ==
    /\ Changeover = {"ChangeoverOrdered", "ChangeoverTimed"}
    /\ Declared = {"ChangebackDeclared", "ChangebackRepeated"}
    /\ Carrying = {"Open", "ChangebackTimed", "ChangebackDeclared", "ChangebackRepeated"}
    /\ Changeover \subseteq Phase /\ Carrying \subseteq Phase
    /\ {"Closed", "AwaitRestart"} \subseteq Phase
BY DEF Changeover, Declared, Carrying, Phase

LEMMA TimersAre ==
    ASSUME NEW l \in Link
    PROVE  \A t \in LinkTimer : <<t, l>> \in Timers
BY DEF Timers

\* Time-controlled changeback.
LEMMA TimeControlledPuts ==
    ASSUME NEW s, NEW E, NEW l \in Link, Shape(s), Base(s, E, l),
           s.link[l].up, ~s.link[l].remoteInhibited
    PROVE  Puts(s, TimeControlledChangeback(s, l), E, l) /\ TimeControlledChangeback(s, l).link[l].up
<1> DEFINE a == [s EXCEPT !.link[l].phase = "ChangebackTimed"]
           b == Hold(a, l)
           n == Start(b, <<"Changeback", l>>)
<1>1. TimeControlledChangeback(s, l) = n
    BY DEF TimeControlledChangeback
<1>2. /\ Rephased(s, a, l) /\ a.link[l] = [s.link[l] EXCEPT !.phase = "ChangebackTimed"]
      /\ Shape(a)
    BY PhasesAre, PhaseRephased, RephasedShape
<1> HIDE DEF a
<1>3. Rephased(a, b, l) /\ b.link[l] = a.link[l] /\ l \in b.heldLinks /\ l \notin b.openLinks /\ Shape(b)
    BY <1>2, HoldRephased, RephasedShape
<1> HIDE DEF b
<1>4. /\ Still(b, n) /\ <<"Changeback", l>> \in n.timers
      /\ n.link[l] = b.link[l] /\ l \in n.heldLinks /\ l \notin n.openLinks
    <2>1. Still(b, n) /\ <<"Changeback", l>> \in n.timers
        BY <1>3, TimersAre, StartStill DEF LinkTimer
    <2> HIDE DEF n
    <2> QED BY <1>3, <2>1 DEF Still
<1> HIDE DEF n
<1>5. Rephased(s, n, l)
    BY <1>2, <1>3, <1>4, StillRephased, RephasedOn
<1>6. n.link[l].phase = "ChangebackTimed"
    BY <1>2, <1>3, <1>4, LinkKnown DEF LinkStates
<1>7. Phased(n, E, l)
    BY <1>4, <1>5, <1>6, PhasesAre DEF Phased, Rephased, Runs
<1> QED BY <1>1, <1>5, <1>7, RephasedPuts

\* start_traffic.
LEMMA StartTrafficPuts ==
    ASSUME NEW s, NEW E, NEW l \in Link, Shape(s), Base(s, E, l),
           s.link[l].up, ~s.link[l].remoteInhibited
    PROVE  Puts(s, StartTraffic(s, l), E, l) /\ StartTraffic(s, l).link[l].up
<1> DEFINE a == [s EXCEPT !.link[l].phase = "Open"]
           b == Settle(a)
           n == Open(b, l)
<1>1. StartTraffic(s, l) \in {n, TimeControlledChangeback(s, l)}
    BY DEF StartTraffic
<1>2. Rephased(s, a, l) /\ a.link[l] = [s.link[l] EXCEPT !.phase = "Open"] /\ Shape(a)
    BY PhasesAre, PhaseRephased, RephasedShape
<1> HIDE DEF a
<1>3. Still(a, b) /\ Shape(b) /\ b.link[l] = a.link[l]
    <2>1. Still(a, b)
        BY <1>2, SettleStill
    <2> QED BY <2>1 DEF Still
<1> HIDE DEF b
<1>4. Rephased(b, n, l) /\ n.link[l] = b.link[l] /\ l \notin n.heldLinks /\ l \in n.openLinks
    BY <1>3, OpenRephased
<1> HIDE DEF n
<1>5. Rephased(s, n, l)
    BY <1>2, <1>3, <1>4, StillRephased, RephasedOn
<1>6. n.link[l].phase = "Open"
    BY <1>2, <1>3, <1>4, LinkKnown DEF LinkStates
<1>7. Phased(n, E, l)
    BY <1>4, <1>5, <1>6, PhasesAre DEF Phased, Rephased, Runs
<1> QED BY <1>1, <1>5, <1>7, RephasedPuts, TimeControlledPuts

\* Sequence-controlled changeback.
LEMMA DeclarePuts ==
    ASSUME NEW s, NEW E, NEW l \in Link, NEW carrying \in SUBSET Link, Shape(s), Base(s, E, l),
           s.link[l].up, ~s.link[l].remoteInhibited
    PROVE  Puts(s, DeclareChangeback(s, l, carrying), E, l) /\ DeclareChangeback(s, l, carrying).link[l].up
<1> DEFINE a == Hold(s, l)
           b == [a EXCEPT !.link[l].declared = carrying]
           c == [b EXCEPT !.link[l].phase = "ChangebackDeclared"]
           e == Push(c, [do |-> "Declare", link |-> l, behind |-> carrying])
           n == Start(e, <<"Changeback", l>>)
<1>1. DeclareChangeback(s, l, carrying) = n
    BY DEF DeclareChangeback
<1>2. Rephased(s, a, l) /\ l \in a.heldLinks /\ l \notin a.openLinks /\ Shape(a)
    BY HoldRephased, RephasedShape
<1> HIDE DEF a
<1>3. Rephased(a, b, l) /\ b.heldLinks = a.heldLinks /\ b.openLinks = a.openLinks /\ Shape(b)
    BY <1>2, DeclaredRephased, RephasedShape
<1> HIDE DEF b
<1>4. /\ Rephased(b, c, l) /\ c.link[l] = [b.link[l] EXCEPT !.phase = "ChangebackDeclared"]
      /\ c.heldLinks = b.heldLinks /\ c.openLinks = b.openLinks /\ Shape(c)
    BY <1>3, PhasesAre, PhaseRephased, RephasedShape
<1>5. c.link[l].phase = "ChangebackDeclared"
    BY <1>3, <1>4, LinkKnown DEF LinkStates
<1> HIDE DEF c
<1>6. Still(c, e) /\ Shape(e)
    BY <1>4, PushStill DEF Still
<1> HIDE DEF e
<1>7. Still(e, n) /\ <<"Changeback", l>> \in n.timers
    BY <1>6, TimersAre, StartStill DEF LinkTimer
<1> HIDE DEF n
<1>8. Rephased(s, n, l)
    BY <1>2, <1>3, <1>4, <1>6, <1>7, StillRephased, RephasedOn
<1>9. n.link[l].phase = "ChangebackDeclared" /\ l \in n.heldLinks /\ l \notin n.openLinks
    <2>1. n.link = c.link /\ n.heldLinks = c.heldLinks /\ n.openLinks = c.openLinks
        BY <1>6, <1>7 DEF Still
    <2> QED BY <1>2, <1>3, <1>4, <1>5, <2>1
<1>10. Phased(n, E, l)
    BY <1>7, <1>8, <1>9, PhasesAre DEF Phased, Rephased, Runs
<1> QED BY <1>1, <1>8, <1>10, RephasedPuts

\* The end of a changeback.
LEMMA FinishChangebackPuts ==
    ASSUME NEW s, NEW E, NEW l \in Link, Shape(s), Base(s, E, l),
           s.link[l].up, ~s.link[l].remoteInhibited
    PROVE  Puts(s, FinishChangeback(s, l), E, l)
<1> DEFINE none == {}
           a == [s EXCEPT !.link[l].declared = none]
           b == [a EXCEPT !.link[l].phase = "Open"]
           c == Stop(b, <<"Changeback", l>>)
           n == Open(c, l)
<1>1. FinishChangeback(s, l) = n
    BY DEF FinishChangeback
<1>2. none \in SUBSET Link
    OBVIOUS
<1> HIDE DEF none
<1>3. Rephased(s, a, l) /\ Shape(a)
    BY <1>2, DeclaredRephased, RephasedShape
<1> HIDE DEF a
<1>4. Rephased(a, b, l) /\ Shape(b) /\ b.link[l] = [a.link[l] EXCEPT !.phase = "Open"]
    BY <1>3, PhasesAre, PhaseRephased, RephasedShape
<1>5. b.link[l].phase = "Open"
    BY <1>3, <1>4, LinkKnown DEF LinkStates
<1> HIDE DEF b
<1>6. Rephased(b, c, l) /\ Shape(c) /\ c.link[l] = b.link[l]
    BY <1>4, StopRephased, RephasedShape
<1> HIDE DEF c
<1>7. Rephased(c, n, l) /\ n.link[l] = c.link[l] /\ l \notin n.heldLinks /\ l \in n.openLinks
    BY <1>6, OpenRephased
<1> HIDE DEF n
<1>8. Rephased(s, n, l)
    BY <1>3, <1>4, <1>6, <1>7, RephasedOn
<1>9. Phased(n, E, l)
    BY <1>5, <1>6, <1>7, <1>8, PhasesAre DEF Phased, Rephased, Runs
<1> QED BY <1>1, <1>8, <1>9, RephasedPuts

\* begin_changeover, of a link that is down.
LEMMA BeginChangeoverPuts ==
    ASSUME NEW s, NEW E, NEW l \in Link, Shape(s), Base(s, E, l), ~s.link[l].up
    PROVE  Puts(s, BeginChangeover(s, l), E, l)
<1> DEFINE a == Hold(s, l)
           ordered == [a EXCEPT !.link[l].phase = "ChangeoverOrdered"]
           timed == [a EXCEPT !.link[l].phase = "ChangeoverTimed"]
           order == AboutFsn(l, "XCO", s.link[l].bsnt)
           sent == Send(ordered, LinksetOf[l], order, Avoiding(l))
           c == IF CanTell(ordered, LinksetOf[l]) /\ Adjacent[LinksetOf[l]] # NoPc THEN sent ELSE timed
           n == Start(c, <<"Changeover", l>>)
<1>1. BeginChangeover(s, l) = n
    BY DEF BeginChangeover
<1>2. Rephased(s, a, l) /\ l \in a.heldLinks /\ l \notin a.openLinks /\ Shape(a)
    BY HoldRephased, RephasedShape
<1> HIDE DEF a
<1>3. ASSUME NEW p \in Changeover, NEW b, b = [a EXCEPT !.link[l].phase = p]
      PROVE  /\ Rephased(a, b, l) /\ Shape(b) /\ b.link[l].phase \in Changeover
             /\ l \in b.heldLinks /\ l \notin b.openLinks
    <2>1. /\ Rephased(a, b, l) /\ b.link[l] = [a.link[l] EXCEPT !.phase = p]
          /\ b.heldLinks = a.heldLinks /\ b.openLinks = a.openLinks
        BY <1>2, <1>3, PhasesAre, PhaseRephased
    <2>2. b.link[l].phase = p
        BY <1>2, <2>1, LinkKnown DEF LinkStates
    <2> QED BY <1>2, <1>3, <2>1, <2>2, RephasedShape
<1>4. c \in {sent, timed}
    OBVIOUS
<1>5. /\ Rephased(a, timed, l) /\ Shape(timed) /\ timed.link[l].phase \in Changeover
      /\ l \in timed.heldLinks /\ l \notin timed.openLinks
    BY <1>3, PhasesAre
<1>6. /\ Rephased(a, ordered, l) /\ Shape(ordered) /\ ordered.link[l].phase \in Changeover
      /\ l \in ordered.heldLinks /\ l \notin ordered.openLinks
    BY <1>3, PhasesAre
<1> HIDE DEF ordered, timed, order
<1>7. Still(ordered, sent)
    BY <1>6, SendStill
<1> HIDE DEF sent
<1>8. /\ Rephased(a, sent, l) /\ Shape(sent) /\ sent.link[l].phase \in Changeover
      /\ l \in sent.heldLinks /\ l \notin sent.openLinks
    BY <1>6, <1>7, StillRephased, RephasedOn DEF Still
<1> HIDE DEF c
<1>9. /\ Rephased(a, c, l) /\ Shape(c) /\ c.link[l].phase \in Changeover
      /\ l \in c.heldLinks /\ l \notin c.openLinks
    BY <1>4, <1>5, <1>8
<1>10. Still(c, n) /\ <<"Changeover", l>> \in n.timers
    BY <1>9, TimersAre, StartStill DEF LinkTimer
<1> HIDE DEF n
<1>11. Rephased(s, n, l)
    BY <1>2, <1>9, <1>10, StillRephased, RephasedOn
<1>12. n.link[l].phase \in Changeover /\ l \in n.heldLinks /\ l \notin n.openLinks
    BY <1>9, <1>10 DEF Still
<1>13. Phased(n, E, l)
    BY <1>10, <1>11, <1>12, PhasesAre DEF Phased, Rephased, Runs
<1> QED BY <1>1, <1>11, <1>13, RephasedPuts

----------------------------------------------------------------------------
(* Routes through a linkset are allowed again.                             *)

\* The route that a message from ls about d is about.
LEMMA FirstRoute ==
    ASSUME NEW d \in Dest, NEW ls, RoutesThrough(d, ls) # {}
    PROVE  /\ FirstRouteThrough(d, ls) \in RoutesThrough(d, ls)
           /\ FirstRouteThrough(d, ls) \in Nat
           /\ Routes[d][FirstRouteThrough(d, ls)].via = ls
<1> DEFINE through == RoutesThrough(d, ls)
<1>1. through \in SUBSET Nat /\ through # {}
    BY RoutesAssumption DEF RoutesThrough, RoutesOf
<1>2. \E r \in through : \A x \in through : r <= x
    <2> HIDE DEF through
    <2> QED BY <1>1, LeastElement
<1>3. FirstRouteThrough(d, ls) \in through
    BY <1>2 DEF FirstRouteThrough
<1> QED BY <1>1, <1>3 DEF RoutesThrough

\* What the marks and the timers of routes are about.
LEMMA StatusKnown ==
    ASSUME NEW x \in Statuses
    PROVE  /\ x[1] \in Dest /\ x[3] \in {"Restricted", "Prohibited"}
           /\ x = <<x[1], x[2], x[3]>>
           /\ Routes[x[1]][x[2]].via \in Linkset
           /\ RoutesThrough(x[1], Routes[x[1]][x[2]].via) # {}
           /\ x[2] = FirstRouteThrough(x[1], Routes[x[1]][x[2]].via)
<1>1. x \in Dest \X Nat \X {"Restricted", "Prohibited"}
    BY DEF Statuses
<1>2. PICK ls \in Linkset : RoutesThrough(x[1], ls) # {} /\ x[2] = FirstRouteThrough(x[1], ls)
    BY DEF Statuses
<1>3. Routes[x[1]][x[2]].via = ls
    BY <1>1, <1>2, FirstRoute
<1> QED BY <1>1, <1>2, <1>3

LEMMA AllowRoutes ==
    ASSUME NEW s, Shape(s), NEW linksets
    PROVE  LET n == AllowRoutesThrough(s, linksets) IN
           /\ Shape(n)
           /\ n.link = s.link /\ n.heldLinks = s.heldLinks /\ n.openLinks = s.openLinks
           /\ n.restartingSets = s.restartingSets /\ n.restarting = s.restarting
           /\ n.restartDue = s.restartDue /\ n.isolated = s.isolated
           /\ \A t \in s.timers : t \in n.timers \/ t[1] = "RouteSetTest"
           /\ \A E : RoutesOk(s, E) => RoutesOk(n, E)
<1> DEFINE cleared == {x \in s.status : Routes[x[1]][x[2]].via \in linksets}
           through == {<<x[1], Routes[x[1]][x[2]].via>> : x \in cleared}
           ended == {<<"RouteSetTest", p[1], p[2]>> : p \in through}
           left == {k \in s.mark : <<k[1], k[2]>> \notin through}
           n == [s EXCEPT !.status = @ \ cleared, !.timers = @ \ ended, !.mark = left]
<1>1. AllowRoutesThrough(s, linksets) = n
    BY DEF AllowRoutesThrough
<1>2. \A x \in s.status \ cleared : <<x[1], Routes[x[1]][x[2]].via>> \notin through
    OBVIOUS
<1>3. \A a, b : <<"RouteSetTest", a, b>> \in ended => <<a, b>> \in through
    <2> HIDE DEF through, cleared
    <2>1. ASSUME NEW a, NEW b, <<"RouteSetTest", a, b>> \in ended PROVE <<a, b>> \in through
        <3>1. PICK p \in through : <<"RouteSetTest", a, b>> = <<"RouteSetTest", p[1], p[2]>>
            BY <2>1
        <3>2. p[1] = a /\ p[2] = b
            BY <3>1
        <3>3. p = <<p[1], p[2]>>
            BY DEF through
        <3> QED BY <3>2, <3>3
    <2> QED BY <2>1
<1>4. \A t \in ended : t[1] = "RouteSetTest"
    OBVIOUS
<1>5. \A x \in s.status : x \in cleared => <<x[1], Routes[x[1]][x[2]].via>> \in through
    OBVIOUS
<1>6. cleared \subseteq s.status
    OBVIOUS
<1>7. \A k : k \in left <=> k \in s.mark /\ <<k[1], k[2]>> \notin through
    OBVIOUS
<1> HIDE DEF cleared, through, ended, left
<1>8. /\ Shape(n) /\ n.status = s.status \ cleared /\ n.timers = s.timers \ ended /\ n.mark = left
      /\ n.link = s.link /\ n.heldLinks = s.heldLinks /\ n.openLinks = s.openLinks
      /\ n.restartingSets = s.restartingSets /\ n.restarting = s.restarting
      /\ n.restartDue = s.restartDue /\ n.isolated = s.isolated
      /\ n.guard = s.guard /\ n.holding = s.holding /\ n.guarded = s.guarded
      /\ n.deferred = s.deferred
    BY DEF Shape, Fields
<1> HIDE DEF n
<1>9. ASSUME NEW E, RoutesOk(s, E) PROVE RoutesOk(n, E)
    <2>1. \A x \in n.status : Runs(n, E, <<"RouteSetTest", x[1], Routes[x[1]][x[2]].via>>)
        BY <1>2, <1>3, <1>8, <1>9 DEF RoutesOk, Runs
    <2>2. /\ \A ls \in n.guard : Runs(n, E, <<"RestartAllowed", ls>>)
          /\ \A d \in n.holding : Runs(n, E, <<"Rerouting", d>>)
          /\ \A d \in n.guarded : Runs(n, E, <<"Prohibited", d>>)
        BY <1>4, <1>8, <1>9 DEF RoutesOk, Runs
    <2>3. TableOk(s)
        BY <1>9 DEF RoutesOk
    <2>4. ASSUME NEW d \in Dest, NEW ls \in Linkset, RoutesThrough(d, ls) # {},
                 <<d, FirstRouteThrough(d, ls), "Prohibited">> \in n.status
          PROVE  <<d, ls, "Prohibited">> \in n.mark
        <3>1. <<d, ls, "Prohibited">> \in s.mark
            BY <1>8, <2>3, <2>4 DEF TableOk
        <3>2. <<d, ls>> \notin through
            BY <1>2, <1>8, <2>4, FirstRoute
        <3> QED BY <1>7, <1>8, <3>1, <3>2
    <2>5. ASSUME NEW d \in Dest, NEW ls \in Linkset, RoutesThrough(d, ls) # {},
                 <<d, ls, "Prohibited">> \in n.mark
          PROVE  \/ <<d, FirstRouteThrough(d, ls), "Prohibited">> \in n.status
                 \/ \E k \in n.deferred : k[1] = d /\ k[2] = ls
        <3>1. <<d, ls, "Prohibited">> \in s.mark /\ <<d, ls>> \notin through
            BY <1>7, <1>8, <2>5
        <3>2. <<d, FirstRouteThrough(d, ls), "Prohibited">> \notin cleared
            BY <1>5, <1>6, <2>5, <3>1, FirstRoute
        <3> QED BY <1>8, <2>3, <2>5, <3>1, <3>2 DEF TableOk
    <2>6. TableOk(n)
        BY <1>8, <2>3, <2>4, <2>5 DEF TableOk
    <2> QED BY <2>1, <2>2, <2>6 DEF RoutesOk
<1>10. \A t \in s.timers : t \in n.timers \/ t[1] = "RouteSetTest"
    BY <1>4, <1>8
<1> QED BY <1>1, <1>8, <1>9, <1>10

----------------------------------------------------------------------------
(* Restart of the adjacent point, and what puts a link back to traffic.    *)

\* begin_adjacent_restart.
LEMMA BeginAdjacentRestartPuts ==
    ASSUME NEW s, NEW E, NEW l \in Link, Shape(s), Base(s, E, l),
           s.link[l].up, ~s.link[l].remoteInhibited,
           l \notin s.openLinks, l \notin s.heldLinks
    PROVE  Puts(s, BeginAdjacentRestart(s, l, LinksetOf[l]), E, l) /\ BeginAdjacentRestart(s, l, LinksetOf[l]).link[l].up
<1> DEFINE ls == LinksetOf[l]
           t == <<"AdjacentRestart", ls>>
           a == [s EXCEPT !.restartingSets = @ \cup {ls}, !.traReceived = @ \ {ls},
                          !.synced = @ \ {ls}]
           b == AllowRoutesThrough(a, {ls})
           c == [b EXCEPT !.link[l].phase = "AwaitRestart"]
           d == Start(c, t)
           e == Settle(d)
           f == Send(e, ls, Tra, OnLink(l))
           n == [f EXCEPT !.traSent = @ \cup {ls}]
<1>1. BeginAdjacentRestart(s, l, ls) = n
    BY DEF BeginAdjacentRestart
<1>2. ls \in Linkset /\ t \in Timers
    BY LinksAssumption DEF Timers
<1>3. /\ Shape(a) /\ a.restartingSets = s.restartingSets \cup {ls}
      /\ a.link = s.link /\ a.heldLinks = s.heldLinks /\ a.openLinks = s.openLinks
      /\ a.restarting = s.restarting /\ a.restartDue = s.restartDue /\ a.isolated = s.isolated
      /\ a.timers = s.timers
      /\ (RoutesOk(s, E) => RoutesOk(a, E))
    <2>1. /\ Shape(a) /\ a.restartingSets = s.restartingSets \cup {ls}
          /\ a.link = s.link /\ a.heldLinks = s.heldLinks /\ a.openLinks = s.openLinks
          /\ a.restarting = s.restarting /\ a.restartDue = s.restartDue /\ a.isolated = s.isolated
          /\ a.timers = s.timers /\ a.guard = s.guard /\ a.holding = s.holding
          /\ a.status = s.status /\ a.guarded = s.guarded /\ a.mark = s.mark
          /\ a.deferred = s.deferred
        BY <1>2 DEF Shape, Fields
    <2> HIDE DEF a
    <2> QED BY <2>1 DEF RoutesOk, TableOk, Runs
<1> HIDE DEF a
<1>4. /\ Shape(b)
      /\ b.link = a.link /\ b.heldLinks = a.heldLinks /\ b.openLinks = a.openLinks
      /\ b.restartingSets = a.restartingSets /\ b.restarting = a.restarting
      /\ b.restartDue = a.restartDue /\ b.isolated = a.isolated
      /\ \A x \in a.timers : x \in b.timers \/ x[1] = "RouteSetTest"
      /\ (RoutesOk(a, E) => RoutesOk(b, E))
    BY <1>3, AllowRoutes
<1> HIDE DEF b
<1>5. /\ Rephased(b, c, l) /\ Shape(c) /\ c.link[l] = [b.link[l] EXCEPT !.phase = "AwaitRestart"]
      /\ c.timers = b.timers /\ c.heldLinks = b.heldLinks /\ c.openLinks = b.openLinks
    BY <1>4, PhasesAre, PhaseRephased, RephasedShape
<1>6. c.link[l].phase = "AwaitRestart"
    BY <1>4, <1>5, LinkKnown DEF LinkStates
<1> HIDE DEF c
<1>7. Still(c, d) /\ t \in d.timers /\ Shape(d)
    BY <1>2, <1>5, StartStill DEF Still
<1> HIDE DEF d
<1>8. Still(d, e) /\ Shape(e)
    BY <1>7, SettleStill DEF Still
<1> HIDE DEF e
<1>9. Still(e, f) /\ Shape(f)
    BY <1>8, SendStill DEF Still
<1> HIDE DEF f
<1>10. Still(f, n)
    BY <1>9 DEF Still, Shape, Fields
<1> HIDE DEF n
<1>11. Still(d, n)
    BY <1>8, <1>9, <1>10, StillOn
<1>12. Still(c, n) /\ t \in n.timers
    BY <1>7, <1>11, StillOn DEF Still
<1>13. RestOk(s, E) => RestOk(n, E)
    <2> SUFFICES ASSUME RestOk(s, E) PROVE RestOk(n, E)
        OBVIOUS
    <2>1. RoutesOk(b, E)
        BY <1>3, <1>4 DEF RestOk
    <2>2. RoutesOk(c, E)
        BY <1>5, <2>1 DEF Rephased, Local, RoutesOk, TableOk, Runs
    <2>3. RoutesOk(n, E)
        BY <1>12, <2>2, StillRest
    <2>4. n.restartingSets = s.restartingSets \cup {ls} /\ n.restarting = s.restarting
        BY <1>3, <1>4, <1>5, <1>12 DEF Rephased, Local, Still
    <2>5. \A x \in s.timers : x \in n.timers \/ x[1] = "RouteSetTest"
        BY <1>3, <1>4, <1>5, <1>12 DEF Still
    <2>6. RestartsOk(s, E)
        BY DEF RestOk
    <2>7. ASSUME NEW k \in n.restartingSets PROVE Runs(n, E, <<"AdjacentRestart", k>>)
        <3>1. <<"AdjacentRestart", k>>[1] # "RouteSetTest"
            OBVIOUS
        <3> QED BY <1>12, <2>4, <2>5, <2>6, <3>1 DEF RestartsOk, Runs
    <2>8. n.restarting => Runs(n, E, <<"Restart">>) \/ Runs(n, E, <<"RestartOverall">>)
        <3>1. <<"Restart">>[1] # "RouteSetTest" /\ <<"RestartOverall">>[1] # "RouteSetTest"
            OBVIOUS
        <3> QED BY <2>4, <2>5, <2>6, <3>1 DEF RestartsOk, Runs
    <2> QED BY <2>3, <2>7, <2>8 DEF RestOk, RestartsOk
<1>14. \A x, k : <<x, k>> \in s.timers => <<x, k>> \in n.timers \/ x = "RouteSetTest"
    BY <1>3, <1>4, <1>5, <1>12 DEF Still
<1>15. <<"Isolation">> \in s.timers => <<"Isolation">> \in n.timers
    <2>1. <<"Isolation">>[1] # "RouteSetTest"
        OBVIOUS
    <2> QED BY <1>3, <1>4, <1>5, <1>12, <2>1 DEF Still
<1>16. /\ \A k \in Link \ {l} : n.link[k] = s.link[k]
       /\ n.openLinks = s.openLinks /\ n.heldLinks = s.heldLinks
       /\ n.restarting = s.restarting /\ n.restartDue = s.restartDue /\ n.isolated = s.isolated
       /\ n.restartingSets = s.restartingSets \cup {ls}
    BY <1>3, <1>4, <1>5, <1>12 DEF Rephased, Local, Still
<1>17. /\ n.link[l].up = s.link[l].up
       /\ n.link[l].remoteInhibited = s.link[l].remoteInhibited
       /\ n.link[l].ordered = s.link[l].ordered
       /\ n.link[l].uninhibitAttempts = s.link[l].uninhibitAttempts
       /\ n.link[l].forceAttempts = s.link[l].forceAttempts
       /\ n.link[l].phase = "AwaitRestart"
    BY <1>3, <1>4, <1>5, <1>6, <1>12 DEF Rephased, Still
<1>18. Base(n, E, l)
    BY <1>14, <1>17 DEF Base, Runs
<1>19. Phased(n, E, l)
    BY <1>16, <1>17, PhasesAre DEF Phased
<1>20. NoneInhibited(s, n)
    BY <1>16, <1>17 DEF NoneInhibited
<1>21. Around(s, n, E, {l})
    <2>1. Shape(n)
        BY <1>10 DEF Still
    <2>2. "RouteSetTest" \notin LinkTimer
        BY DEF LinkTimer
    <2>3. \A k \in Link, x \in LinkTimer : <<x, k>> \in s.timers => <<x, k>> \in n.timers
        BY <1>14, <2>2
    <2> QED BY <1>13, <1>15, <1>16, <2>1, <2>3 DEF Around
<1> QED BY <1>1, <1>17, <1>18, <1>19, <1>20, <1>21 DEF Puts

\* restore.
LEMMA RestorePuts ==
    ASSUME NEW s, NEW E, NEW l \in Link, Shape(s), Base(s, E, l),
           s.link[l].up, ~s.link[l].remoteInhibited,
           l \notin s.openLinks, l \notin s.heldLinks
    PROVE  Puts(s, Restore(s, l), E, l) /\ Restore(s, l).link[l].up
<1> DEFINE ls == LinksetOf[l]
           carrying == {k \in LinksOf[ls] \ {l} : s.link[k].phase = "Open"}
           waits == [s EXCEPT !.link[l].phase = "AwaitRestart"]
<1>1. CASE s.restarting \/ ls \in s.restartingSets
    <2>1. Restore(s, l) = waits
        BY <1>1 DEF Restore
    <2>2. /\ Rephased(s, waits, l) /\ waits.link[l] = [s.link[l] EXCEPT !.phase = "AwaitRestart"]
          /\ waits.heldLinks = s.heldLinks /\ waits.openLinks = s.openLinks
        BY PhasesAre, PhaseRephased
    <2>3. waits.link[l].phase = "AwaitRestart"
        BY <2>2, LinkKnown DEF LinkStates
    <2> HIDE DEF waits
    <2>4. Phased(waits, E, l)
        BY <1>1, <2>2, <2>3, PhasesAre DEF Phased, Rephased, Local
    <2> QED BY <2>1, <2>2, <2>4, RephasedPuts
<1>2. CASE ~ (s.restarting \/ ls \in s.restartingSets)
    <2>1. carrying \in SUBSET Link
        BY LinksAssumption DEF LinksOf
    <2>2. Restore(s, l) \in {TimeControlledChangeback(s, l), DeclareChangeback(s, l, carrying),
                             BeginAdjacentRestart(s, l, ls), StartTraffic(s, l)}
        BY <1>2 DEF Restore
    <2> HIDE DEF carrying
    <2> QED BY <2>1, <2>2, TimeControlledPuts, DeclarePuts, BeginAdjacentRestartPuts, StartTrafficPuts
<1> QED BY <1>1, <1>2

\* complete_changeover, of a link that is down or inhibited, or came back.
LEMMA CompleteChangeoverPuts ==
    ASSUME NEW s, NEW E, NEW l \in Link, NEW fsnc, Shape(s), Base(s, E, l),
           s.link[l].up /\ ~s.link[l].remoteInhibited => s.link[l].back
    PROVE  Puts(s, CompleteChangeover(s, l, fsnc), E, l)
<1> DEFINE a == Stop(s, <<"Changeover", l>>)
           b == [a EXCEPT !.link[l].phase = "Closed"]
           c == Divert(b, l, fsnc)
           n == [c EXCEPT !.link[l].back = FALSE]
           again == s.link[l].back /\ s.link[l].up /\ ~s.link[l].remoteInhibited
<1>1. CompleteChangeover(s, l, fsnc) = IF again THEN Restore(n, l) ELSE n
    BY DEF CompleteChangeover
<1>2. Rephased(s, a, l) /\ Shape(a)
    BY StopRephased, RephasedShape
<1> HIDE DEF a
<1>3. Rephased(a, b, l) /\ Shape(b) /\ b.link[l] = [a.link[l] EXCEPT !.phase = "Closed"]
    BY <1>2, PhasesAre, PhaseRephased, RephasedShape
<1>4. b.link[l].phase = "Closed"
    BY <1>2, <1>3, LinkKnown DEF LinkStates
<1> HIDE DEF b
<1>5. /\ Rephased(b, c, l) /\ Shape(c) /\ c.link[l] = b.link[l]
      /\ l \notin c.heldLinks /\ l \notin c.openLinks
    BY <1>3, DivertRephased, RephasedShape
<1> HIDE DEF c
<1>6. /\ Rephased(c, n, l) /\ Shape(n) /\ n.link[l] = [c.link[l] EXCEPT !.back = FALSE]
      /\ n.heldLinks = c.heldLinks /\ n.openLinks = c.openLinks
    BY <1>5, BackRephased, RephasedShape
<1>7. n.link[l].phase = "Closed"
    BY <1>4, <1>5, <1>6, LinkKnown DEF LinkStates
<1> HIDE DEF n
<1>8. Rephased(s, n, l)
    BY <1>2, <1>3, <1>5, <1>6, RephasedOn
<1>9. Around(s, n, E, {l}) /\ Base(n, E, l) /\ NoneInhibited(s, n)
    <2>1. Base(n, E, l)
        BY <1>8 DEF Base, Rephased, Runs
    <2>2. NoneInhibited(s, n)
        BY <1>8 DEF NoneInhibited, Rephased, Local
    <2> QED BY <1>8, <2>1, <2>2, LocalAround DEF Rephased
<1>10. CASE ~again
    <2>1. CompleteChangeover(s, l, fsnc) = n
        BY <1>1, <1>10
    <2>2. n.link[l].up = s.link[l].up /\ n.link[l].remoteInhibited = s.link[l].remoteInhibited
        BY <1>8 DEF Rephased
    <2>3. Phased(n, E, l)
        BY <1>5, <1>6, <1>7, <1>10, <2>2, PhasesAre DEF Phased
    <2> QED BY <1>9, <2>1, <2>3 DEF Puts
<1>11. CASE again
    <2>1. CompleteChangeover(s, l, fsnc) = Restore(n, l)
        BY <1>1, <1>11
    <2>2. n.link[l].up /\ ~n.link[l].remoteInhibited /\ l \notin n.openLinks /\ l \notin n.heldLinks
        BY <1>5, <1>6, <1>8, <1>11 DEF Rephased
    <2>3. Puts(n, Restore(n, l), E, l)
        BY <1>6, <1>9, <2>2, RestorePuts
    <2> QED BY <1>9, <2>1, <2>3, AroundOn DEF Puts, NoneInhibited
<1> QED BY <1>10, <1>11

----------------------------------------------------------------------------
(* Whole inputs.                                                           *)

\* An input keeps the invariant, inhibits no link, and leaves isolation to
\* watch_isolation.
Keeps(s, n, E) ==
    /\ Sound(n, E) /\ NoneInhibited(s, n)
    /\ n.isolated = s.isolated /\ n.restartDue = s.restartDue
    /\ <<"Isolation">> \in s.timers => <<"Isolation">> \in n.timers

LEMMA KeepsOn ==
    ASSUME NEW s, NEW n, NEW o, NEW E, Keeps(s, n, E), Keeps(n, o, E)
    PROVE  Keeps(s, o, E)
BY DEF Keeps, NoneInhibited

LEMMA KeepsItself ==
    ASSUME NEW s, NEW E, Sound(s, E)
    PROVE  Keeps(s, s, E)
BY DEF Keeps, NoneInhibited

LEMMA StillKeeps ==
    ASSUME NEW s, NEW n, NEW E, Sound(s, E), Still(s, n)
    PROVE  Keeps(s, n, E)
<1>1. Sound(n, E)
    BY StillApart DEF Sound
<1> QED BY <1>1 DEF Keeps, Still, NoneInhibited

LEMMA PutsOn ==
    ASSUME NEW s, NEW n, NEW o, NEW E, NEW l \in Link,
           Around(s, n, E, {l}), NoneInhibited(s, n), Puts(n, o, E, l)
    PROVE  Puts(s, o, E, l)
BY AroundOn DEF Puts, NoneInhibited

LEMMA PutsKeeps ==
    ASSUME NEW s, NEW n, NEW E, NEW l \in Link, Apart(s, E, {l}), Puts(s, n, E, l)
    PROVE  Keeps(s, n, E)
<1>1. Apart(n, E, {l} \ {l})
    BY AroundApart DEF Puts
<1>2. Sound(n, E)
    BY <1>1 DEF Sound
<1> QED BY <1>2 DEF Keeps, Puts, Around

\* A link of a sound state may be worked on.
LEMMA SoundApart ==
    ASSUME NEW s, NEW E, NEW L, Sound(s, E)
    PROVE  Apart(s, E, L)
BY DEF Sound, Apart

LEMMA SoundLink ==
    ASSUME NEW s, NEW E, NEW l \in Link, Sound(s, E)
    PROVE  /\ Shape(s) /\ Base(s, E, l) /\ Phased(s, E, l) /\ s.link[l] \in LinkStates
           /\ RestOk(s, E)
BY LinkKnown DEF Sound, Apart

----------------------------------------------------------------------------
(* Changeover messages, and the failure of a link.                         *)

LEMMA ChangeoverOrderKeeps ==
    ASSUME NEW s, NEW E, NEW l \in Link, Sound(s, E),
           NEW fsnc \in Fsn \cup {NoFsn}, NEW emergency \in BOOLEAN
    PROVE  Keeps(s, ChangeoverOrder(s, l, fsnc, emergency), E)
<1> DEFINE a == AcknowledgeOrder(s, l, emergency)
           b == [s EXCEPT !.link[l].ordered = Order(fsnc, emergency)]
<1>0. Shape(s) /\ Base(s, E, l) /\ Phased(s, E, l) /\ s.link[l] \in LinkStates
    BY SoundLink
<1>1. CASE s.link[l].phase \in Changeover /\ ~s.link[l].up
    <2>1. Still(s, a) /\ Shape(a) /\ ~a.link[l].up
        BY <1>0, <1>1, AcknowledgeStill DEF Still
    <2>2. ChangeoverOrder(s, l, fsnc, emergency) = CompleteChangeover(a, l, fsnc)
        BY <1>1 DEF ChangeoverOrder
    <2> HIDE DEF a
    <2>3. Puts(a, CompleteChangeover(a, l, fsnc), E, l)
        BY <1>0, <2>1, StillPhased, CompleteChangeoverPuts
    <2>4. Puts(s, CompleteChangeover(a, l, fsnc), E, l)
        BY <2>1, <2>3, StillAround, PutsOn
    <2> QED BY <2>2, <2>4, SoundApart, PutsKeeps
<1>2. CASE s.link[l].up
    <2> DEFINE k == [s.link[l] EXCEPT !.ordered = Order(fsnc, emergency)]
               c == [s EXCEPT !.link = [@ EXCEPT ![l] = k]]
    <2>1. /\ k \in LinkStates /\ k.up
          /\ k.remoteInhibited = s.link[l].remoteInhibited
          /\ k.uninhibitAttempts = s.link[l].uninhibitAttempts
          /\ k.forceAttempts = s.link[l].forceAttempts
          /\ k.phase = s.link[l].phase /\ k.back = s.link[l].back
        BY <1>0, <1>2 DEF LinkStates, Orders, Order
    <2>2. b = c
        OBVIOUS
    <2> HIDE DEF k, b
    <2>3. /\ Local(s, b, {l}) /\ b.link[l] = k
          /\ b.timers = s.timers /\ b.heldLinks = s.heldLinks /\ b.openLinks = s.openLinks
        <3>1. /\ Local(s, c, {l}) /\ c.link[l] = k
              /\ c.timers = s.timers /\ c.heldLinks = s.heldLinks /\ c.openLinks = s.openLinks
            BY <1>0, <2>1, LinkLocal
        <3> HIDE DEF c
        <3> QED BY <2>2, <3>1
    <2> HIDE DEF c
    <2>4. Base(b, E, l)
        BY <1>0, <2>1, <2>3 DEF Base, Runs
    <2>5. Phased(b, E, l)
        BY <1>0, <1>2, <2>1, <2>3 DEF Phased, Local, Runs
    <2>6. NoneInhibited(s, b)
        BY <2>1, <2>3 DEF NoneInhibited, Local
    <2>7. Keeps(s, b, E)
        BY <2>3, <2>4, <2>5, <2>6, LocalAround, SoundApart, PutsKeeps DEF Puts
    <2>8. Still(b, FailLink(b, l))
        BY <2>3, PushStill DEF FailLink, Local
    <2>9. ChangeoverOrder(s, l, fsnc, emergency) = FailLink(b, l)
        BY <1>2 DEF ChangeoverOrder, b
    <2> QED BY <2>7, <2>8, <2>9, StillKeeps, KeepsOn DEF Keeps
<1>3. CASE ~s.link[l].up /\ s.link[l].phase \notin Changeover
    <2>1. ChangeoverOrder(s, l, fsnc, emergency) = Send(s, LinksetOf[l], About(l, "ECA"), Avoiding(l))
        BY <1>3 DEF ChangeoverOrder
    <2> QED BY <1>0, <2>1, SendStill, StillKeeps
<1> QED BY <1>0, <1>1, <1>2, <1>3 DEF LinkStates

LEMMA ChangeoverAcknowledgementKeeps ==
    ASSUME NEW s, NEW E, NEW l \in Link, Sound(s, E), NEW fsnc
    PROVE  Keeps(s, ChangeoverAcknowledgement(s, l, fsnc), E)
<1>0. Shape(s) /\ Base(s, E, l) /\ Phased(s, E, l)
    BY SoundLink
<1>1. CASE s.link[l].phase = "ChangeoverOrdered"
    <2>1. s.link[l].up /\ ~s.link[l].remoteInhibited => s.link[l].back
        BY <1>0, <1>1, PhasesAre DEF Phased
    <2>2. Puts(s, CompleteChangeover(s, l, fsnc), E, l)
        BY <1>0, <2>1, CompleteChangeoverPuts
    <2> QED BY <1>1, <2>2, SoundApart, PutsKeeps DEF ChangeoverAcknowledgement
<1>2. CASE s.link[l].phase # "ChangeoverOrdered"
    BY <1>2, KeepsItself DEF ChangeoverAcknowledgement
<1> QED BY <1>1, <1>2

\* A restart of the adjacent point is abandoned: none of its links waits for it.
LEMMA AbandonKeeps ==
    ASSUME NEW s, NEW E, NEW ls \in Linkset, Sound(s, E)
    PROVE  Keeps(s, AbandonAdjacentRestart(s, ls), E)
<1> DEFINE t == <<"AdjacentRestart", ls>>
           n == Stop([s EXCEPT !.restartingSets = @ \ {ls}, !.traSent = @ \ {ls},
                               !.traReceived = @ \ {ls}], t)
<1>1. CASE LinksetSignalling(s, ls)
    BY <1>1, KeepsItself DEF AbandonAdjacentRestart
<1>2. CASE ~LinksetSignalling(s, ls)
    <2>0. AbandonAdjacentRestart(s, ls) = n
        BY <1>2 DEF AbandonAdjacentRestart
    <2>1. /\ Shape(s) /\ RestOk(s, E)
          /\ \A l \in Link : Base(s, E, l) /\ Phased(s, E, l)
        BY DEF Sound, Apart
    <2>2. /\ Shape(n) /\ n.link = s.link /\ n.openLinks = s.openLinks /\ n.heldLinks = s.heldLinks
          /\ n.restartingSets = s.restartingSets \ {ls} /\ n.guard = s.guard
          /\ n.status = s.status /\ n.holding = s.holding /\ n.deferred = s.deferred
          /\ n.mark = s.mark /\ n.guarded = s.guarded
          /\ n.restarting = s.restarting /\ n.restartDue = s.restartDue /\ n.isolated = s.isolated
          /\ n.timers = s.timers \ {t}
        BY <2>1 DEF Shape, Fields, Stop
    <2> HIDE DEF n
    <2>3. \A l \in Link : LinksetOf[l] = ls => ~s.link[l].up
        BY <1>2 DEF LinksetSignalling, LinksOf
    <2>4. /\ \A x, y : x # "AdjacentRestart" => <<x, y>> # t
          /\ \A x, y : <<"RouteSetTest", x, y>> # t
          /\ <<"Restart">> # t /\ <<"RestartOverall">> # t /\ <<"Isolation">> # t
        <3>1. t[1] = "AdjacentRestart"
            OBVIOUS
        <3>2. /\ \A x, y : <<x, y>>[1] = x /\ <<"RouteSetTest", x, y>>[1] = "RouteSetTest"
              /\ <<"Restart">>[1] = "Restart" /\ <<"RestartOverall">>[1] = "RestartOverall"
              /\ <<"Isolation">>[1] = "Isolation"
            OBVIOUS
        <3> HIDE DEF t
        <3> QED BY <3>1, <3>2
    <2>5. \A k \in s.restartingSets : k # ls => <<"AdjacentRestart", k>> # t
        OBVIOUS
    <2> HIDE DEF t
    <2>6. RestOk(n, E)
        <3>1. RoutesOk(n, E)
            BY <2>1, <2>2, <2>4 DEF RestOk, RoutesOk, TableOk, Runs
        <3>2. RestartsOk(n, E)
            BY <2>1, <2>2, <2>4, <2>5 DEF RestOk, RestartsOk, Runs
        <3> QED BY <3>1, <3>2 DEF RestOk
    <2>7. ASSUME NEW l \in Link PROVE Base(n, E, l)
        BY <2>1, <2>2, <2>4 DEF Base, Runs
    <2>8. ASSUME NEW l \in Link PROVE Phased(n, E, l)
        <3>1. LinksetOf[l] = ls => s.link[l].phase # "AwaitRestart"
            BY <2>1, <2>3 DEF Phased
        <3> QED BY <2>1, <2>2, <2>4, <3>1 DEF Phased, Runs
    <2>9. Sound(n, E)
        BY <2>2, <2>6, <2>7, <2>8 DEF Sound, Apart
    <2> QED BY <2>0, <2>2, <2>4, <2>9 DEF Keeps, NoneInhibited
<1> QED BY <1>1, <1>2

\* link_down.
LEMMA LinkDownKeeps ==
    ASSUME NEW s, NEW E, NEW l \in Link, Sound(s, E), NEW bsnt \in Fsn
    PROVE  Keeps(s, LinkDown(s, l, bsnt), E)
<1> DEFINE order == s.link[l].ordered
           k == [s.link[l] EXCEPT !.up = FALSE, !.bsnt = bsnt, !.back = FALSE, !.ordered = NoOrder]
           down == [s EXCEPT !.link[l].up = FALSE, !.link[l].bsnt = bsnt, !.link[l].back = FALSE,
                             !.link[l].ordered = NoOrder]
           c == [s EXCEPT !.link = [@ EXCEPT ![l] = k]]
           acked == AcknowledgeOrder(down, l, order.emergency)
           answered == IF order.out THEN acked ELSE down
           none == {}
           told == [answered EXCEPT !.link[l].declared = none]
           stopped == Stop(told, <<"Changeback", l>>)
           held == Hold(stopped, l)
           phase == s.link[l].phase
           closed == [answered EXCEPT !.link[l].phase = "Closed"]
           n == CASE phase \in Carrying /\ order.out -> CompleteChangeover(held, l, order.fsnc)
                  [] phase \in Carrying /\ ~order.out -> BeginChangeover(stopped, l)
                  [] phase \in Changeover /\ order.out -> CompleteChangeover(answered, l, order.fsnc)
                  [] phase = "AwaitRestart" -> closed
                  [] OTHER -> answered
<1>0. Shape(s) /\ Base(s, E, l) /\ Phased(s, E, l) /\ s.link[l] \in LinkStates
    BY SoundLink
<1>1. LinkDown(s, l, bsnt) = AbandonAdjacentRestart(n, LinksetOf[l])
    BY DEF LinkDown
<1>2. /\ k \in LinkStates /\ ~k.up /\ ~k.ordered.out /\ k.phase = phase
      /\ k.remoteInhibited = s.link[l].remoteInhibited
      /\ k.uninhibitAttempts = s.link[l].uninhibitAttempts
      /\ k.forceAttempts = s.link[l].forceAttempts
    BY <1>0 DEF LinkStates, Orders, NoOrder
<1>3. down = c
    <2>1. [s.link EXCEPT ![l].up = FALSE, ![l].bsnt = bsnt, ![l].back = FALSE, ![l].ordered = NoOrder]
              = [s.link EXCEPT ![l] = k]
        BY <1>0 DEF Shape
    <2> QED BY <1>0, <2>1 DEF Shape, Fields
<1> HIDE DEF k, down
<1>4. /\ Local(s, down, {l}) /\ down.link[l] = k
      /\ down.timers = s.timers /\ down.heldLinks = s.heldLinks /\ down.openLinks = s.openLinks
    <2>1. /\ Local(s, c, {l}) /\ c.link[l] = k
          /\ c.timers = s.timers /\ c.heldLinks = s.heldLinks /\ c.openLinks = s.openLinks
        BY <1>0, <1>2, LinkLocal
    <2> HIDE DEF c
    <2> QED BY <1>3, <2>1
<1> HIDE DEF c
<1>5. Base(down, E, l) /\ Around(s, down, E, {l}) /\ NoneInhibited(s, down) /\ Shape(down)
    <2>1. Base(down, E, l)
        BY <1>0, <1>2, <1>4 DEF Base, Runs
    <2>2. NoneInhibited(s, down)
        BY <1>2, <1>4 DEF NoneInhibited, Local
    <2> QED BY <1>4, <2>1, <2>2, LocalAround DEF Local
<1>6. /\ Still(down, answered) /\ Shape(answered) /\ answered.link[l] = k
      /\ answered.heldLinks = s.heldLinks /\ answered.openLinks = s.openLinks
    <2>1. Still(down, acked) /\ Still(down, down)
        BY <1>5, AcknowledgeStill, StillItself
    <2>2. answered = acked \/ answered = down
        OBVIOUS
    <2> HIDE DEF acked, answered
    <2> QED BY <1>4, <2>1, <2>2 DEF Still
<1>7. ASSUME NEW o, Puts(answered, o, E, l) PROVE Keeps(s, o, E)
    <2>1. Around(down, answered, E, {l}) /\ NoneInhibited(down, answered)
        BY <1>6, StillAround
    <2>2. Puts(down, o, E, l)
        BY <1>7, <2>1, PutsOn
    <2>3. Puts(s, o, E, l)
        BY <1>5, <2>2, PutsOn
    <2> QED BY <2>3, SoundApart, PutsKeeps
<1>8. Base(answered, E, l) /\ answered.timers \in SUBSET answered.timers
    BY <1>5, <1>6, StillPhased
<1>9. \A x \in LinkTimer : <<x, l>> \in s.timers => <<x, l>> \in answered.timers
    BY <1>4, <1>6 DEF Still
<1> HIDE DEF answered
<1>10. /\ Rephased(answered, told, l) /\ Shape(told)
       /\ Rephased(answered, stopped, l) /\ Shape(stopped) /\ ~stopped.link[l].up
       /\ Rephased(answered, held, l) /\ Shape(held) /\ ~held.link[l].up
    <2>1. none \in SUBSET Link
        OBVIOUS
    <2> HIDE DEF none
    <2>2. Rephased(answered, told, l) /\ Shape(told)
        BY <1>6, <2>1, DeclaredRephased, RephasedShape
    <2> HIDE DEF told
    <2>3. Rephased(told, stopped, l) /\ Shape(stopped)
        BY <2>2, StopRephased, RephasedShape
    <2> HIDE DEF stopped
    <2>4. Rephased(stopped, held, l) /\ Shape(held)
        BY <2>3, HoldRephased, RephasedShape
    <2> HIDE DEF held
    <2>5. Rephased(answered, stopped, l) /\ Rephased(answered, held, l)
        BY <2>2, <2>3, <2>4, RephasedOn
    <2> QED BY <1>2, <1>6, <2>2, <2>3, <2>4, <2>5 DEF Rephased
<1> HIDE DEF told
<1>11. ASSUME NEW p, Rephased(answered, p, l)
       PROVE  /\ Base(p, E, l) /\ Around(answered, p, E, {l}) /\ NoneInhibited(answered, p)
    <2>1. Base(p, E, l)
        BY <1>8, <1>11 DEF Base, Rephased, Runs
    <2>2. NoneInhibited(answered, p)
        BY <1>11 DEF NoneInhibited, Rephased, Local
    <2> QED BY <1>11, <2>1, <2>2, LocalAround DEF Rephased
<1> HIDE DEF stopped, held
<1>12. ASSUME phase \in Carrying /\ order.out
       PROVE  Keeps(s, n, E)
    <2>1. n = CompleteChangeover(held, l, order.fsnc)
        BY <1>12, PhasesAre
    <2>2. Puts(held, CompleteChangeover(held, l, order.fsnc), E, l)
        BY <1>10, <1>11, CompleteChangeoverPuts
    <2>3. Puts(answered, CompleteChangeover(held, l, order.fsnc), E, l)
        BY <1>10, <1>11, <2>2, PutsOn
    <2> QED BY <1>7, <2>1, <2>3
<1>13. ASSUME phase \in Carrying /\ ~order.out
       PROVE  Keeps(s, n, E)
    <2>1. n = BeginChangeover(stopped, l)
        BY <1>13, PhasesAre
    <2>2. Puts(stopped, BeginChangeover(stopped, l), E, l)
        BY <1>10, <1>11, BeginChangeoverPuts
    <2>3. Puts(answered, BeginChangeover(stopped, l), E, l)
        BY <1>10, <1>11, <2>2, PutsOn
    <2> QED BY <1>7, <2>1, <2>3
<1>14. ASSUME phase \in Changeover /\ order.out
       PROVE  Keeps(s, n, E)
    <2>1. n = CompleteChangeover(answered, l, order.fsnc)
        BY <1>14, PhasesAre
    <2>2. Puts(answered, CompleteChangeover(answered, l, order.fsnc), E, l)
        BY <1>2, <1>6, <1>8, CompleteChangeoverPuts
    <2> QED BY <1>7, <2>1, <2>2
<1>15. ASSUME phase = "AwaitRestart"
       PROVE  Keeps(s, n, E)
    <2>1. n = closed
        BY <1>15, PhasesAre
    <2>2. /\ Rephased(answered, closed, l) /\ closed.link[l] = [answered.link[l] EXCEPT !.phase = "Closed"]
          /\ closed.heldLinks = answered.heldLinks /\ closed.openLinks = answered.openLinks
        BY <1>6, PhasesAre, PhaseRephased
    <2>3. closed.link[l].phase = "Closed" /\ ~closed.link[l].up
        BY <1>2, <1>6, <2>2 DEF LinkStates
    <2> HIDE DEF closed
    <2>4. Phased(closed, E, l)
        BY <1>0, <1>6, <1>15, <2>2, <2>3, PhasesAre DEF Phased
    <2>5. Puts(answered, closed, E, l)
        BY <1>8, <2>2, <2>4, RephasedPuts
    <2> QED BY <1>7, <2>1, <2>5
<1>16. ASSUME phase = "Closed" \/ (phase \in Changeover /\ ~order.out)
       PROVE  Keeps(s, n, E)
    <2>1. n = answered
        BY <1>16, PhasesAre
    <2>2. Phased(answered, E, l)
        BY <1>0, <1>2, <1>6, <1>9, <1>16, PhasesAre DEF Phased, Runs, LinkTimer
    <2>3. Still(answered, answered)
        BY <1>6, StillItself
    <2>4. Puts(answered, answered, E, l)
        BY <1>8, <2>2, <2>3, StillRephased, RephasedPuts
    <2> QED BY <1>7, <2>1, <2>4
<1>17. /\ phase \in Phase /\ order.out \in BOOLEAN
       /\ Phase = Carrying \cup Changeover \cup {"Closed", "AwaitRestart"}
    BY <1>0, PhasesAre DEF LinkStates, Orders, Phase
<1> HIDE DEF n
<1>18. Keeps(s, n, E)
    BY <1>12, <1>13, <1>14, <1>15, <1>16, <1>17
<1>19. Keeps(n, AbandonAdjacentRestart(n, LinksetOf[l]), E)
    BY <1>18, AbandonKeeps, LinksAssumption DEF Keeps
<1> QED BY <1>1, <1>18, <1>19, KeepsOn

----------------------------------------------------------------------------
(* One link, while the rest is sound.                                      *)

Elsewhere(s, E, l) ==
    /\ Shape(s) /\ RestOk(s, E)
    /\ \A k \in Link \ {l} : Base(s, E, k) /\ Phased(s, E, k)

LEMMA SoundElsewhere ==
    ASSUME NEW s, NEW E, NEW l \in Link, Sound(s, E)
    PROVE  Elsewhere(s, E, l)
BY DEF Sound, Apart, Elsewhere

LEMMA PutsElsewhere ==
    ASSUME NEW s, NEW n, NEW E, NEW l \in Link, Elsewhere(s, E, l), Puts(s, n, E, l)
    PROVE  Keeps(s, n, E)
<1>1. ASSUME NEW k \in Link \ {l} PROVE Base(n, E, k) /\ Phased(n, E, k)
    <2>1. Base(s, E, k) /\ Phased(s, E, k)
        BY DEF Elsewhere
    <2>2. Base(n, E, k)
        BY <2>1 DEF Puts, Around, Base, Runs, LinkTimer
    <2>3. Phased(n, E, k)
        BY <2>1 DEF Puts, Around, Phased, Runs, LinkTimer
    <2> QED BY <2>2, <2>3
<1>2. Shape(n) /\ RestOk(n, E) /\ NoneInhibited(s, n) /\ Base(n, E, l) /\ Phased(n, E, l)
    BY DEF Puts, Around, Elsewhere
<1>3. Sound(n, E)
    BY <1>1, <1>2 DEF Sound, Apart
<1> QED BY <1>2, <1>3 DEF Puts, Around, Keeps

LEMMA LocalElsewhere ==
    ASSUME NEW s, NEW n, NEW E, NEW l \in Link, Elsewhere(s, E, l), Local(s, n, {l}),
           Base(n, E, l), Phased(n, E, l), n.link[l].remoteInhibited => s.link[l].remoteInhibited
    PROVE  Keeps(s, n, E)
<1>1. NoneInhibited(s, n)
    BY DEF NoneInhibited, Local
<1> QED BY <1>1, LocalAround, PutsElsewhere DEF Puts

\* The timer of a link is about nothing else.
LEMMA LinkTimerApart ==
    ASSUME NEW x \in LinkTimer, NEW l
    PROVE  /\ \A y : /\ <<"AdjacentRestart", y>> # <<x, l>> /\ <<"RestartAllowed", y>> # <<x, l>>
                     /\ <<"Rerouting", y>> # <<x, l>> /\ <<"Prohibited", y>> # <<x, l>>
           /\ \A y, z : <<"RouteSetTest", y, z>> # <<x, l>>
           /\ <<"Restart">> # <<x, l>> /\ <<"RestartOverall">> # <<x, l>> /\ <<"Isolation">> # <<x, l>>
<1>1. x \notin {"AdjacentRestart", "RestartAllowed", "Rerouting", "RouteSetTest", "Prohibited",
                "Restart", "RestartOverall", "Isolation"}
    BY DEF LinkTimer
<1>2. <<x, l>>[1] = x
    OBVIOUS
<1>3. /\ \A y : /\ <<"AdjacentRestart", y>>[1] = "AdjacentRestart"
                /\ <<"RestartAllowed", y>>[1] = "RestartAllowed"
                /\ <<"Rerouting", y>>[1] = "Rerouting" /\ <<"Prohibited", y>>[1] = "Prohibited"
      /\ \A y, z : <<"RouteSetTest", y, z>>[1] = "RouteSetTest"
      /\ <<"Restart">>[1] = "Restart" /\ <<"RestartOverall">>[1] = "RestartOverall"
      /\ <<"Isolation">>[1] = "Isolation"
    OBVIOUS
<1> QED BY <1>1, <1>2, <1>3

LEMMA TimerElsewhere ==
    ASSUME NEW s, NEW E, NEW x \in LinkTimer, NEW l \in Link, Sound(s, E \cup {<<x, l>>})
    PROVE  /\ Elsewhere(s, E, l)
           /\ s.link[l] \in LinkStates
           /\ Base(s, E \cup {<<x, l>>}, l) /\ Phased(s, E \cup {<<x, l>>}, l)
           /\ x \in {"Changeover", "Changeback"} => Base(s, E, l)
           /\ x \notin {"Changeover", "Changeback"} => Phased(s, E, l)
<1> DEFINE t == <<x, l>>
           more == E \cup {t}
<1>1. Shape(s) /\ RestOk(s, more) /\ \A k \in Link : Base(s, more, k) /\ Phased(s, more, k)
    BY DEF Sound, Apart
<1>2. \A y, k : <<y, k>> = t => y = x /\ k = l
    OBVIOUS
<1>3. \A u : Runs(s, more, u) /\ u # t => Runs(s, E, u)
    BY DEF Runs
<1>4. /\ \A y : /\ <<"AdjacentRestart", y>> # t /\ <<"RestartAllowed", y>> # t
                /\ <<"Rerouting", y>> # t /\ <<"Prohibited", y>> # t
      /\ \A y, z : <<"RouteSetTest", y, z>> # t
      /\ <<"Restart">> # t /\ <<"RestartOverall">> # t
    BY LinkTimerApart
<1> HIDE DEF t, more
<1>5. RestOk(s, E)
    BY <1>1, <1>3, <1>4 DEF RestOk, RoutesOk, RestartsOk
<1>6. ASSUME NEW k \in Link \ {l} PROVE Base(s, E, k) /\ Phased(s, E, k)
    <2>1. Base(s, more, k) /\ Phased(s, more, k) /\ \A y : <<y, k>> # t
        BY <1>1, <1>2
    <2> QED BY <1>3, <2>1 DEF Base, Phased
<1>7. ASSUME x \in {"Changeover", "Changeback"} PROVE Base(s, E, l)
    <2>1. Base(s, more, l)
        BY <1>1
    <2>2. <<"InhibitTest", l>> # t /\ <<"Uninhibit", l>> # t /\ <<"ForceUninhibit", l>> # t
        BY <1>2, <1>7
    <2> QED BY <1>3, <2>1, <2>2 DEF Base
<1>8. ASSUME x \notin {"Changeover", "Changeback"} PROVE Phased(s, E, l)
    <2>1. Phased(s, more, l)
        BY <1>1
    <2>2. <<"Changeover", l>> # t /\ <<"Changeback", l>> # t
        BY <1>2, <1>8
    <2> QED BY <1>3, <2>1, <2>2 DEF Phased
<1> QED BY <1>1, <1>5, <1>6, <1>7, <1>8, LinkKnown DEF Elsewhere, more, t

----------------------------------------------------------------------------
(* The end of T1 and T2, and of T3, T4 and T5.                             *)

LEMMA ChangeoverTimeoutKeeps ==
    ASSUME NEW s, NEW E, NEW l \in Link, Sound(s, E \cup {<<"Changeover", l>>})
    PROVE  Keeps(s, ChangeoverTimeout(s, l), E)
<1> DEFINE more == E \cup {<<"Changeover", l>>}
<1>1. Elsewhere(s, E, l) /\ Shape(s) /\ Base(s, E, l) /\ Phased(s, more, l)
    BY TimerElsewhere DEF LinkTimer, Elsewhere
<1>2. <<"Changeback", l>> \in more => <<"Changeback", l>> \in E
    OBVIOUS
<1> HIDE DEF more
<1>3. CASE s.link[l].phase \in Changeover
    <2>1. s.link[l].up /\ ~s.link[l].remoteInhibited => s.link[l].back
        BY <1>1, <1>3 DEF Phased
    <2>2. Puts(s, CompleteChangeover(s, l, NoFsn), E, l)
        BY <1>1, <2>1, CompleteChangeoverPuts
    <2> QED BY <1>1, <1>3, <2>2, PutsElsewhere DEF ChangeoverTimeout
<1>4. CASE s.link[l].phase \notin Changeover
    <2>1. Phased(s, E, l)
        BY <1>1, <1>2, <1>4 DEF Phased, Runs
    <2>2. Puts(s, s, E, l)
        BY <1>1, <2>1, StillItself, StillRephased, RephasedPuts
    <2> QED BY <1>1, <1>4, <2>2, PutsElsewhere DEF ChangeoverTimeout
<1> QED BY <1>3, <1>4

LEMMA ChangebackTimeoutKeeps ==
    ASSUME NEW s, NEW E, NEW l \in Link, Sound(s, E \cup {<<"Changeback", l>>})
    PROVE  Keeps(s, ChangebackTimeout(s, l), E)
<1> DEFINE more == E \cup {<<"Changeback", l>>}
           a == [s EXCEPT !.link[l].phase = "ChangebackRepeated"]
           again == [do |-> "Declare", link |-> l, behind |-> s.link[l].declared]
           b == Push(a, again)
           n == Start(b, <<"Changeback", l>>)
<1>1. /\ Elsewhere(s, E, l) /\ Shape(s) /\ Base(s, E, l) /\ Phased(s, more, l)
      /\ s.link[l] \in LinkStates
    BY TimerElsewhere DEF LinkTimer, Elsewhere
<1>2. <<"Changeover", l>> \in more => <<"Changeover", l>> \in E
    OBVIOUS
<1> HIDE DEF more, again
<1>3. CASE s.link[l].phase = "ChangebackDeclared"
    <2>1. ChangebackTimeout(s, l) = n
        BY <1>3 DEF ChangebackTimeout, again
    <2>2. /\ Rephased(s, a, l) /\ Shape(a) /\ a.link[l] = [s.link[l] EXCEPT !.phase = "ChangebackRepeated"]
          /\ a.heldLinks = s.heldLinks /\ a.openLinks = s.openLinks
        BY <1>1, PhasesAre, PhaseRephased, RephasedShape
    <2>3. a.link[l].phase = "ChangebackRepeated"
        BY <1>1, <2>2 DEF LinkStates
    <2> HIDE DEF a
    <2>4. Still(a, b) /\ Shape(b)
        BY <2>2, PushStill DEF Still
    <2> HIDE DEF b
    <2>5. Still(b, n) /\ <<"Changeback", l>> \in n.timers
        BY <2>4, TimersAre, StartStill DEF LinkTimer
    <2> HIDE DEF n
    <2>6. Rephased(s, n, l)
        BY <2>2, <2>4, <2>5, StillRephased, RephasedOn
    <2>7. n.link[l].phase = "ChangebackRepeated" /\ n.heldLinks = s.heldLinks /\ n.openLinks = s.openLinks
        BY <2>2, <2>3, <2>4, <2>5 DEF Still
    <2>8. Phased(n, E, l)
        BY <1>1, <1>3, <2>5, <2>6, <2>7, PhasesAre DEF Phased, Rephased, Runs
    <2> QED BY <1>1, <2>1, <2>6, <2>8, RephasedPuts, PutsElsewhere
<1>4. CASE s.link[l].phase \in {"ChangebackRepeated", "ChangebackTimed"}
    <2>1. s.link[l].up /\ ~s.link[l].remoteInhibited
        BY <1>1, <1>4, PhasesAre DEF Phased
    <2>2. ChangebackTimeout(s, l) = FinishChangeback(s, l)
        BY <1>4 DEF ChangebackTimeout
    <2> QED BY <1>1, <2>1, <2>2, FinishChangebackPuts, PutsElsewhere
<1>5. CASE s.link[l].phase \notin {"ChangebackDeclared", "ChangebackRepeated", "ChangebackTimed"}
    <2>1. Phased(s, E, l)
        BY <1>1, <1>2, <1>5, PhasesAre DEF Phased, Runs
    <2>2. Puts(s, s, E, l)
        BY <1>1, <2>1, StillItself, StillRephased, RephasedPuts
    <2>3. ChangebackTimeout(s, l) = s
        BY <1>5 DEF ChangebackTimeout
    <2> QED BY <1>1, <2>2, <2>3, PutsElsewhere
<1> QED BY <1>3, <1>4, <1>5

LEMMA ChangebackAcknowledgementKeeps ==
    ASSUME NEW s, NEW E, NEW l \in Link, NEW behind, Sound(s, E)
    PROVE  Keeps(s, ChangebackAcknowledgement(s, l, behind), E)
<1> DEFINE left == s.link[l].declared \ {behind}
           matched == behind \in s.link[l].declared /\ s.link[l].phase \in Declared
           noted == [s EXCEPT !.link[l].declared = left]
<1>0. Shape(s) /\ Base(s, E, l) /\ Phased(s, E, l) /\ s.link[l] \in LinkStates
    BY SoundLink
<1>1. ChangebackAcknowledgement(s, l, behind)
          = IF matched /\ left = {} THEN FinishChangeback(noted, l) ELSE noted
    BY DEF ChangebackAcknowledgement
<1>2. left \in SUBSET Link
    BY <1>0 DEF LinkStates
<1> HIDE DEF left
<1>3. /\ Rephased(s, noted, l) /\ noted.link[l] = [s.link[l] EXCEPT !.declared = left]
      /\ noted.timers = s.timers /\ noted.heldLinks = s.heldLinks /\ noted.openLinks = s.openLinks
    BY <1>0, <1>2, DeclaredRephased
<1>4. noted.link[l].phase = s.link[l].phase /\ noted.link[l].back = s.link[l].back
    BY <1>0, <1>3 DEF LinkStates
<1> HIDE DEF noted
<1>5. Phased(noted, E, l)
    BY <1>0, <1>3, <1>4 DEF Phased, Rephased, Local, Runs
<1>6. Puts(s, noted, E, l)
    BY <1>0, <1>3, <1>5, RephasedPuts
<1>7. ASSUME matched
      PROVE  Puts(s, FinishChangeback(noted, l), E, l)
    <2>1. s.link[l].up /\ ~s.link[l].remoteInhibited
        BY <1>0, <1>7, PhasesAre DEF Phased
    <2>2. noted.link[l].up /\ ~noted.link[l].remoteInhibited /\ Shape(noted)
        BY <1>3, <2>1, RephasedShape DEF Rephased
    <2>3. Puts(noted, FinishChangeback(noted, l), E, l)
        BY <1>6, <2>2, FinishChangebackPuts DEF Puts
    <2> QED BY <1>6, <2>3, PutsOn DEF Puts
<1> HIDE DEF matched
<1> QED BY <1>1, <1>6, <1>7, SoundElsewhere, PutsElsewhere

----------------------------------------------------------------------------
(* Management inhibiting: attempts at uninhibiting.                        *)

\* Another number of attempts.
LEMMA AttemptsKeeps ==
    ASSUME NEW s, NEW n, NEW E, NEW l \in Link, Elsewhere(s, E, l), Phased(s, E, l),
           Local(s, n, {l}),
           n.link[l].up = s.link[l].up, n.link[l].phase = s.link[l].phase,
           n.link[l].back = s.link[l].back, n.link[l].ordered = s.link[l].ordered,
           n.link[l].remoteInhibited = s.link[l].remoteInhibited,
           n.heldLinks = s.heldLinks, n.openLinks = s.openLinks,
           \A x \in {"Changeover", "Changeback"} : <<x, l>> \in s.timers => <<x, l>> \in n.timers,
           Base(n, E, l)
    PROVE  Keeps(s, n, E)
<1>1. Phased(n, E, l)
    BY DEF Phased, Local, Runs
<1> QED BY <1>1, LocalElsewhere

LEMMA LuaKeeps ==
    ASSUME NEW s, NEW E, NEW l \in Link, Sound(s, E)
    PROVE  Keeps(s, Lua(s, l), E)
<1> DEFINE k == [s.link[l] EXCEPT !.uninhibitAttempts = 0]
           a == [s EXCEPT !.link = [@ EXCEPT ![l] = k]]
           n == Stop(a, <<"Uninhibit", l>>)
<1>0. Shape(s) /\ Base(s, E, l) /\ Phased(s, E, l) /\ s.link[l] \in LinkStates
    BY SoundLink
<1>1. Lua(s, l) \in {s, n}
    BY DEF Lua
<1>2. /\ k \in LinkStates /\ k.uninhibitAttempts = 0
      /\ k.up = s.link[l].up /\ k.phase = s.link[l].phase /\ k.back = s.link[l].back
      /\ k.ordered = s.link[l].ordered /\ k.remoteInhibited = s.link[l].remoteInhibited
      /\ k.forceAttempts = s.link[l].forceAttempts
    BY <1>0 DEF LinkStates
<1> HIDE DEF k
<1>3. /\ Local(s, a, {l}) /\ a.link[l] = k /\ Shape(a)
      /\ a.timers = s.timers /\ a.heldLinks = s.heldLinks /\ a.openLinks = s.openLinks
    BY <1>0, <1>2, LinkLocal DEF Local
<1> HIDE DEF a
<1>4. /\ Local(s, n, {l}) /\ n.link[l] = k /\ n.timers = s.timers \ {<<"Uninhibit", l>>}
      /\ n.heldLinks = s.heldLinks /\ n.openLinks = s.openLinks
    <2>1. /\ Local(a, n, {l}) /\ n.link = a.link /\ n.timers = a.timers \ {<<"Uninhibit", l>>}
          /\ n.heldLinks = a.heldLinks /\ n.openLinks = a.openLinks
        BY <1>3, StopLocal DEF LinkTimer
    <2> HIDE DEF n
    <2> QED BY <1>3, <2>1, LocalOn
<1> HIDE DEF n
<1>5. Base(n, E, l)
    BY <1>0, <1>2, <1>4 DEF Base, Runs
<1>6. Keeps(s, n, E)
    BY <1>0, <1>2, <1>4, <1>5, SoundElsewhere, AttemptsKeeps
<1> QED BY <1>1, <1>6, KeepsItself

\* What starts an attempt, or repeats it: a message and its timer.
LEMMA UninhibitKeeps ==
    ASSUME NEW s, NEW E, NEW l \in Link, Elsewhere(s, E, l), Phased(s, E, l),
           Base(s, E \cup {<<"Uninhibit", l>>}, l),
           NEW v \in 0 .. 2, NEW c, c = [s EXCEPT !.link[l].uninhibitAttempts = v]
    PROVE  /\ Keeps(s, Start(SendAbout(c, l, "LUN"), <<"Uninhibit", l>>), E)
           /\ v = 0 => Keeps(s, c, E)
<1> DEFINE t == <<"Uninhibit", l>>
           k == [s.link[l] EXCEPT !.uninhibitAttempts = v]
           a == [s EXCEPT !.link = [@ EXCEPT ![l] = k]]
           b == SendAbout(a, l, "LUN")
           n == Start(b, t)
<1>0. Shape(s) /\ s.link[l] \in LinkStates
    BY LinkKnown DEF Elsewhere
<1>1. /\ s.link[l].ordered.out => s.link[l].up
      /\ s.link[l].remoteInhibited => Runs(s, E, <<"InhibitTest", l>>)
      /\ s.link[l].forceAttempts > 0 => Runs(s, E, <<"ForceUninhibit", l>>)
    BY DEF Base, Runs
<1>2. /\ k \in LinkStates /\ k.uninhibitAttempts = v
      /\ k.up = s.link[l].up /\ k.phase = s.link[l].phase /\ k.back = s.link[l].back
      /\ k.ordered = s.link[l].ordered /\ k.remoteInhibited = s.link[l].remoteInhibited
      /\ k.forceAttempts = s.link[l].forceAttempts
    BY <1>0 DEF LinkStates
<1>3. c = a
    OBVIOUS
<1> HIDE DEF k
<1>4. /\ Local(s, a, {l}) /\ a.link[l] = k /\ Shape(a)
      /\ a.timers = s.timers /\ a.heldLinks = s.heldLinks /\ a.openLinks = s.openLinks
    BY <1>0, <1>2, LinkLocal DEF Local
<1> HIDE DEF a
<1>5. Still(a, b) /\ Shape(b)
    BY <1>4, SendAboutStill DEF Still
<1> HIDE DEF b
<1>6. Still(b, n) /\ t \in n.timers
    BY <1>5, TimersAre, StartStill DEF LinkTimer
<1> HIDE DEF n
<1>7. Still(a, n)
    BY <1>5, <1>6, StillOn
<1>8. Local(s, n, {l})
    BY <1>4, <1>7, StillLocal, LocalOn
<1>9. /\ n.link[l] = k /\ n.heldLinks = s.heldLinks /\ n.openLinks = s.openLinks
      /\ s.timers \subseteq n.timers
    BY <1>4, <1>7 DEF Still
<1>10. Base(n, E, l)
    BY <1>1, <1>2, <1>6, <1>9 DEF Base, Runs
<1>11. Keeps(s, n, E)
    BY <1>2, <1>8, <1>9, <1>10, AttemptsKeeps
<1>12. v = 0 => Base(a, E, l)
    BY <1>1, <1>2, <1>4 DEF Base, Runs
<1>13. v = 0 => Keeps(s, a, E)
    BY <1>2, <1>4, <1>12, AttemptsKeeps
<1> QED BY <1>3, <1>11, <1>13 DEF n, b

LEMMA ForceUninhibitKeeps ==
    ASSUME NEW s, NEW E, NEW l \in Link, Elsewhere(s, E, l), Phased(s, E, l),
           Base(s, E \cup {<<"ForceUninhibit", l>>}, l),
           NEW v \in 0 .. 2, NEW c, c = [s EXCEPT !.link[l].forceAttempts = v]
    PROVE  /\ Keeps(s, Start(SendAbout(c, l, "LFU"), <<"ForceUninhibit", l>>), E)
           /\ v = 0 => Keeps(s, c, E)
<1> DEFINE t == <<"ForceUninhibit", l>>
           k == [s.link[l] EXCEPT !.forceAttempts = v]
           a == [s EXCEPT !.link = [@ EXCEPT ![l] = k]]
           b == SendAbout(a, l, "LFU")
           n == Start(b, t)
<1>0. Shape(s) /\ s.link[l] \in LinkStates
    BY LinkKnown DEF Elsewhere
<1>1. /\ s.link[l].ordered.out => s.link[l].up
      /\ s.link[l].remoteInhibited => Runs(s, E, <<"InhibitTest", l>>)
      /\ s.link[l].uninhibitAttempts > 0 => Runs(s, E, <<"Uninhibit", l>>)
    BY DEF Base, Runs
<1>2. /\ k \in LinkStates /\ k.forceAttempts = v
      /\ k.up = s.link[l].up /\ k.phase = s.link[l].phase /\ k.back = s.link[l].back
      /\ k.ordered = s.link[l].ordered /\ k.remoteInhibited = s.link[l].remoteInhibited
      /\ k.uninhibitAttempts = s.link[l].uninhibitAttempts
    BY <1>0 DEF LinkStates
<1>3. c = a
    OBVIOUS
<1> HIDE DEF k
<1>4. /\ Local(s, a, {l}) /\ a.link[l] = k /\ Shape(a)
      /\ a.timers = s.timers /\ a.heldLinks = s.heldLinks /\ a.openLinks = s.openLinks
    BY <1>0, <1>2, LinkLocal DEF Local
<1> HIDE DEF a
<1>5. Still(a, b) /\ Shape(b)
    BY <1>4, SendAboutStill DEF Still
<1> HIDE DEF b
<1>6. Still(b, n) /\ t \in n.timers
    BY <1>5, TimersAre, StartStill DEF LinkTimer
<1> HIDE DEF n
<1>7. Still(a, n)
    BY <1>5, <1>6, StillOn
<1>8. Local(s, n, {l})
    BY <1>4, <1>7, StillLocal, LocalOn
<1>9. /\ n.link[l] = k /\ n.heldLinks = s.heldLinks /\ n.openLinks = s.openLinks
      /\ s.timers \subseteq n.timers
    BY <1>4, <1>7 DEF Still
<1>10. Base(n, E, l)
    BY <1>1, <1>2, <1>6, <1>9 DEF Base, Runs
<1>11. Keeps(s, n, E)
    BY <1>2, <1>8, <1>9, <1>10, AttemptsKeeps
<1>12. v = 0 => Base(a, E, l)
    BY <1>1, <1>2, <1>4 DEF Base, Runs
<1>13. v = 0 => Keeps(s, a, E)
    BY <1>2, <1>4, <1>12, AttemptsKeeps
<1> QED BY <1>3, <1>11, <1>13 DEF n, b

\* The messages that call for an attempt, and the end of T12 and T13.
LEMMA LrtKeeps ==
    ASSUME NEW s, NEW E, NEW l \in Link, Sound(s, E)
    PROVE  Keeps(s, Lrt(s, l), E)
<1>1. /\ Elsewhere(s, E, l) /\ Phased(s, E, l) /\ Base(s, E \cup {<<"Uninhibit", l>>}, l)
    BY SoundElsewhere, SoundLink DEF Base, Runs
<1> DEFINE c == [s EXCEPT !.link[l].uninhibitAttempts = 1]
<1>2. Lrt(s, l) \in {s, Start(SendAbout(c, l, "LUN"), <<"Uninhibit", l>>)}
    BY DEF Lrt
<1>3. 1 \in 0 .. 2 /\ c = [s EXCEPT !.link[l].uninhibitAttempts = 1]
    OBVIOUS
<1> HIDE DEF c
<1> QED BY <1>1, <1>2, <1>3, UninhibitKeeps, KeepsItself

LEMMA LltKeeps ==
    ASSUME NEW s, NEW E, NEW l \in Link, Sound(s, E)
    PROVE  Keeps(s, Llt(s, l), E)
<1>1. /\ Elsewhere(s, E, l) /\ Phased(s, E, l) /\ Base(s, E \cup {<<"ForceUninhibit", l>>}, l)
    BY SoundElsewhere, SoundLink DEF Base, Runs
<1> DEFINE c == [s EXCEPT !.link[l].forceAttempts = 1]
<1>2. Llt(s, l) \in {s, Start(SendAbout(c, l, "LFU"), <<"ForceUninhibit", l>>)}
    BY DEF Llt
<1>3. 1 \in 0 .. 2 /\ c = [s EXCEPT !.link[l].forceAttempts = 1]
    OBVIOUS
<1> HIDE DEF c
<1> QED BY <1>1, <1>2, <1>3, ForceUninhibitKeeps, KeepsItself

LEMMA RepeatUninhibitKeeps ==
    ASSUME NEW s, NEW E, NEW l \in Link, Sound(s, E \cup {<<"Uninhibit", l>>})
    PROVE  Keeps(s, RepeatUninhibit(s, l), E)
<1>1. /\ Elsewhere(s, E, l) /\ Shape(s) /\ Phased(s, E, l) /\ Base(s, E \cup {<<"Uninhibit", l>>}, l)
      /\ s.link[l] \in LinkStates
    BY TimerElsewhere DEF LinkTimer, Elsewhere
<1>2. CASE s.link[l].uninhibitAttempts = 0
    <2>1. Base(s, E, l)
        BY <1>1, <1>2 DEF Base, Runs
    <2>2. Puts(s, s, E, l)
        BY <1>1, <2>1, StillItself, StillRephased, RephasedPuts
    <2>3. RepeatUninhibit(s, l) = s
        BY <1>2 DEF RepeatUninhibit
    <2> QED BY <1>1, <2>2, <2>3, PutsElsewhere
<1>3. CASE s.link[l].uninhibitAttempts = 1
    <2> DEFINE c == [s EXCEPT !.link[l].uninhibitAttempts = 2]
    <2>1. RepeatUninhibit(s, l) = Start(SendAbout(c, l, "LUN"), <<"Uninhibit", l>>)
        BY <1>3 DEF RepeatUninhibit
    <2>2. 2 \in 0 .. 2 /\ c = [s EXCEPT !.link[l].uninhibitAttempts = 2]
        OBVIOUS
    <2> HIDE DEF c
    <2> QED BY <1>1, <2>1, <2>2, UninhibitKeeps
<1>4. CASE s.link[l].uninhibitAttempts = 2
    <2> DEFINE c == [s EXCEPT !.link[l].uninhibitAttempts = 0]
    <2>1. RepeatUninhibit(s, l) = c
        BY <1>4 DEF RepeatUninhibit
    <2>2. 0 \in 0 .. 2 /\ c = [s EXCEPT !.link[l].uninhibitAttempts = 0]
        OBVIOUS
    <2> HIDE DEF c
    <2> QED BY <1>1, <2>1, <2>2, UninhibitKeeps
<1> QED BY <1>1, <1>2, <1>3, <1>4 DEF LinkStates

LEMMA RepeatForceUninhibitKeeps ==
    ASSUME NEW s, NEW E, NEW l \in Link, Sound(s, E \cup {<<"ForceUninhibit", l>>})
    PROVE  Keeps(s, RepeatForceUninhibit(s, l), E)
<1>1. /\ Elsewhere(s, E, l) /\ Shape(s) /\ Phased(s, E, l)
      /\ Base(s, E \cup {<<"ForceUninhibit", l>>}, l) /\ s.link[l] \in LinkStates
    BY TimerElsewhere DEF LinkTimer, Elsewhere
<1>2. CASE s.link[l].forceAttempts = 0
    <2>1. Base(s, E, l)
        BY <1>1, <1>2 DEF Base, Runs
    <2>2. Puts(s, s, E, l)
        BY <1>1, <2>1, StillItself, StillRephased, RephasedPuts
    <2>3. RepeatForceUninhibit(s, l) = s
        BY <1>2 DEF RepeatForceUninhibit
    <2> QED BY <1>1, <2>2, <2>3, PutsElsewhere
<1>3. CASE s.link[l].forceAttempts = 1
    <2> DEFINE c == [s EXCEPT !.link[l].forceAttempts = 2]
    <2>1. RepeatForceUninhibit(s, l) = Start(SendAbout(c, l, "LFU"), <<"ForceUninhibit", l>>)
        BY <1>3 DEF RepeatForceUninhibit
    <2>2. 2 \in 0 .. 2 /\ c = [s EXCEPT !.link[l].forceAttempts = 2]
        OBVIOUS
    <2> HIDE DEF c
    <2> QED BY <1>1, <2>1, <2>2, ForceUninhibitKeeps
<1>4. CASE s.link[l].forceAttempts = 2
    <2> DEFINE c == [s EXCEPT !.link[l].forceAttempts = 0]
    <2>1. RepeatForceUninhibit(s, l) = c
        BY <1>4 DEF RepeatForceUninhibit
    <2>2. 0 \in 0 .. 2 /\ c = [s EXCEPT !.link[l].forceAttempts = 0]
        OBVIOUS
    <2> HIDE DEF c
    <2> QED BY <1>1, <2>1, <2>2, ForceUninhibitKeeps
<1> QED BY <1>1, <1>2, <1>3, <1>4 DEF LinkStates

\* The test of a remote inhibition goes on until it is over.
LEMMA InhibitTestKeeps ==
    ASSUME NEW s, NEW E, NEW l \in Link, Sound(s, E \cup {<<"InhibitTest", l>>})
    PROVE  Keeps(s, InhibitTestTimeout(s, l), E)
<1> DEFINE a == SendAbout(s, l, "LRT")
           n == Start(a, <<"InhibitTest", l>>)
<1>1. /\ Elsewhere(s, E, l) /\ Shape(s) /\ Phased(s, E, l)
      /\ Base(s, E \cup {<<"InhibitTest", l>>}, l)
    BY TimerElsewhere DEF LinkTimer, Elsewhere
<1>2. CASE s.link[l].remoteInhibited
    <2>1. Still(s, a) /\ Shape(a)
        BY <1>1, SendAboutStill DEF Still
    <2> HIDE DEF a
    <2>2. Still(a, n) /\ <<"InhibitTest", l>> \in n.timers
        BY <2>1, TimersAre, StartStill DEF LinkTimer
    <2>3. InhibitTestTimeout(s, l) = n
        BY <1>2 DEF InhibitTestTimeout, a
    <2> HIDE DEF n
    <2>4. Still(s, n)
        BY <2>1, <2>2, StillOn
    <2>5. Base(n, E, l)
        BY <1>1, <2>2, <2>4 DEF Base, Runs, Still
    <2>6. Puts(s, n, E, l)
        BY <1>1, <2>4, <2>5, StillAround, StillPhased DEF Puts
    <2> QED BY <1>1, <2>3, <2>6, PutsElsewhere
<1>3. CASE ~s.link[l].remoteInhibited
    <2>1. Base(s, E, l)
        BY <1>1, <1>3 DEF Base, Runs
    <2>2. Puts(s, s, E, l)
        BY <1>1, <2>1, StillItself, StillRephased, RephasedPuts
    <2>3. InhibitTestTimeout(s, l) = s
        BY <1>3 DEF InhibitTestTimeout
    <2> QED BY <1>1, <2>2, <2>3, PutsElsewhere
<1> QED BY <1>2, <1>3

----------------------------------------------------------------------------
(* Management inhibiting: the messages of the far end.                     *)

\* What stays as it is about isolation.
SameIsolation(s, n) ==
    /\ n.isolated = s.isolated /\ n.restartDue = s.restartDue
    /\ <<"Isolation">> \in s.timers => <<"Isolation">> \in n.timers

\* A link that is inhibited hands over its traffic, and nothing else happens.
LEMMA InhibitSound ==
    ASSUME NEW s, NEW E, NEW l \in Link, Sound(s, E)
    PROVE  /\ Sound(Inhibit(s, l), E) /\ SameIsolation(s, Inhibit(s, l))
           /\ Local(s, Inhibit(s, l), {l}) /\ ~LinkAvailable(Inhibit(s, l), l)
<1> DEFINE k == [s.link[l] EXCEPT !.remoteInhibited = TRUE]
           a == [s EXCEPT !.link = [@ EXCEPT ![l] = k]]
           marked == SendAbout(a, l, "LIA")
           none == {}
           b == [marked EXCEPT !.link[l].declared = none]
           leaving == [b EXCEPT !.link[l].phase = "ChangeoverTimed"]
           c == Stop(leaving, <<"Changeback", l>>)
           d == Hold(c, l)
           handed == Start(d, <<"Changeover", l>>)
           closed == [marked EXCEPT !.link[l].phase = "Closed"]
           phase == s.link[l].phase
           left == CASE phase \in Carrying -> handed
                     [] phase = "AwaitRestart" -> closed
                     [] OTHER -> marked
           n == Start(left, <<"InhibitTest", l>>)
<1>0. Shape(s) /\ Base(s, E, l) /\ Phased(s, E, l) /\ s.link[l] \in LinkStates
    BY SoundLink
<1>1. Inhibit(s, l) = n
    BY DEF Inhibit
<1>2. /\ k \in LinkStates /\ k.remoteInhibited
      /\ k.up = s.link[l].up /\ k.phase = phase /\ k.back = s.link[l].back
      /\ k.ordered = s.link[l].ordered
      /\ k.uninhibitAttempts = s.link[l].uninhibitAttempts
      /\ k.forceAttempts = s.link[l].forceAttempts
    BY <1>0 DEF LinkStates
<1> HIDE DEF k
<1>3. /\ Local(s, a, {l}) /\ a.link[l] = k /\ Shape(a)
      /\ a.timers = s.timers /\ a.heldLinks = s.heldLinks /\ a.openLinks = s.openLinks
    BY <1>0, <1>2, LinkLocal DEF Local
<1> HIDE DEF a
<1>4. Still(a, marked) /\ Shape(marked)
    BY <1>3, SendAboutStill DEF Still
<1>5. /\ Local(s, marked, {l}) /\ marked.link[l] = k
      /\ marked.heldLinks = s.heldLinks /\ marked.openLinks = s.openLinks
      /\ s.timers \subseteq marked.timers
    BY <1>3, <1>4, StillLocal, LocalOn DEF Still
<1> HIDE DEF marked
<1> DEFINE Left(o) ==
        /\ Rephased(marked, o, l)
        /\ o.link[l].phase \in Changeover \cup {"Closed"}
        /\ l \notin o.openLinks
        /\ l \in o.heldLinks <=> o.link[l].phase \in Changeover
        /\ o.link[l].phase \in Changeover => Runs(o, E, <<"Changeover", l>>)
<1>6. Left(handed)
    <2>1. none \in SUBSET Link
        OBVIOUS
    <2> HIDE DEF none
    <2>2. Rephased(marked, b, l) /\ Shape(b)
        BY <1>4, <2>1, DeclaredRephased, RephasedShape
    <2> HIDE DEF b
    <2>3. /\ Rephased(b, leaving, l) /\ Shape(leaving)
          /\ leaving.link[l] = [b.link[l] EXCEPT !.phase = "ChangeoverTimed"]
        BY <2>2, PhasesAre, PhaseRephased, RephasedShape
    <2>4. leaving.link[l].phase = "ChangeoverTimed"
        BY <2>2, <2>3, LinkKnown DEF LinkStates
    <2> HIDE DEF leaving
    <2>5. Rephased(leaving, c, l) /\ Shape(c) /\ c.link[l] = leaving.link[l]
        BY <2>3, StopRephased, RephasedShape
    <2> HIDE DEF c
    <2>6. /\ Rephased(c, d, l) /\ Shape(d) /\ d.link[l] = c.link[l]
          /\ l \in d.heldLinks /\ l \notin d.openLinks
        BY <2>5, HoldRephased, RephasedShape
    <2> HIDE DEF d
    <2>7. Still(d, handed) /\ <<"Changeover", l>> \in handed.timers
        BY <2>6, TimersAre, StartStill DEF LinkTimer
    <2> HIDE DEF handed
    <2>8. Rephased(marked, handed, l)
        BY <2>2, <2>3, <2>5, <2>6, <2>7, StillRephased, RephasedOn
    <2>9. handed.link[l].phase = "ChangeoverTimed" /\ l \in handed.heldLinks /\ l \notin handed.openLinks
        BY <2>4, <2>5, <2>6, <2>7 DEF Still
    <2> QED BY <2>7, <2>8, <2>9, PhasesAre DEF Runs
<1>7. ASSUME phase = "AwaitRestart" PROVE Left(closed)
    <2>1. /\ Rephased(marked, closed, l) /\ closed.link[l] = [marked.link[l] EXCEPT !.phase = "Closed"]
          /\ closed.heldLinks = marked.heldLinks /\ closed.openLinks = marked.openLinks
        BY <1>4, PhasesAre, PhaseRephased
    <2>2. closed.link[l].phase = "Closed"
        BY <1>2, <1>5, <2>1 DEF LinkStates
    <2> HIDE DEF closed
    <2> QED BY <1>0, <1>5, <1>7, <2>1, <2>2, PhasesAre DEF Phased
<1>8. ASSUME phase \in Changeover \cup {"Closed"} PROVE Left(marked)
    <2>1. Rephased(marked, marked, l)
        BY <1>4, StillItself, StillRephased
    <2> QED BY <1>0, <1>2, <1>5, <1>8, <2>1, PhasesAre DEF Phased, Runs
<1> HIDE DEF handed, closed
<1>9. Left(left)
    <2> HIDE DEF Left
    <2>1. /\ phase \in Phase
          /\ Phase = Carrying \cup Changeover \cup {"Closed", "AwaitRestart"}
        BY <1>0, PhasesAre DEF LinkStates, Phase
    <2>2. CASE phase \in Carrying
        <3>1. left = handed
            BY <2>2, PhasesAre
        <3> QED BY <1>6, <3>1
    <2>3. CASE phase = "AwaitRestart"
        <3>1. left = closed
            BY <2>3, PhasesAre
        <3> QED BY <1>7, <2>3, <3>1
    <2>4. CASE phase \in Changeover \cup {"Closed"}
        <3>1. left = marked
            BY <2>4, PhasesAre
        <3> QED BY <1>8, <2>4, <3>1
    <2> QED BY <2>1, <2>2, <2>3, <2>4
<1> HIDE DEF left
<1>10. Still(left, n) /\ <<"InhibitTest", l>> \in n.timers
    BY <1>9, RephasedShape, TimersAre, StartStill DEF LinkTimer
<1> HIDE DEF n
<1>11. Rephased(marked, n, l)
    BY <1>9, <1>10, StillRephased, RephasedOn
<1>12. Local(s, n, {l})
    BY <1>5, <1>11, LocalOn DEF Rephased
<1>13. n.link[l] = left.link[l] /\ n.openLinks = left.openLinks /\ n.heldLinks = left.heldLinks
       /\ left.timers \subseteq n.timers
    BY <1>10 DEF Still
<1>14. n.link[l].remoteInhibited
    BY <1>2, <1>5, <1>11 DEF Rephased
<1>15. Base(n, E, l)
    BY <1>0, <1>2, <1>5, <1>10, <1>11 DEF Base, Rephased, Runs
<1>16. Phased(n, E, l)
    BY <1>9, <1>13, <1>14, PhasesAre DEF Phased, Runs
<1>17. Around(s, n, E, {l})
    BY <1>12, LocalAround
<1>18. Apart(n, E, {l} \ {l})
    BY <1>15, <1>16, <1>17, SoundApart, AroundApart
<1>19. Sound(n, E)
    BY <1>18 DEF Sound
<1>20. SameIsolation(s, n)
    BY <1>17 DEF Around, SameIsolation
<1>21. ~LinkAvailable(n, l)
    BY <1>9, <1>13, PhasesAre DEF LinkAvailable
<1> QED BY <1>1, <1>12, <1>19, <1>20, <1>21

\* Without a link, the destinations that are reachable still are.
Spares(s, l) ==
    \A d \in Dest : Reachable(s, d) => Reachable([s EXCEPT !.link[l].phase = "Closed"], d)

LEMMA LinSound ==
    ASSUME NEW s, NEW E, NEW l \in Link, Sound(s, E)
    PROVE  /\ Sound(Lin(s, l), E) /\ SameIsolation(s, Lin(s, l))
           /\ \/ NoneInhibited(s, Lin(s, l))
              \/ /\ LinkAvailable(s, l) => Spares(s, l)
                 /\ Local(s, Lin(s, l), {l}) /\ ~LinkAvailable(Lin(s, l), l)
<1>1. CASE s.link[l].remoteInhibited
    <2>1. Lin(s, l) = SendAbout(s, l, "LIA")
        BY <1>1 DEF Lin
    <2> QED BY <2>1, SoundLink, SendAboutStill, StillKeeps DEF Keeps, SameIsolation
<1>2. CASE ~s.link[l].remoteInhibited /\ LinkAvailable(s, l) /\ WouldIsolate(s, l)
    <2>1. Lin(s, l) = SendAbout(s, l, "LID")
        BY <1>2 DEF Lin
    <2> QED BY <2>1, SoundLink, SendAboutStill, StillKeeps DEF Keeps, SameIsolation
<1>3. CASE ~s.link[l].remoteInhibited /\ ~ (LinkAvailable(s, l) /\ WouldIsolate(s, l))
    <2>1. Lin(s, l) = Inhibit(s, l)
        BY <1>3 DEF Lin
    <2>2. LinkAvailable(s, l) => Spares(s, l)
        BY <1>3 DEF WouldIsolate, Spares
    <2> QED BY <2>1, <2>2, InhibitSound
<1>4. s.link[l].remoteInhibited \in BOOLEAN
    BY SoundLink DEF LinkStates
<1> QED BY <1>1, <1>2, <1>3, <1>4

LEMMA LunKeeps ==
    ASSUME NEW s, NEW E, NEW l \in Link, Sound(s, E)
    PROVE  Keeps(s, Lun(s, l), E)
<1> DEFINE a == SendAbout(s, l, "LUA")
           k == [a.link[l] EXCEPT !.forceAttempts = 0]
           b == [a EXCEPT !.link = [@ EXCEPT ![l] = k]]
           answered == Stop(b, <<"ForceUninhibit", l>>)
           j == [answered.link[l] EXCEPT !.remoteInhibited = FALSE]
           c == [answered EXCEPT !.link = [@ EXCEPT ![l] = j]]
           lifted == Stop(c, <<"InhibitTest", l>>)
           back == [lifted EXCEPT !.link[l].back = TRUE]
<1>0. Shape(s) /\ Base(s, E, l) /\ Phased(s, E, l) /\ s.link[l] \in LinkStates
    BY SoundLink
<1>1. Lun(s, l) = IF ~s.link[l].remoteInhibited THEN answered
                  ELSE IF ~s.link[l].up THEN lifted
                  ELSE IF s.link[l].phase = "Closed" THEN Restore(lifted, l)
                  ELSE IF s.link[l].phase \in Changeover THEN back
                  ELSE lifted
    BY DEF Lun
<1>2. Still(s, a) /\ Shape(a) /\ a.link[l] = s.link[l]
    BY <1>0, SendAboutStill DEF Still
<1> HIDE DEF a
<1>3. /\ k \in LinkStates /\ k.forceAttempts = 0
      /\ k.up = s.link[l].up /\ k.phase = s.link[l].phase /\ k.back = s.link[l].back
      /\ k.ordered = s.link[l].ordered /\ k.remoteInhibited = s.link[l].remoteInhibited
      /\ k.uninhibitAttempts = s.link[l].uninhibitAttempts
    BY <1>0, <1>2 DEF LinkStates
<1> HIDE DEF k
<1>4. /\ Local(a, b, {l}) /\ b.link[l] = k /\ Shape(b)
      /\ b.timers = a.timers /\ b.heldLinks = a.heldLinks /\ b.openLinks = a.openLinks
    BY <1>2, <1>3, LinkLocal DEF Local
<1> HIDE DEF b
<1>5. /\ Local(b, answered, {l}) /\ answered.link[l] = k /\ Shape(answered)
      /\ answered.timers = b.timers \ {<<"ForceUninhibit", l>>}
      /\ answered.heldLinks = b.heldLinks /\ answered.openLinks = b.openLinks
    <2>1. /\ Local(b, answered, {l}) /\ answered.link = b.link
          /\ answered.timers = b.timers \ {<<"ForceUninhibit", l>>}
          /\ answered.heldLinks = b.heldLinks /\ answered.openLinks = b.openLinks
        BY <1>4, StopLocal DEF LinkTimer
    <2> HIDE DEF answered
    <2> QED BY <1>4, <2>1 DEF Local
<1> HIDE DEF answered
<1>6. /\ Local(s, answered, {l})
      /\ answered.heldLinks = s.heldLinks /\ answered.openLinks = s.openLinks
      /\ \A x \in LinkTimer \ {"ForceUninhibit"} :
            <<x, l>> \in s.timers => <<x, l>> \in answered.timers
    <2>1. Local(s, a, {l})
        BY <1>2, StillLocal
    <2>2. Local(s, answered, {l})
        BY <1>4, <1>5, <2>1, LocalOn
    <2> QED BY <1>2, <1>4, <1>5, <2>2 DEF Still
<1>7. Base(answered, E, l)
    BY <1>0, <1>3, <1>5, <1>6 DEF Base, Runs, LinkTimer
<1>8. Phased(answered, E, l)
    BY <1>0, <1>3, <1>5, <1>6 DEF Phased, Runs, LinkTimer, Local
<1>9. Keeps(s, answered, E)
    BY <1>3, <1>5, <1>6, <1>7, <1>8, SoundElsewhere, LocalElsewhere
<1>10. /\ j \in LinkStates /\ ~j.remoteInhibited /\ j.forceAttempts = k.forceAttempts
       /\ j.up = k.up /\ j.phase = k.phase /\ j.back = k.back
       /\ j.ordered = k.ordered /\ j.uninhibitAttempts = k.uninhibitAttempts
    BY <1>3, <1>5 DEF LinkStates
<1> HIDE DEF j
<1>11. /\ Local(answered, c, {l}) /\ c.link[l] = j /\ Shape(c)
       /\ c.timers = answered.timers
       /\ c.heldLinks = answered.heldLinks /\ c.openLinks = answered.openLinks
    BY <1>5, <1>10, LinkLocal DEF Local
<1> HIDE DEF c
<1>12. /\ Local(c, lifted, {l}) /\ lifted.link[l] = j /\ Shape(lifted)
       /\ lifted.timers = c.timers \ {<<"InhibitTest", l>>}
       /\ lifted.heldLinks = c.heldLinks /\ lifted.openLinks = c.openLinks
    <2>1. /\ Local(c, lifted, {l}) /\ lifted.link = c.link
          /\ lifted.timers = c.timers \ {<<"InhibitTest", l>>}
          /\ lifted.heldLinks = c.heldLinks /\ lifted.openLinks = c.openLinks
        BY <1>11, StopLocal DEF LinkTimer
    <2> HIDE DEF lifted
    <2> QED BY <1>11, <2>1 DEF Local
<1> HIDE DEF lifted
<1>13. /\ Local(answered, lifted, {l})
       /\ lifted.heldLinks = s.heldLinks /\ lifted.openLinks = s.openLinks
       /\ \A x \in LinkTimer \ {"InhibitTest"} :
             <<x, l>> \in answered.timers => <<x, l>> \in lifted.timers
    <2>1. Local(answered, lifted, {l})
        BY <1>11, <1>12, LocalOn
    <2> QED BY <1>6, <1>11, <1>12, <2>1
<1>14. Base(lifted, E, l)
    BY <1>5, <1>7, <1>10, <1>12, <1>13 DEF Base, Runs, LinkTimer
<1>15. Around(answered, lifted, E, {l}) /\ NoneInhibited(answered, lifted)
    <2>1. NoneInhibited(answered, lifted)
        BY <1>10, <1>12, <1>13 DEF NoneInhibited, Local
    <2> QED BY <1>13, <2>1, LocalAround
<1>16. ASSUME NEW o, Puts(lifted, o, E, l) PROVE Keeps(s, o, E)
    <2>1. Puts(answered, o, E, l)
        BY <1>15, <1>16, PutsOn
    <2>2. Keeps(answered, o, E)
        BY <1>9, <2>1, SoundElsewhere, PutsElsewhere DEF Keeps
    <2> QED BY <1>9, <2>2, KeepsOn
<1>17. Rephased(lifted, lifted, l)
    BY <1>12, StillItself, StillRephased
<1>18. s.link[l].phase \in Phase /\ Phase = Carrying \cup Changeover \cup {"Closed", "AwaitRestart"}
    BY <1>0, PhasesAre DEF LinkStates, Phase
<1>19. CASE ~s.link[l].remoteInhibited
    BY <1>1, <1>9, <1>19
<1>20. CASE s.link[l].remoteInhibited /\ ~s.link[l].up
    <2>1. Phased(lifted, E, l)
        BY <1>3, <1>5, <1>6, <1>8, <1>10, <1>12, <1>13, <1>20 DEF Phased, Runs, LinkTimer, Local
    <2> QED BY <1>1, <1>14, <1>16, <1>17, <1>20, <2>1, RephasedPuts
<1>21. CASE s.link[l].remoteInhibited /\ s.link[l].up /\ s.link[l].phase = "Closed"
    <2>1. /\ lifted.link[l].up /\ ~lifted.link[l].remoteInhibited
          /\ l \notin lifted.openLinks /\ l \notin lifted.heldLinks
        BY <1>0, <1>3, <1>10, <1>12, <1>13, <1>21, PhasesAre DEF Phased
    <2> QED BY <1>1, <1>12, <1>14, <1>16, <1>21, <2>1, RestorePuts
<1>22. CASE s.link[l].remoteInhibited /\ s.link[l].up /\ s.link[l].phase \in Changeover
    <2>1. Lun(s, l) = back
        BY <1>1, <1>22, PhasesAre
    <2>2. /\ Rephased(lifted, back, l) /\ back.link[l] = [lifted.link[l] EXCEPT !.back = TRUE]
          /\ back.timers = lifted.timers
          /\ back.heldLinks = lifted.heldLinks /\ back.openLinks = lifted.openLinks
        BY <1>12, BackRephased
    <2>3. back.link[l].back /\ back.link[l].phase = s.link[l].phase
        BY <1>3, <1>10, <1>12, <2>2 DEF LinkStates
    <2> HIDE DEF back
    <2>4. Phased(back, E, l)
        BY <1>0, <1>5, <1>6, <1>8, <1>12, <1>13, <1>22, <2>2, <2>3, PhasesAre
           DEF Phased, Runs, LinkTimer, Local, Rephased
    <2> QED BY <1>14, <1>16, <2>1, <2>2, <2>4, RephasedPuts
<1>23. s.link[l].remoteInhibited => s.link[l].phase \notin Carrying \cup {"AwaitRestart"}
    BY <1>0 DEF Phased
<1> QED BY <1>0, <1>18, <1>19, <1>20, <1>21, <1>22, <1>23 DEF LinkStates

----------------------------------------------------------------------------
(* Routes (clause 13): what the steps of a route message do.               *)

\* Everything is as it was but for the routes and their timers.
Routed(s, n) ==
    /\ Shape(n)
    /\ n.link = s.link /\ n.openLinks = s.openLinks /\ n.heldLinks = s.heldLinks
    /\ n.restartingSets = s.restartingSets /\ n.guard = s.guard /\ n.guarded = s.guarded
    /\ n.restarting = s.restarting /\ n.restartDue = s.restartDue /\ n.isolated = s.isolated

LEMMA RoutedOn ==
    ASSUME NEW s, NEW n, NEW o, Routed(s, n), Routed(n, o)
    PROVE  Routed(s, o)
BY DEF Routed

LEMMA SetStatusDoes ==
    ASSUME NEW s, Shape(s), NEW d \in Dest, NEW ls \in Linkset, RoutesThrough(d, ls) # {},
           NEW status \in RouteStatus
    PROVE  LET r == FirstRouteThrough(d, ls)
               n == SetStatus(s, d, r, status) IN
           /\ Routed(s, n)
           /\ n.mark = s.mark /\ n.deferred = s.deferred /\ n.holding = s.holding
           /\ n.timers = s.timers
           /\ \A x : x \in n.status <=> \/ x \in s.status /\ (x[1] # d \/ x[2] # r)
                                        \/ x = <<d, r, status>> /\ status # "Allowed"
<1> DEFINE r == FirstRouteThrough(d, ls)
           others == {x \in s.status : x[1] # d \/ x[2] # r}
           new == {<<d, r, status>>} \ {<<d, r, "Allowed">>}
           all == others \cup new
           n == [s EXCEPT !.status = all]
<1>1. SetStatus(s, d, r, status) = n
    BY DEF SetStatus
<1>2. \A x : x \in all <=> \/ x \in s.status /\ (x[1] # d \/ x[2] # r)
                           \/ x = <<d, r, status>> /\ status # "Allowed"
    OBVIOUS
<1>3. status # "Allowed" => <<d, r, status>> \in Statuses
    <2>1. r \in Nat
        BY FirstRoute
    <2> QED BY <2>1 DEF Statuses, RouteStatus
<1>4. all \subseteq Statuses
    <2> HIDE DEF all, r
    <2> QED BY <1>2, <1>3 DEF Shape
<1> HIDE DEF all
<1>5. /\ Routed(s, n) /\ n.status = all
      /\ n.mark = s.mark /\ n.deferred = s.deferred /\ n.holding = s.holding
      /\ n.timers = s.timers
    BY <1>4 DEF Shape, Routed, Fields
<1> HIDE DEF n
<1> QED BY <1>1, <1>2, <1>5

LEMMA SetMarksDoes ==
    ASSUME NEW s, Shape(s), NEW d, NEW marks
    PROVE  LET n == SetMarks(s, d, marks) IN
           /\ Routed(s, n)
           /\ n.status = s.status /\ n.deferred = s.deferred /\ n.holding = s.holding
           /\ n.timers = s.timers
           /\ \A k : k \in n.mark <=> \/ k \in s.mark /\ (k[1] # d \/ \A j \in marks : j[2] # k[2])
                                      \/ k \in marks /\ k[3] # "Allowed"
<1> DEFINE others == {k \in s.mark : k[1] # d \/ \A j \in marks : j[2] # k[2]}
           all == others \cup {k \in marks : k[3] # "Allowed"}
           n == [s EXCEPT !.mark = all]
<1>1. SetMarks(s, d, marks) = n
    BY DEF SetMarks
<1>2. \A k : k \in all <=> \/ k \in s.mark /\ (k[1] # d \/ \A j \in marks : j[2] # k[2])
                           \/ k \in marks /\ k[3] # "Allowed"
    OBVIOUS
<1> HIDE DEF all
<1>3. /\ Routed(s, n) /\ n.mark = all
      /\ n.status = s.status /\ n.deferred = s.deferred /\ n.holding = s.holding
      /\ n.timers = s.timers
    BY DEF Shape, Routed, Fields
<1> HIDE DEF n
<1> QED BY <1>1, <1>2, <1>3

LEMMA DeferDoes ==
    ASSUME NEW s, Shape(s), NEW d, NEW ls, NEW status
    PROVE  LET n == Defer(s, d, ls, status) IN
           /\ Routed(s, n)
           /\ n.status = s.status /\ n.mark = s.mark /\ n.holding = s.holding /\ n.timers = s.timers
           /\ \A k : k \in n.deferred <=> \/ k \in s.deferred /\ (k[1] # d \/ k[2] # ls)
                                          \/ k = <<d, ls, status>>
<1> DEFINE all == {k \in s.deferred : k[1] # d \/ k[2] # ls} \cup {<<d, ls, status>>}
           n == [s EXCEPT !.deferred = all]
<1>1. Defer(s, d, ls, status) = n
    BY DEF Defer
<1>2. \A k : k \in all <=> \/ k \in s.deferred /\ (k[1] # d \/ k[2] # ls)
                           \/ k = <<d, ls, status>>
    OBVIOUS
<1> HIDE DEF all
<1>3. /\ Routed(s, n) /\ n.deferred = all
      /\ n.status = s.status /\ n.mark = s.mark /\ n.holding = s.holding /\ n.timers = s.timers
    BY DEF Shape, Routed, Fields
<1> HIDE DEF n
<1> QED BY <1>1, <1>2, <1>3

LEMMA ApplyDeferredDoes ==
    ASSUME NEW s, Shape(s), NEW d
    PROVE  LET n == ApplyDeferred(s, d)
               marks == {k \in s.deferred : k[1] = d} IN
           /\ Routed(s, n)
           /\ n.status = s.status /\ n.holding = s.holding /\ n.timers = s.timers
           /\ n.deferred = s.deferred \ marks
           /\ \A k : k \in n.mark <=> \/ k \in s.mark /\ (k[1] # d \/ \A j \in marks : j[2] # k[2])
                                      \/ k \in marks /\ k[3] # "Allowed"
<1> DEFINE marks == {k \in s.deferred : k[1] = d}
           a == SetMarks(s, d, marks)
           n == [a EXCEPT !.deferred = @ \ marks]
<1>1. ApplyDeferred(s, d) = n
    BY DEF ApplyDeferred
<1> HIDE DEF marks
<1>2. /\ Routed(s, a)
      /\ a.status = s.status /\ a.deferred = s.deferred /\ a.holding = s.holding
      /\ a.timers = s.timers
      /\ \A k : k \in a.mark <=> \/ k \in s.mark /\ (k[1] # d \/ \A j \in marks : j[2] # k[2])
                                 \/ k \in marks /\ k[3] # "Allowed"
    BY SetMarksDoes
<1> HIDE DEF a
<1>3. /\ Routed(a, n) /\ n.deferred = a.deferred \ marks
      /\ n.status = a.status /\ n.mark = a.mark /\ n.holding = a.holding /\ n.timers = a.timers
    BY <1>2 DEF Shape, Routed, Fields
<1> HIDE DEF n
<1>4. Routed(s, n)
    BY <1>2, <1>3, RoutedOn
<1> QED BY <1>1, <1>2, <1>3, <1>4 DEF marks

LEMMA ReleaseDoes ==
    ASSUME NEW s, Shape(s), NEW d
    PROVE  LET n == Release(s, d) IN
           /\ Routed(s, n)
           /\ n.status = s.status /\ n.mark = s.mark /\ n.deferred = s.deferred
           /\ n.holding = s.holding \ {d} /\ n.timers = s.timers \ {<<"Rerouting", d>>}
BY DEF Release, Stop, Push, Shape, Routed, Fields

LEMMA HoldDestinationDoes ==
    ASSUME NEW s, Shape(s), NEW d \in Dest
    PROVE  LET n == HoldDestination(s, d) IN
           /\ Routed(s, n)
           /\ n.status = s.status /\ n.mark = s.mark /\ n.deferred = s.deferred
           /\ n.holding = s.holding \cup {d} /\ n.timers = s.timers \cup {<<"Rerouting", d>>}
<1>1. <<"Rerouting", d>> \in Timers
    BY DEF Timers
<1> QED BY <1>1 DEF HoldDestination, Start, Push, Shape, Routed, Fields

LEMMA RouteTimerDoes ==
    ASSUME NEW s, Shape(s), NEW d \in Dest, NEW ls \in Linkset
    PROVE  /\ LET n == Start(s, <<"RouteSetTest", d, ls>>) IN
              /\ Routed(s, n)
              /\ n.status = s.status /\ n.mark = s.mark /\ n.deferred = s.deferred
              /\ n.holding = s.holding /\ n.timers = s.timers \cup {<<"RouteSetTest", d, ls>>}
           /\ LET n == Stop(s, <<"RouteSetTest", d, ls>>) IN
              /\ Routed(s, n)
              /\ n.status = s.status /\ n.mark = s.mark /\ n.deferred = s.deferred
              /\ n.holding = s.holding /\ n.timers = s.timers \ {<<"RouteSetTest", d, ls>>}
<1>1. <<"RouteSetTest", d, ls>> \in Timers
    BY DEF Timers
<1> DEFINE t == <<"RouteSetTest", d, ls>>
<1> HIDE DEF t
<1>2. LET n == Start(s, t) IN
      /\ Routed(s, n)
      /\ n.status = s.status /\ n.mark = s.mark /\ n.deferred = s.deferred
      /\ n.holding = s.holding /\ n.timers = s.timers \cup {t}
    BY <1>1 DEF Start, Shape, Routed, Fields, t
<1>3. LET n == Stop(s, t) IN
      /\ Routed(s, n)
      /\ n.status = s.status /\ n.mark = s.mark /\ n.deferred = s.deferred
      /\ n.holding = s.holding /\ n.timers = s.timers \ {t}
    BY DEF Stop, Shape, Routed, Fields
<1> QED BY <1>2, <1>3 DEF t

\* An input about routes that leaves them right.  One of their timers may have
\* run out before it (F).
LEMMA RoutedKeeps ==
    ASSUME NEW s, NEW n, NEW E, NEW F, Sound(s, F), Routed(s, n), RoutesOk(n, E),
           \A t \in F : t \in E \/ t[1] \in {"Rerouting", "RouteSetTest"},
           \A t \in s.timers : t \in n.timers \/ t[1] \in {"Rerouting", "RouteSetTest"}
    PROVE  Keeps(s, n, E)
<1>1. /\ RestOk(s, F) /\ Shape(n)
      /\ \A l \in Link : Base(s, F, l) /\ Phased(s, F, l)
    BY DEF Sound, Apart, Routed
<1>2. \A x, y : Runs(s, F, <<x, y>>) /\ x \notin {"Rerouting", "RouteSetTest"} => Runs(n, E, <<x, y>>)
    <2>1. \A x, y : <<x, y>>[1] = x
        OBVIOUS
    <2> QED BY <2>1 DEF Runs
<1>3. \A x : /\ Runs(s, F, <<x>>) /\ x \notin {"Rerouting", "RouteSetTest"} => Runs(n, E, <<x>>)
             /\ <<x>> \in s.timers /\ x \notin {"Rerouting", "RouteSetTest"} => <<x>> \in n.timers
    <2>1. \A x : <<x>>[1] = x
        OBVIOUS
    <2> QED BY <2>1 DEF Runs
<1>4. RestartsOk(n, E)
    BY <1>1, <1>2, <1>3 DEF RestOk, RestartsOk, Routed
<1>5. ASSUME NEW l \in Link PROVE Base(n, E, l)
    BY <1>1, <1>2 DEF Base, Routed
<1>6. ASSUME NEW l \in Link PROVE Phased(n, E, l)
    BY <1>1, <1>2 DEF Phased, Routed
<1>7. Sound(n, E)
    BY <1>1, <1>4, <1>5, <1>6 DEF Sound, Apart, RestOk
<1> QED BY <1>3, <1>7 DEF Keeps, Routed, NoneInhibited

\* What a method about the route of d through ls does with the timers.
NotedIn(s, n, d, ls, status) ==
    /\ \A x : x \in n.status <=>
           \/ x \in s.status /\ (x[1] # d \/ x[2] # FirstRouteThrough(d, ls))
           \/ x = <<d, FirstRouteThrough(d, ls), status>> /\ status # "Allowed"
    /\ \A t \in s.timers : \/ t \in n.timers
                           \/ t = <<"RouteSetTest", d, ls>> /\ status = "Allowed"
                           \/ t = <<"Rerouting", d>>
    /\ status # "Allowed" => <<"RouteSetTest", d, ls>> \in n.timers

LEMMA NotedKeeps ==
    ASSUME NEW s, NEW n, NEW E, Sound(s, E), NEW d \in Dest, NEW ls \in Linkset,
           RoutesThrough(d, ls) # {}, NEW status, Routed(s, n), NotedIn(s, n, d, ls, status),
           \A x \in n.holding : (x \in s.holding /\ x # d) \/ Runs(n, E, <<"Rerouting", x>>),
           TableOk(n)
    PROVE  Keeps(s, n, E)
<1> DEFINE r == FirstRouteThrough(d, ls)
<1>1. RoutesOk(s, E) /\ Shape(s)
    BY DEF Sound, Apart, RestOk
<1>2. Routes[d][r].via = ls /\ r \in Nat
    BY FirstRoute
<1>3. \A t \in s.timers : t \in n.timers \/ t[1] \in {"Rerouting", "RouteSetTest"}
    <2>1. <<"Rerouting", d>>[1] = "Rerouting" /\ <<"RouteSetTest", d, ls>>[1] = "RouteSetTest"
        OBVIOUS
    <2> QED BY <2>1 DEF NotedIn
<1>4. ASSUME NEW g \in n.guard PROVE Runs(n, E, <<"RestartAllowed", g>>)
    <2>1. <<"RestartAllowed", g>>[1] = "RestartAllowed"
        OBVIOUS
    <2> QED BY <1>1, <1>3, <2>1 DEF RoutesOk, Runs, Routed
<1>5. ASSUME NEW g \in n.guarded PROVE Runs(n, E, <<"Prohibited", g>>)
    <2>1. <<"Prohibited", g>>[1] = "Prohibited"
        OBVIOUS
    <2> QED BY <1>1, <1>3, <2>1 DEF RoutesOk, Runs, Routed
<1>6. ASSUME NEW x \in n.holding PROVE Runs(n, E, <<"Rerouting", x>>)
    <2>1. CASE x \in s.holding /\ x # d
        <3>1. <<"Rerouting", x>>[1] = "Rerouting" /\ <<"Rerouting", x>>[2] = x
              /\ <<"Rerouting", d>>[2] = d /\ <<"RouteSetTest", d, ls>>[1] = "RouteSetTest"
            OBVIOUS
        <3>2. <<"Rerouting", x>> # <<"Rerouting", d>> /\ <<"Rerouting", x>> # <<"RouteSetTest", d, ls>>
            BY <2>1, <3>1
        <3> QED BY <1>1, <2>1, <3>2 DEF RoutesOk, Runs, NotedIn
    <2> QED BY <2>1
<1>7. ASSUME NEW x \in n.status PROVE Runs(n, E, <<"RouteSetTest", x[1], Routes[x[1]][x[2]].via>>)
    <2> DEFINE via == Routes[x[1]][x[2]].via
    <2>1. CASE x \in s.status /\ (x[1] # d \/ x[2] # r)
        <3>1. x \in Statuses
            BY <1>1, <2>1 DEF Shape
        <3>2. x[2] = FirstRouteThrough(x[1], via)
            BY <3>1, StatusKnown
        <3>3. x[1] # d \/ via # ls
            BY <2>1, <3>2
        <3>4. Runs(s, E, <<"RouteSetTest", x[1], via>>)
            BY <1>1, <2>1 DEF RoutesOk
        <3> HIDE DEF via
        <3>5. <<"RouteSetTest", x[1], via>> # <<"RouteSetTest", d, ls>>
            BY <3>3
        <3>6. <<"RouteSetTest", x[1], via>> # <<"Rerouting", d>>
            <4>1. <<"RouteSetTest", x[1], via>>[1] = "RouteSetTest" /\ <<"Rerouting", d>>[1] = "Rerouting"
                OBVIOUS
            <4> QED BY <4>1
        <3>7. Runs(n, E, <<"RouteSetTest", x[1], via>>)
            BY <3>4, <3>5, <3>6 DEF Runs, NotedIn
        <3> QED BY <3>7 DEF via
    <2>2. CASE x = <<d, r, status>> /\ status # "Allowed"
        <3>1. x[1] = d /\ x[2] = r
            BY <2>2
        <3>2. via = ls
            BY <1>2, <3>1
        <3> QED BY <2>2, <3>1, <3>2 DEF NotedIn, Runs
    <2> QED BY <2>1, <2>2 DEF NotedIn
<1>8. RoutesOk(n, E)
    BY <1>4, <1>5, <1>6, <1>7 DEF RoutesOk
<1> QED BY <1>3, <1>8, RoutedKeeps

\* What was noted about the route of d through ls, by what the far end said.
Says(s, n, d, ls, status) ==
    \A x \in Dest, y \in Linkset : RoutesThrough(x, y) # {} =>
        (<<x, FirstRouteThrough(x, y), "Prohibited">> \in n.status <=>
            IF x = d /\ y = ls THEN status = "Prohibited"
            ELSE <<x, FirstRouteThrough(x, y), "Prohibited">> \in s.status)

LEMMA NotedSays ==
    ASSUME NEW s, NEW n, NEW d \in Dest, NEW ls \in Linkset, RoutesThrough(d, ls) # {},
           NEW status \in RouteStatus, NotedIn(s, n, d, ls, status)
    PROVE  Says(s, n, d, ls, status)
<1> SUFFICES ASSUME NEW x \in Dest, NEW y \in Linkset, RoutesThrough(x, y) # {}
             PROVE  <<x, FirstRouteThrough(x, y), "Prohibited">> \in n.status <=>
                        IF x = d /\ y = ls THEN status = "Prohibited"
                        ELSE <<x, FirstRouteThrough(x, y), "Prohibited">> \in s.status
    BY DEF Says
<1> DEFINE r == FirstRouteThrough(d, ls)
           q == FirstRouteThrough(x, y)
<1>1. x = d /\ q = r => y = ls
    <2>1. Routes[x][q].via = y /\ Routes[d][r].via = ls
        BY FirstRoute
    <2> HIDE DEF q, r
    <2> QED BY <2>1
<1>2. x = d /\ y = ls => q = r
    OBVIOUS
<1>3. <<x, q, "Prohibited">> \in n.status <=>
          \/ <<x, q, "Prohibited">> \in s.status /\ (x # d \/ q # r)
          \/ <<x, q, "Prohibited">> = <<d, r, status>> /\ status # "Allowed"
    BY DEF NotedIn
<1> HIDE DEF q, r
<1>4. <<x, q, "Prohibited">> \in n.status <=>
          \/ <<x, q, "Prohibited">> \in s.status /\ (x # d \/ q # r)
          \/ x = d /\ q = r /\ status = "Prohibited"
    BY <1>3
<1> QED BY <1>1, <1>2, <1>4 DEF q

\* The route is prohibited: at once, and so are all marks that waited for T6.
LEMMA ForcedTable ==
    ASSUME NEW s, NEW n, Shape(s), TableOk(s), NEW d \in Dest, NEW ls \in Linkset,
           RoutesThrough(d, ls) # {}, Says(s, n, d, ls, "Prohibited"),
           n.deferred = {k \in s.deferred : k[1] # d},
           s.holding \ {d} \subseteq n.holding,
           \A k : k \in n.mark <=>
               \/ /\ \/ k \in s.mark /\ (k[1] # d \/ \A j \in s.deferred : j[1] = d => j[2] # k[2])
                     \/ k \in s.deferred /\ k[1] = d /\ k[3] # "Allowed"
                  /\ k[1] # d \/ k[2] # ls
               \/ k = <<d, ls, "Prohibited">>
    PROVE  TableOk(n)
<1>1. ASSUME NEW x \in Dest, NEW y \in Linkset, RoutesThrough(x, y) # {}
      PROVE  LET r == FirstRouteThrough(x, y) IN
             /\ <<x, r, "Prohibited">> \in n.status => <<x, y, "Prohibited">> \in n.mark
             /\ <<x, y, "Prohibited">> \in n.mark =>
                    \/ <<x, r, "Prohibited">> \in n.status
                    \/ \E k \in n.deferred : k[1] = x /\ k[2] = y
    <2> DEFINE r == FirstRouteThrough(x, y)
    <2>1. /\ <<x, r, "Prohibited">> \in s.status => <<x, y, "Prohibited">> \in s.mark
          /\ <<x, y, "Prohibited">> \in s.mark =>
                 \/ <<x, r, "Prohibited">> \in s.status
                 \/ \E k \in s.deferred : k[1] = x /\ k[2] = y
        BY <1>1 DEF TableOk
    <2>2. <<x, r, "Prohibited">> \in n.status <=>
              \/ x = d /\ y = ls
              \/ <<x, r, "Prohibited">> \in s.status /\ ~ (x = d /\ y = ls)
        BY <1>1 DEF Says
    <2>3. \A k \in s.deferred : /\ k[1] = x /\ k[2] = y => <<x, r, "Prohibited">> \notin s.status
                                /\ k[3] # "Prohibited"
        BY DEF TableOk
    <2> DEFINE p == <<x, y, "Prohibited">>
    <2>4. p[1] = x /\ p[2] = y /\ p[3] = "Prohibited" /\ (p = <<d, ls, "Prohibited">> <=> x = d /\ y = ls)
        OBVIOUS
    <2>5. p \in n.mark <=>
               \/ /\ \/ p \in s.mark /\ (x # d \/ \A j \in s.deferred : j[1] = d => j[2] # y)
                     \/ p \in s.deferred /\ x = d
                  /\ x # d \/ y # ls
               \/ x = d /\ y = ls
        BY <2>4
    <2> HIDE DEF p, r
    <2>6. p \notin s.deferred
        BY <2>3, <2>4
    <2>7. CASE x = d /\ y = ls
        BY <2>2, <2>5, <2>7 DEF p, r
    <2>8. CASE x = d /\ y # ls
        BY <2>1, <2>2, <2>3, <2>5, <2>6, <2>8 DEF p, r
    <2>9. CASE x # d
        <3>1. p \in n.mark <=> p \in s.mark
            BY <2>5, <2>9
        <3>2. \A k \in s.deferred : k[1] = x => k \in n.deferred
            BY <2>9
        <3> QED BY <2>1, <2>2, <2>9, <3>1, <3>2 DEF p, r
    <2> QED BY <2>7, <2>8, <2>9
<1>2. ASSUME NEW k \in n.deferred
      PROVE  /\ k[1] \in n.holding /\ k[3] # "Prohibited"
             /\ k[2] \in Linkset /\ RoutesThrough(k[1], k[2]) # {}
             /\ <<k[1], FirstRouteThrough(k[1], k[2]), "Prohibited">> \notin n.status
    <2>1. k \in s.deferred /\ k[1] # d
        BY <1>2
    <2>2. /\ k[1] \in s.holding /\ k[3] # "Prohibited"
          /\ k[2] \in Linkset /\ RoutesThrough(k[1], k[2]) # {}
          /\ <<k[1], FirstRouteThrough(k[1], k[2]), "Prohibited">> \notin s.status
        BY <2>1 DEF TableOk
    <2>3. k[1] \in Dest
        BY <2>2 DEF Shape
    <2> QED BY <2>1, <2>2, <2>3 DEF Says
<1> QED BY <1>1, <1>2 DEF TableOk

\* The route is not prohibited, and its mark waits for T6.
LEMMA DeferredTable ==
    ASSUME NEW s, NEW n, Shape(s), TableOk(s), NEW d \in Dest, NEW ls \in Linkset,
           RoutesThrough(d, ls) # {}, NEW status \in RouteStatus, status # "Prohibited",
           Says(s, n, d, ls, status),
           \A k : k \in n.deferred <=> \/ k \in s.deferred /\ (k[1] # d \/ k[2] # ls)
                                       \/ k = <<d, ls, status>>,
           s.holding \cup {d} \subseteq n.holding,
           n.mark = s.mark
    PROVE  TableOk(n)
<1> DEFINE new == <<d, ls, status>>
<1>0. new \in n.deferred /\ new[1] = d /\ new[2] = ls /\ new[3] = status
    OBVIOUS
<1>1. ASSUME NEW x \in Dest, NEW y \in Linkset, RoutesThrough(x, y) # {}
      PROVE  LET r == FirstRouteThrough(x, y) IN
             /\ <<x, r, "Prohibited">> \in n.status => <<x, y, "Prohibited">> \in n.mark
             /\ <<x, y, "Prohibited">> \in n.mark =>
                    \/ <<x, r, "Prohibited">> \in n.status
                    \/ \E k \in n.deferred : k[1] = x /\ k[2] = y
    <2> DEFINE r == FirstRouteThrough(x, y)
    <2>1. /\ <<x, r, "Prohibited">> \in s.status => <<x, y, "Prohibited">> \in s.mark
          /\ <<x, y, "Prohibited">> \in s.mark =>
                 \/ <<x, r, "Prohibited">> \in s.status
                 \/ \E k \in s.deferred : k[1] = x /\ k[2] = y
        BY <1>1 DEF TableOk
    <2>2. <<x, r, "Prohibited">> \in n.status <=>
              <<x, r, "Prohibited">> \in s.status /\ ~ (x = d /\ y = ls)
        BY <1>1 DEF Says
    <2> HIDE DEF r, new
    <2>3. CASE x = d /\ y = ls
        BY <1>0, <2>2, <2>3 DEF r
    <2>4. CASE ~ (x = d /\ y = ls)
        <3>1. \A k \in s.deferred : k[1] = x /\ k[2] = y => k \in n.deferred
            BY <2>4
        <3> QED BY <2>1, <2>2, <2>4, <3>1 DEF r
    <2> QED BY <2>3, <2>4
<1>2. ASSUME NEW k \in n.deferred
      PROVE  /\ k[1] \in n.holding /\ k[3] # "Prohibited"
             /\ k[2] \in Linkset /\ RoutesThrough(k[1], k[2]) # {}
             /\ <<k[1], FirstRouteThrough(k[1], k[2]), "Prohibited">> \notin n.status
    <2>1. CASE k \in s.deferred /\ (k[1] # d \/ k[2] # ls)
        <3>1. /\ k[1] \in s.holding /\ k[3] # "Prohibited"
              /\ k[2] \in Linkset /\ RoutesThrough(k[1], k[2]) # {}
              /\ <<k[1], FirstRouteThrough(k[1], k[2]), "Prohibited">> \notin s.status
            BY <2>1 DEF TableOk
        <3>2. k[1] \in Dest
            BY <3>1 DEF Shape
        <3> QED BY <2>1, <3>1, <3>2 DEF Says
    <2>2. CASE k = new
        BY <1>0, <2>2 DEF Says
    <2> QED BY <1>2, <2>1, <2>2
<1> QED BY <1>1, <1>2 DEF TableOk

\* The route is not prohibited, and its mark waits for nothing.
LEMMA MarkedTable ==
    ASSUME NEW s, NEW n, Shape(s), TableOk(s), NEW d \in Dest, NEW ls \in Linkset,
           RoutesThrough(d, ls) # {}, NEW status \in RouteStatus, status # "Prohibited",
           Says(s, n, d, ls, status),
           d \notin s.holding, n.deferred = s.deferred, n.holding = s.holding,
           \A k : k \in n.mark <=> \/ k \in s.mark /\ (k[1] # d \/ k[2] # ls)
                                   \/ k = <<d, ls, status>> /\ status # "Allowed"
    PROVE  TableOk(n)
<1>1. ASSUME NEW x \in Dest, NEW y \in Linkset, RoutesThrough(x, y) # {}
      PROVE  LET r == FirstRouteThrough(x, y) IN
             /\ <<x, r, "Prohibited">> \in n.status => <<x, y, "Prohibited">> \in n.mark
             /\ <<x, y, "Prohibited">> \in n.mark =>
                    \/ <<x, r, "Prohibited">> \in n.status
                    \/ \E k \in n.deferred : k[1] = x /\ k[2] = y
    <2> DEFINE r == FirstRouteThrough(x, y)
               p == <<x, y, "Prohibited">>
    <2>1. /\ <<x, r, "Prohibited">> \in s.status => p \in s.mark
          /\ p \in s.mark =>
                 \/ <<x, r, "Prohibited">> \in s.status
                 \/ \E k \in s.deferred : k[1] = x /\ k[2] = y
        BY <1>1 DEF TableOk
    <2>2. <<x, r, "Prohibited">> \in n.status <=>
              <<x, r, "Prohibited">> \in s.status /\ ~ (x = d /\ y = ls)
        BY <1>1 DEF Says
    <2>3. p[1] = x /\ p[2] = y /\ p # <<d, ls, status>>
        OBVIOUS
    <2> HIDE DEF r, p
    <2>4. p \in n.mark <=> p \in s.mark /\ ~ (x = d /\ y = ls)
        BY <2>3
    <2> QED BY <2>1, <2>2, <2>4 DEF r, p
<1>2. ASSUME NEW k \in n.deferred
      PROVE  /\ k[1] \in n.holding /\ k[3] # "Prohibited"
             /\ k[2] \in Linkset /\ RoutesThrough(k[1], k[2]) # {}
             /\ <<k[1], FirstRouteThrough(k[1], k[2]), "Prohibited">> \notin n.status
    <2>1. /\ k[1] \in s.holding /\ k[3] # "Prohibited"
          /\ k[2] \in Linkset /\ RoutesThrough(k[1], k[2]) # {}
          /\ <<k[1], FirstRouteThrough(k[1], k[2]), "Prohibited">> \notin s.status
        BY <1>2 DEF TableOk
    <2>2. k[1] \in Dest /\ k[1] # d
        BY <2>1 DEF Shape
    <2> QED BY <2>1, <2>2 DEF Says
<1> QED BY <1>1, <1>2 DEF TableOk

\* T6 is over, and all marks that waited for it.
LEMMA ReleasedTable ==
    ASSUME NEW s, NEW n, Shape(s), TableOk(s), NEW d,
           n.status = s.status,
           n.deferred = {k \in s.deferred : k[1] # d},
           s.holding \ {d} \subseteq n.holding,
           \A k : k \in n.mark <=>
               \/ k \in s.mark /\ (k[1] # d \/ \A j \in s.deferred : j[1] = d => j[2] # k[2])
               \/ k \in s.deferred /\ k[1] = d /\ k[3] # "Allowed"
    PROVE  TableOk(n)
<1>1. ASSUME NEW x \in Dest, NEW y \in Linkset, RoutesThrough(x, y) # {}
      PROVE  LET r == FirstRouteThrough(x, y) IN
             /\ <<x, r, "Prohibited">> \in n.status => <<x, y, "Prohibited">> \in n.mark
             /\ <<x, y, "Prohibited">> \in n.mark =>
                    \/ <<x, r, "Prohibited">> \in n.status
                    \/ \E k \in n.deferred : k[1] = x /\ k[2] = y
    <2> DEFINE r == FirstRouteThrough(x, y)
               p == <<x, y, "Prohibited">>
    <2>1. /\ <<x, r, "Prohibited">> \in s.status => p \in s.mark
          /\ p \in s.mark =>
                 \/ <<x, r, "Prohibited">> \in s.status
                 \/ \E k \in s.deferred : k[1] = x /\ k[2] = y
        BY <1>1 DEF TableOk
    <2>3. \A k \in s.deferred : /\ k[1] = x /\ k[2] = y => <<x, r, "Prohibited">> \notin s.status
                                /\ k[3] # "Prohibited"
        BY DEF TableOk
    <2>4. p[1] = x /\ p[2] = y /\ p[3] = "Prohibited"
        OBVIOUS
    <2> HIDE DEF p, r
    <2>5. p \notin s.deferred
        BY <2>3, <2>4
    <2>6. p \in n.mark <=> p \in s.mark /\ (x # d \/ \A j \in s.deferred : j[1] = d => j[2] # y)
        BY <2>4, <2>5
    <2>7. CASE x = d
        BY <2>1, <2>3, <2>6, <2>7 DEF p, r
    <2>8. CASE x # d
        <3>1. \A k \in s.deferred : k[1] = x => k \in n.deferred
            BY <2>8
        <3> QED BY <2>1, <2>6, <2>8, <3>1 DEF p, r
    <2> QED BY <2>7, <2>8
<1>2. ASSUME NEW k \in n.deferred
      PROVE  /\ k[1] \in n.holding /\ k[3] # "Prohibited"
             /\ k[2] \in Linkset /\ RoutesThrough(k[1], k[2]) # {}
             /\ <<k[1], FirstRouteThrough(k[1], k[2]), "Prohibited">> \notin n.status
    BY <1>2 DEF TableOk
<1> QED BY <1>1, <1>2 DEF TableOk

LEMMA MarkRouteKeeps ==
    ASSUME NEW s, NEW E, Sound(s, E), NEW d \in Dest, NEW ls \in Linkset,
           RoutesThrough(d, ls) # {}, NEW status \in RouteStatus
    PROVE  Keeps(s, MarkRoute(s, ls, d, status), E)
<1> DEFINE r == FirstRouteThrough(d, ls)
           noted == SetStatus(s, d, r, status)
           tested == IF status = "Allowed" THEN Stop(noted, <<"RouteSetTest", d, ls>>)
                     ELSE Start(noted, <<"RouteSetTest", d, ls>>)
           deferred == Defer(tested, d, ls, status)
           applied == ApplyDeferred(tested, d)
           one == {<<d, ls, status>>}
           forced == SetMarks(applied, d, one)
           released == Release(forced, d)
           held == HoldDestination(deferred, d)
           marked == SetMarks(tested, d, one)
           n == MarkRoute(s, ls, d, status)
<1>0. Shape(s) /\ TableOk(s) /\ RoutesOk(s, E)
    BY DEF Sound, Apart, RestOk, RoutesOk
<1>1. n = IF status = "Prohibited" THEN (IF d \in s.holding THEN released ELSE forced)
          ELSE IF d \in s.holding THEN deferred
          ELSE IF Moves(InUse(s, d), InUse(noted, d)) THEN held
          ELSE marked
    BY DEF MarkRoute
<1> HIDE DEF n
<1>2. /\ Routed(s, noted)
      /\ noted.mark = s.mark /\ noted.deferred = s.deferred /\ noted.holding = s.holding
      /\ noted.timers = s.timers
      /\ \A x : x \in noted.status <=> \/ x \in s.status /\ (x[1] # d \/ x[2] # r)
                                       \/ x = <<d, r, status>> /\ status # "Allowed"
    BY <1>0, SetStatusDoes
<1> HIDE DEF noted
<1>3. Shape(noted)
    BY <1>2 DEF Routed
<1>4. /\ Routed(noted, tested)
      /\ tested.status = noted.status /\ tested.mark = noted.mark
      /\ tested.deferred = noted.deferred /\ tested.holding = noted.holding
      /\ tested.timers = IF status = "Allowed" THEN noted.timers \ {<<"RouteSetTest", d, ls>>}
                         ELSE noted.timers \cup {<<"RouteSetTest", d, ls>>}
    <2>1. CASE status = "Allowed"
        <3>1. tested = Stop(noted, <<"RouteSetTest", d, ls>>)
            BY <2>1
        <3> QED BY <1>3, <2>1, <3>1, RouteTimerDoes
    <2>2. CASE status # "Allowed"
        <3>1. tested = Start(noted, <<"RouteSetTest", d, ls>>)
            BY <2>2
        <3> QED BY <1>3, <2>2, <3>1, RouteTimerDoes
    <2> QED BY <2>1, <2>2
<1> HIDE DEF tested
<1>5. Routed(s, tested) /\ Shape(tested)
    BY <1>2, <1>4, RoutedOn DEF Routed
<1>6. ASSUME NEW o, o.status = tested.status,
             \A t \in tested.timers : t \in o.timers \/ t = <<"Rerouting", d>>
      PROVE  NotedIn(s, o, d, ls, status) /\ Says(s, o, d, ls, status)
    <2>1. <<"RouteSetTest", d, ls>> # <<"Rerouting", d>>
        <3>1. <<"RouteSetTest", d, ls>>[1] # <<"Rerouting", d>>[1]
            OBVIOUS
        <3> QED BY <3>1
    <2> DEFINE x == <<"RouteSetTest", d, ls>>
               y == <<"Rerouting", d>>
    <2> HIDE DEF x, y
    <2>2. /\ \A t \in s.timers : \/ t \in o.timers
                                 \/ t = x /\ status = "Allowed"
                                 \/ t = y
          /\ status # "Allowed" => x \in o.timers
        BY <1>2, <1>4, <1>6, <2>1 DEF x, y
    <2>3. NotedIn(s, o, d, ls, status)
        BY <1>2, <1>4, <1>6, <2>2 DEF NotedIn, x, y
    <2> QED BY <2>3, NotedSays
<1>7. /\ Routed(tested, deferred) /\ deferred.status = tested.status
      /\ deferred.mark = tested.mark /\ deferred.holding = tested.holding
      /\ deferred.timers = tested.timers
      /\ \A k : k \in deferred.deferred <=> \/ k \in tested.deferred /\ (k[1] # d \/ k[2] # ls)
                                            \/ k = <<d, ls, status>>
    BY <1>5, DeferDoes
<1>14. one = {<<d, ls, status>>} /\ <<d, ls, status>>[2] = ls /\ <<d, ls, status>>[3] = status
    OBVIOUS
<1> HIDE DEF one
<1>8. /\ Routed(tested, marked) /\ marked.status = tested.status
      /\ marked.deferred = tested.deferred /\ marked.holding = tested.holding
      /\ marked.timers = tested.timers
      /\ \A k : k \in marked.mark <=> \/ k \in tested.mark /\ (k[1] # d \/ \A j \in one : j[2] # k[2])
                                      \/ k \in one /\ k[3] # "Allowed"
    BY <1>5, SetMarksDoes
<1>9. LET marks == {k \in tested.deferred : k[1] = d} IN
      /\ Routed(tested, applied) /\ applied.status = tested.status
      /\ applied.holding = tested.holding /\ applied.timers = tested.timers
      /\ applied.deferred = tested.deferred \ marks
      /\ \A k : k \in applied.mark <=> \/ k \in tested.mark /\ (k[1] # d \/ \A j \in marks : j[2] # k[2])
                                       \/ k \in marks /\ k[3] # "Allowed"
    BY <1>5, ApplyDeferredDoes
<1> HIDE DEF deferred, marked, applied
<1>10. Shape(deferred) /\ Shape(marked) /\ Shape(applied)
    BY <1>7, <1>8, <1>9 DEF Routed
<1>11. /\ Routed(applied, forced) /\ forced.status = applied.status
       /\ forced.deferred = applied.deferred /\ forced.holding = applied.holding
       /\ forced.timers = applied.timers
       /\ \A k : k \in forced.mark <=> \/ k \in applied.mark /\ (k[1] # d \/ \A j \in one : j[2] # k[2])
                                       \/ k \in one /\ k[3] # "Allowed"
    BY <1>10, SetMarksDoes
<1>12. /\ Routed(deferred, held) /\ held.status = deferred.status
       /\ held.mark = deferred.mark /\ held.deferred = deferred.deferred
       /\ held.holding = deferred.holding \cup {d}
       /\ held.timers = deferred.timers \cup {<<"Rerouting", d>>}
    BY <1>10, HoldDestinationDoes
<1> HIDE DEF forced, held
<1>13. /\ Routed(forced, released) /\ released.status = forced.status
       /\ released.mark = forced.mark /\ released.deferred = forced.deferred
       /\ released.holding = forced.holding \ {d}
       /\ released.timers = forced.timers \ {<<"Rerouting", d>>}
    BY <1>11, ReleaseDoes DEF Routed
<1> HIDE DEF released
<1>15. ASSUME status = "Prohibited", NEW o \in {forced, released}, d \notin o.holding
       PROVE  Keeps(s, o, E)
    <2>1. /\ Routed(s, o) /\ o.status = tested.status
          /\ o.deferred = {k \in s.deferred : k[1] # d} /\ o.holding = s.holding \ {d}
          /\ o.mark = forced.mark
          /\ \A t \in tested.timers : t \in o.timers \/ t = <<"Rerouting", d>>
        <3>1. Routed(s, forced) /\ Routed(s, released)
            BY <1>5, <1>9, <1>11, <1>13, RoutedOn
        <3> QED BY <1>2, <1>4, <1>9, <1>11, <1>13, <1>15, <3>1
    <2>2. NotedIn(s, o, d, ls, status) /\ Says(s, o, d, ls, status)
        BY <1>6, <2>1
    <2>3. \A k : k \in o.mark <=>
               \/ /\ \/ k \in s.mark /\ (k[1] # d \/ \A j \in s.deferred : j[1] = d => j[2] # k[2])
                     \/ k \in s.deferred /\ k[1] = d /\ k[3] # "Allowed"
                  /\ k[1] # d \/ k[2] # ls
               \/ k = <<d, ls, "Prohibited">>
        BY <1>2, <1>4, <1>9, <1>11, <1>14, <1>15, <2>1
    <2>4. TableOk(o)
        BY <1>0, <1>15, <2>1, <2>2, <2>3, ForcedTable
    <2>5. \A x \in o.holding : x \in s.holding /\ x # d
        BY <2>1
    <2> QED BY <2>1, <2>2, <2>4, <2>5, NotedKeeps
<1>16. ASSUME status # "Prohibited", NEW o \in {deferred, held}, d \in o.holding,
              <<"Rerouting", d>> \in o.timers \cup E
       PROVE  Keeps(s, o, E)
    <2>1. /\ Routed(s, o) /\ o.status = tested.status
          /\ \A k : k \in o.deferred <=> \/ k \in s.deferred /\ (k[1] # d \/ k[2] # ls)
                                         \/ k = <<d, ls, status>>
          /\ o.holding = s.holding \cup {d} /\ o.mark = s.mark
          /\ tested.timers \subseteq o.timers
        <3>1. Routed(s, deferred) /\ Routed(s, held)
            BY <1>5, <1>7, <1>12, RoutedOn
        <3> QED BY <1>2, <1>4, <1>7, <1>12, <1>16, <3>1
    <2>2. NotedIn(s, o, d, ls, status) /\ Says(s, o, d, ls, status)
        BY <1>6, <2>1
    <2>3. TableOk(o)
        BY <1>0, <1>16, <2>1, <2>2, DeferredTable
    <2>4. \A x \in o.holding : (x \in s.holding /\ x # d) \/ Runs(o, E, <<"Rerouting", x>>)
        BY <1>16, <2>1 DEF Runs
    <2> QED BY <2>1, <2>2, <2>3, <2>4, NotedKeeps
<1>17. ASSUME status # "Prohibited", d \notin s.holding
       PROVE  Keeps(s, marked, E)
    <2>1. /\ Routed(s, marked) /\ marked.deferred = s.deferred /\ marked.holding = s.holding
          /\ \A k : k \in marked.mark <=> \/ k \in s.mark /\ (k[1] # d \/ k[2] # ls)
                                          \/ k = <<d, ls, status>> /\ status # "Allowed"
        BY <1>2, <1>4, <1>5, <1>8, <1>14, RoutedOn
    <2>2. NotedIn(s, marked, d, ls, status) /\ Says(s, marked, d, ls, status)
        BY <1>6, <1>8
    <2>3. TableOk(marked)
        BY <1>0, <1>17, <2>1, <2>2, MarkedTable
    <2>4. \A x \in marked.holding : x \in s.holding /\ x # d
        BY <1>17, <2>1
    <2> QED BY <2>1, <2>2, <2>3, <2>4, NotedKeeps
<1>18. CASE status = "Prohibited"
    <2>1. n \in {forced, released} /\ d \notin n.holding
        BY <1>1, <1>2, <1>4, <1>9, <1>11, <1>13, <1>18
    <2> QED BY <1>15, <1>18, <2>1 DEF n
<1>19. CASE status # "Prohibited" /\ d \in s.holding
    <2>1. <<"Rerouting", d>> \in deferred.timers \cup E
        <3>1. <<"Rerouting", d>> \in s.timers \cup E
            BY <1>0, <1>19 DEF RoutesOk, Runs
        <3>2. <<"RouteSetTest", d, ls>> # <<"Rerouting", d>>
            <4>1. <<"RouteSetTest", d, ls>>[1] # <<"Rerouting", d>>[1]
                OBVIOUS
            <4> QED BY <4>1
        <3> QED BY <1>2, <1>4, <1>7, <3>1, <3>2
    <2>2. d \in deferred.holding
        BY <1>2, <1>4, <1>7, <1>19
    <2> QED BY <1>1, <1>16, <1>19, <2>1, <2>2 DEF n
<1>20. CASE status # "Prohibited" /\ d \notin s.holding
    <2>1. Keeps(s, held, E)
        BY <1>12, <1>16, <1>20
    <2> QED BY <1>1, <1>17, <1>20, <2>1 DEF n
<1> QED BY <1>18, <1>19, <1>20

LEMMA RouteMessageKeeps ==
    ASSUME NEW s, NEW E, Sound(s, E), NEW d, NEW ls \in Linkset, NEW status \in RouteStatus
    PROVE  Keeps(s, RouteMessage(s, ls, d, status), E)
BY KeepsItself, MarkRouteKeeps DEF RouteMessage

\* The timers of the routes.
LEMMA ReroutingTimeoutKeeps ==
    ASSUME NEW s, NEW E, NEW d \in Dest, Sound(s, E \cup {<<"Rerouting", d>>})
    PROVE  Keeps(s, ReroutingTimeout(s, d), E)
<1> DEFINE F == E \cup {<<"Rerouting", d>>}
           a == ApplyDeferred(s, d)
           o == Release(a, d)
<1>0. Shape(s) /\ TableOk(s) /\ RoutesOk(s, F)
    BY DEF Sound, Apart, RestOk, RoutesOk
<1>1. LET marks == {k \in s.deferred : k[1] = d} IN
      /\ Routed(s, a) /\ a.status = s.status
      /\ a.holding = s.holding /\ a.timers = s.timers
      /\ a.deferred = s.deferred \ marks
      /\ \A k : k \in a.mark <=> \/ k \in s.mark /\ (k[1] # d \/ \A j \in marks : j[2] # k[2])
                                 \/ k \in marks /\ k[3] # "Allowed"
    BY <1>0, ApplyDeferredDoes
<1> HIDE DEF a
<1>2. /\ Routed(a, o) /\ o.status = a.status
      /\ o.mark = a.mark /\ o.deferred = a.deferred
      /\ o.holding = a.holding \ {d}
      /\ o.timers = a.timers \ {<<"Rerouting", d>>}
    BY <1>1, ReleaseDoes DEF Routed
<1>3. ReroutingTimeout(s, d) = IF d \in s.holding THEN o ELSE s
    BY DEF ReroutingTimeout, a
<1> HIDE DEF o
<1>4. /\ Routed(s, o) /\ o.status = s.status
      /\ o.deferred = {k \in s.deferred : k[1] # d} /\ o.holding = s.holding \ {d}
      /\ o.timers = s.timers \ {<<"Rerouting", d>>}
      /\ \A k : k \in o.mark <=>
             \/ k \in s.mark /\ (k[1] # d \/ \A j \in s.deferred : j[1] = d => j[2] # k[2])
             \/ k \in s.deferred /\ k[1] = d /\ k[3] # "Allowed"
    BY <1>1, <1>2, RoutedOn
<1>5. TableOk(o)
    BY <1>0, <1>4, ReleasedTable
<1>6. \A x : x # d => <<"Rerouting", x>> # <<"Rerouting", d>>
    OBVIOUS
<1>7. <<"Rerouting", d>>[1] = "Rerouting"
    OBVIOUS
<1>8. /\ \A x : <<"Prohibited", x>> # <<"Rerouting", d>> /\ <<"RestartAllowed", x>> # <<"Rerouting", d>>
      /\ \A x, y : <<"RouteSetTest", x, y>> # <<"Rerouting", d>>
    <2>1. /\ \A x : <<"Prohibited", x>>[1] = "Prohibited" /\ <<"RestartAllowed", x>>[1] = "RestartAllowed"
          /\ \A x, y : <<"RouteSetTest", x, y>>[1] = "RouteSetTest"
        OBVIOUS
    <2> QED BY <1>7, <2>1
<1> DEFINE t == <<"Rerouting", d>>
<1> HIDE DEF t
<1>9. ASSUME NEW n \in {s, o}, n.holding = s.holding \ {d}
      PROVE  Keeps(s, n, E)
    <2>1. Routed(s, n) /\ n.status = s.status /\ TableOk(n) /\ s.timers \ {t} \subseteq n.timers
        BY <1>0, <1>4, <1>5 DEF Routed, t
    <2>2. RoutesOk(n, E)
        <3>1. \A g \in n.guard : Runs(n, E, <<"RestartAllowed", g>>)
            BY <1>0, <1>8, <2>1 DEF RoutesOk, Runs, Routed, t
        <3>2. \A g \in n.guarded : Runs(n, E, <<"Prohibited", g>>)
            BY <1>0, <1>8, <2>1 DEF RoutesOk, Runs, Routed, t
        <3>3. \A x \in n.holding : Runs(n, E, <<"Rerouting", x>>)
            BY <1>0, <1>6, <1>9, <2>1 DEF RoutesOk, Runs, t
        <3>4. \A x \in n.status : Runs(n, E, <<"RouteSetTest", x[1], Routes[x[1]][x[2]].via>>)
            BY <1>0, <1>8, <2>1 DEF RoutesOk, Runs, t
        <3> QED BY <2>1, <3>1, <3>2, <3>3, <3>4 DEF RoutesOk
    <2>3. /\ \A x \in F : x \in E \/ x[1] \in {"Rerouting", "RouteSetTest"}
          /\ \A x \in s.timers : x \in n.timers \/ x[1] \in {"Rerouting", "RouteSetTest"}
        BY <1>7, <2>1 DEF t
    <2> HIDE DEF F
    <2>4. Sound(s, F)
        BY DEF F
    <2> QED BY <2>1, <2>2, <2>3, <2>4, RoutedKeeps
<1>10. CASE d \in s.holding
    BY <1>3, <1>4, <1>9, <1>10
<1>11. CASE d \notin s.holding
    BY <1>3, <1>9, <1>11
<1> QED BY <1>10, <1>11

LEMMA RouteSetTestTimeoutKeeps ==
    ASSUME NEW s, NEW E, NEW d \in Dest, NEW ls \in Linkset,
           Sound(s, E \cup {<<"RouteSetTest", d, ls>>})
    PROVE  Keeps(s, RouteSetTestTimeout(s, d, ls), E)
<1> DEFINE t == <<"RouteSetTest", d, ls>>
           F == E \cup {t}
           r == FirstRouteThrough(d, ls)
           test == AboutDest(d, IF StatusOf(s, d, r) = "Prohibited" THEN "RST" ELSE "RSR")
           asked == IF ~s.restarting /\ CanTell(s, ls) THEN Tell(s, ls, test) ELSE s
           o == Start(asked, t)
<1>0. Shape(s) /\ RoutesOk(s, F)
    BY DEF Sound, Apart, RestOk
<1>1. RouteSetTestTimeout(s, d, ls) = IF StatusOf(s, d, r) = "Allowed" THEN s ELSE o
    BY DEF RouteSetTestTimeout
<1>2. t \in Timers /\ t[1] = "RouteSetTest"
    BY DEF Timers
<1>3. \A x : <<"Prohibited", x>> # t /\ <<"RestartAllowed", x>> # t /\ <<"Rerouting", x>> # t
    <2>1. \A x : /\ <<"Prohibited", x>>[1] = "Prohibited" /\ <<"RestartAllowed", x>>[1] = "RestartAllowed"
                 /\ <<"Rerouting", x>>[1] = "Rerouting"
        OBVIOUS
    <2> HIDE DEF t
    <2> QED BY <1>2, <2>1
<1>4. \A x, y : <<"RouteSetTest", x, y>> = t <=> x = d /\ y = ls
    OBVIOUS
<1> HIDE DEF t
<1>5. Still(s, asked)
    <2> HIDE DEF test
    <2> QED BY <1>0, TellStill, StillItself
<1> HIDE DEF asked
<1>6. Still(s, o) /\ t \in o.timers
    <2>1. Still(asked, o) /\ t \in o.timers
        BY <1>2, <1>5, StartStill DEF Still
    <2> QED BY <1>5, <2>1, StillOn
<1> HIDE DEF o
<1>7. ASSUME NEW n, Still(s, n), t \in n.timers PROVE Keeps(s, n, E)
    <2>1. Keeps(s, n, F)
        BY <1>7, StillKeeps DEF t
    <2>2. F \cup n.timers = E \cup n.timers
        BY <1>7
    <2>3. \A x : Runs(n, F, x) <=> Runs(n, E, x)
        BY <2>2 DEF Runs
    <2>4. Sound(n, F)
        BY <2>1 DEF Keeps
    <2> HIDE DEF F
    <2>5. /\ RestOk(n, F) /\ Shape(n)
          /\ \A l \in Link : Base(n, F, l) /\ Phased(n, F, l)
        BY <2>4 DEF Sound, Apart
    <2>6. RoutesOk(n, E) /\ RestartsOk(n, E)
        BY <2>3, <2>5 DEF RestOk, RoutesOk, RestartsOk
    <2>7. ASSUME NEW l \in Link PROVE Base(n, E, l) /\ Phased(n, E, l)
        BY <2>3, <2>5 DEF Base, Phased
    <2> QED BY <2>1, <2>5, <2>6, <2>7 DEF Keeps, Sound, Apart, RestOk
<1>8. CASE StatusOf(s, d, r) # "Allowed"
    BY <1>1, <1>6, <1>7, <1>8
<1>9. CASE StatusOf(s, d, r) = "Allowed"
    <2>1. \A x \in s.status : <<"RouteSetTest", x[1], Routes[x[1]][x[2]].via>> # t
        <3> SUFFICES ASSUME NEW x \in s.status, x[1] = d, Routes[x[1]][x[2]].via = ls PROVE FALSE
            BY <1>4
        <3>1. x \in Statuses
            BY <1>0 DEF Shape
        <3>2. x = <<d, r, x[3]>> /\ x[3] \in {"Restricted", "Prohibited"}
            BY <3>1, StatusKnown
        <3> HIDE DEF r
        <3> QED BY <1>9, <3>2 DEF StatusOf
    <2>2. RoutesOk(s, E)
        <3>1. \A g \in s.guard : Runs(s, E, <<"RestartAllowed", g>>)
            BY <1>0, <1>3 DEF RoutesOk, Runs
        <3>2. \A g \in s.guarded : Runs(s, E, <<"Prohibited", g>>)
            BY <1>0, <1>3 DEF RoutesOk, Runs
        <3>3. \A x \in s.holding : Runs(s, E, <<"Rerouting", x>>)
            BY <1>0, <1>3 DEF RoutesOk, Runs
        <3>4. \A x \in s.status : Runs(s, E, <<"RouteSetTest", x[1], Routes[x[1]][x[2]].via>>)
            BY <1>0, <2>1 DEF RoutesOk, Runs
        <3> QED BY <1>0, <3>1, <3>2, <3>3, <3>4 DEF RoutesOk
    <2>3. \A x \in F : x \in E \/ x[1] \in {"Rerouting", "RouteSetTest"}
        BY <1>2
    <2>4. Sound(s, F) /\ Routed(s, s)
        BY <1>0 DEF t, Routed
    <2> HIDE DEF F
    <2>5. Keeps(s, s, E)
        BY <2>2, <2>3, <2>4, RoutedKeeps
    <2> QED BY <1>1, <1>9, <2>5
<1> QED BY <1>8, <1>9

----------------------------------------------------------------------------
(* Guards, and the timers that only end them.                              *)

\* Nothing changes but the guards and whether a restart is due.
Guarded(s, n) ==
    /\ Shape(n)
    /\ n.link = s.link /\ n.openLinks = s.openLinks /\ n.heldLinks = s.heldLinks
    /\ n.restartingSets = s.restartingSets /\ n.restarting = s.restarting
    /\ n.status = s.status /\ n.holding = s.holding /\ n.deferred = s.deferred /\ n.mark = s.mark
    /\ n.isolated = s.isolated
    /\ s.timers \subseteq n.timers

LEMMA GuardedSound ==
    ASSUME NEW s, NEW n, NEW E, NEW F, Sound(s, F), Guarded(s, n),
           \A t \in F : t \in E \/ t[1] \in {"Prohibited", "RestartAllowed", "Isolation"},
           \A g \in n.guard : Runs(n, E, <<"RestartAllowed", g>>),
           \A g \in n.guarded : Runs(n, E, <<"Prohibited", g>>)
    PROVE  Sound(n, E) /\ NoneInhibited(s, n)
<1>1. /\ RestOk(s, F) /\ Shape(n)
      /\ \A l \in Link : Base(s, F, l) /\ Phased(s, F, l)
    BY DEF Sound, Apart, Guarded
<1> DEFINE other == {"Prohibited", "RestartAllowed", "Isolation"}
<1>2. \A x, y : Runs(s, F, <<x, y>>) /\ x \notin other => Runs(n, E, <<x, y>>)
    <2>1. \A x, y : <<x, y>>[1] = x
        OBVIOUS
    <2> QED BY <2>1 DEF Runs, Guarded
<1>3. \A x : Runs(s, F, <<x>>) /\ x \notin other => Runs(n, E, <<x>>)
    <2>1. \A x : <<x>>[1] = x
        OBVIOUS
    <2> QED BY <2>1 DEF Runs, Guarded
<1>4. \A x, y, z : Runs(s, F, <<x, y, z>>) /\ x \notin other => Runs(n, E, <<x, y, z>>)
    <2>1. \A x, y, z : <<x, y, z>>[1] = x
        OBVIOUS
    <2> QED BY <2>1 DEF Runs, Guarded
<1>5. RestartsOk(n, E)
    BY <1>1, <1>2, <1>3 DEF RestOk, RestartsOk, Guarded
<1>6. \A d \in n.holding : Runs(n, E, <<"Rerouting", d>>)
    BY <1>1, <1>2 DEF RestOk, RoutesOk, Guarded
<1>7. \A x \in n.status : Runs(n, E, <<"RouteSetTest", x[1], Routes[x[1]][x[2]].via>>)
    BY <1>1, <1>4 DEF RestOk, RoutesOk, Guarded
<1>8. TableOk(n)
    BY <1>1 DEF RestOk, RoutesOk, TableOk, Guarded
<1>9. ASSUME NEW l \in Link PROVE Base(n, E, l)
    BY <1>1, <1>2 DEF Base, Guarded
<1>10. ASSUME NEW l \in Link PROVE Phased(n, E, l)
    BY <1>1, <1>2 DEF Phased, Guarded
<1> QED BY <1>1, <1>5, <1>6, <1>7, <1>8, <1>9, <1>10
        DEF Sound, Apart, RestOk, RoutesOk, NoneInhibited, Guarded

\* Timers that run out as well are not stopped by anything.
LEMMA SoundMore ==
    ASSUME NEW s, NEW E, NEW F, Sound(s, E), E \subseteq F
    PROVE  Sound(s, F)
<1>1. \A x : Runs(s, E, x) => Runs(s, F, x)
    BY DEF Runs
<1>2. /\ RestOk(s, E) /\ Shape(s)
      /\ \A l \in Link : Base(s, E, l) /\ Phased(s, E, l)
    BY DEF Sound, Apart
<1>3. RoutesOk(s, F) /\ RestartsOk(s, F)
    BY <1>1, <1>2 DEF RestOk, RoutesOk, RestartsOk
<1>4. ASSUME NEW l \in Link PROVE Base(s, F, l) /\ Phased(s, F, l)
    BY <1>1, <1>2 DEF Base, Phased
<1> QED BY <1>2, <1>3, <1>4 DEF Sound, Apart, RestOk

LEMMA ProhibitedTimeoutKeeps ==
    ASSUME NEW s, NEW E, NEW d \in Pc, Sound(s, E \cup {<<"Prohibited", d>>})
    PROVE  Keeps(s, [s EXCEPT !.guarded = @ \ {d}], E)
<1> DEFINE n == [s EXCEPT !.guarded = @ \ {d}]
           F == E \cup {<<"Prohibited", d>>}
<1>1. Shape(s) /\ RoutesOk(s, F)
    BY DEF Sound, Apart, RestOk
<1>2. /\ Guarded(s, n) /\ n.guard = s.guard /\ n.guarded = s.guarded \ {d}
      /\ n.timers = s.timers /\ n.restartDue = s.restartDue
    BY <1>1 DEF Guarded, Shape, Fields
<1> HIDE DEF n
<1>3. \A g : g # d => <<"Prohibited", g>> # <<"Prohibited", d>>
    OBVIOUS
<1>4. \A g : <<"RestartAllowed", g>> # <<"Prohibited", d>>
    OBVIOUS
<1>5. /\ \A g \in n.guard : Runs(n, E, <<"RestartAllowed", g>>)
      /\ \A g \in n.guarded : Runs(n, E, <<"Prohibited", g>>)
    BY <1>1, <1>2, <1>3, <1>4 DEF RoutesOk, Runs
<1>6. \A t \in F : t \in E \/ t[1] \in {"Prohibited", "RestartAllowed", "Isolation"}
    OBVIOUS
<1> HIDE DEF F
<1>7. Sound(n, E) /\ NoneInhibited(s, n)
    BY <1>2, <1>5, <1>6, GuardedSound DEF F
<1> QED BY <1>2, <1>7 DEF Keeps, Guarded, n

LEMMA RestartAllowedTimeoutKeeps ==
    ASSUME NEW s, NEW E, NEW ls \in Linkset, Sound(s, E \cup {<<"RestartAllowed", ls>>})
    PROVE  Keeps(s, [s EXCEPT !.guard = @ \ {ls}], E)
<1> DEFINE n == [s EXCEPT !.guard = @ \ {ls}]
           F == E \cup {<<"RestartAllowed", ls>>}
<1>1. Shape(s) /\ RoutesOk(s, F)
    BY DEF Sound, Apart, RestOk
<1>2. /\ Guarded(s, n) /\ n.guard = s.guard \ {ls} /\ n.guarded = s.guarded
      /\ n.timers = s.timers /\ n.restartDue = s.restartDue
    BY <1>1 DEF Guarded, Shape, Fields
<1> HIDE DEF n
<1>3. \A g : g # ls => <<"RestartAllowed", g>> # <<"RestartAllowed", ls>>
    OBVIOUS
<1>4. \A g : <<"Prohibited", g>> # <<"RestartAllowed", ls>>
    OBVIOUS
<1>5. /\ \A g \in n.guard : Runs(n, E, <<"RestartAllowed", g>>)
      /\ \A g \in n.guarded : Runs(n, E, <<"Prohibited", g>>)
    BY <1>1, <1>2, <1>3, <1>4 DEF RoutesOk, Runs
<1>6. \A t \in F : t \in E \/ t[1] \in {"Prohibited", "RestartAllowed", "Isolation"}
    OBVIOUS
<1> HIDE DEF F
<1>7. Sound(n, E) /\ NoneInhibited(s, n)
    BY <1>2, <1>5, <1>6, GuardedSound DEF F
<1> QED BY <1>2, <1>7 DEF Keeps, Guarded, n

\* T20 of the node itself: a restart is due when it is isolated still.
LEMMA IsolationTimeoutSound ==
    ASSUME NEW s, NEW E, Sound(s, E \cup {<<"Isolation">>})
    PROVE  LET n == [s EXCEPT !.restartDue = @ \/ s.isolated] IN
           Sound(n, E) /\ NoneInhibited(s, n) /\ (n.isolated => n.restartDue)
<1> DEFINE b == s.restartDue \/ s.isolated
           n == [s EXCEPT !.restartDue = b]
           F == E \cup {<<"Isolation">>}
<1>1. Shape(s) /\ RoutesOk(s, F)
    BY DEF Sound, Apart, RestOk
<1>2. b \in BOOLEAN
    OBVIOUS
<1>3. [s EXCEPT !.restartDue = @ \/ s.isolated] = n
    OBVIOUS
<1>4. s.isolated => b
    OBVIOUS
<1> HIDE DEF b
<1>5. /\ Guarded(s, n) /\ n.guard = s.guard /\ n.guarded = s.guarded
      /\ n.timers = s.timers /\ n.restartDue = b
    BY <1>1, <1>2 DEF Guarded, Shape, Fields
<1> HIDE DEF n
<1>6. \A g : <<"RestartAllowed", g>> # <<"Isolation">> /\ <<"Prohibited", g>> # <<"Isolation">>
    <2>1. \A g : <<"RestartAllowed", g>>[1] = "RestartAllowed" /\ <<"Prohibited", g>>[1] = "Prohibited"
        OBVIOUS
    <2>2. <<"Isolation">>[1] = "Isolation"
        OBVIOUS
    <2> QED BY <2>1, <2>2
<1>7. /\ \A g \in n.guard : Runs(n, E, <<"RestartAllowed", g>>)
      /\ \A g \in n.guarded : Runs(n, E, <<"Prohibited", g>>)
    BY <1>1, <1>5, <1>6 DEF RoutesOk, Runs
<1>8. \A t \in F : t \in E \/ t[1] \in {"Prohibited", "RestartAllowed", "Isolation"}
    OBVIOUS
<1> HIDE DEF F
<1>9. Sound(n, E) /\ NoneInhibited(s, n)
    BY <1>5, <1>7, <1>8, GuardedSound DEF F
<1> QED BY <1>3, <1>4, <1>5, <1>9 DEF Guarded

----------------------------------------------------------------------------
(* MTP restart (clause 9).                                                 *)

\* Only the phase of the link is another.
PlacedAt(s, n, k, p) == n.link[k] = [s.link[k] EXCEPT !.phase = p]

LEMMA PlacedLocal ==
    ASSUME NEW s, Shape(s), NEW L \in SUBSET Link, NEW p \in Phase
    PROVE  LET n == Placed(s, L, p) IN
           /\ Local(s, n, L)
           /\ n.timers = s.timers /\ n.heldLinks = s.heldLinks /\ n.openLinks = s.openLinks
           /\ \A k \in L : PlacedAt(s, n, k, p)
<1> DEFINE links == [l \in Link |-> IF l \in L THEN [s.link[l] EXCEPT !.phase = p] ELSE s.link[l]]
           n == [s EXCEPT !.link = links]
<1>1. Placed(s, L, p) = n
    BY DEF Placed
<1>2. /\ \A k \in Link : /\ k \in L => links[k] = [s.link[k] EXCEPT !.phase = p]
                         /\ k \notin L => links[k] = s.link[k]
      /\ DOMAIN links = Link /\ links = [k \in Link |-> links[k]]
    OBVIOUS
<1> HIDE DEF links
<1>3. \A k \in Link : links[k] \in LinkStates
    <2> SUFFICES ASSUME NEW k \in Link PROVE links[k] \in LinkStates
        OBVIOUS
    <2>1. s.link[k] \in LinkStates
        BY LinkKnown
    <2>2. [s.link[k] EXCEPT !.phase = p] \in LinkStates
        BY <2>1 DEF LinkStates
    <2> QED BY <1>2, <2>1, <2>2
<1>4. links \in [Link -> LinkStates]
    BY <1>2, <1>3
<1>5. /\ Shape(n) /\ n.link = links
      /\ n.timers = s.timers /\ n.heldLinks = s.heldLinks /\ n.openLinks = s.openLinks
      /\ n.restartingSets = s.restartingSets /\ n.guard = s.guard
      /\ n.servers = s.servers /\ n.paused = s.paused /\ n.guarded = s.guarded
      /\ n.status = s.status /\ n.holding = s.holding /\ n.deferred = s.deferred /\ n.mark = s.mark
      /\ n.restarting = s.restarting /\ n.restartDue = s.restartDue /\ n.isolated = s.isolated
    BY <1>4 DEF Shape, Fields
<1> HIDE DEF n
<1>6. Local(s, n, L)
    BY <1>2, <1>5 DEF Local
<1>7. \A k \in L : PlacedAt(s, n, k, p)
    BY <1>2, <1>5 DEF PlacedAt
<1> QED BY <1>1, <1>5, <1>6, <1>7

\* Links that were placed keep all else.
LEMMA PlacedBase ==
    ASSUME NEW s, NEW n, NEW E, NEW k \in Link, NEW p \in Phase, Base(s, E, k), Shape(s),
           PlacedAt(s, n, k, p),
           \A x \in {"InhibitTest", "Uninhibit", "ForceUninhibit"} :
               Runs(s, E, <<x, k>>) => Runs(n, E, <<x, k>>)
    PROVE  /\ Base(n, E, k)
           /\ n.link[k].phase = p /\ n.link[k].up = s.link[k].up
           /\ n.link[k].remoteInhibited = s.link[k].remoteInhibited
<1>1. s.link[k] \in LinkStates
    BY LinkKnown
<1>2. /\ n.link[k].phase = p /\ n.link[k].up = s.link[k].up
      /\ n.link[k].remoteInhibited = s.link[k].remoteInhibited
      /\ n.link[k].ordered = s.link[k].ordered
      /\ n.link[k].uninhibitAttempts = s.link[k].uninhibitAttempts
      /\ n.link[k].forceAttempts = s.link[k].forceAttempts
    BY <1>1 DEF LinkStates, PlacedAt
<1> QED BY <1>2 DEF Base

LEMMA InviteKeeps ==
    ASSUME NEW s, NEW E, NEW there \in SUBSET Linkset, Sound(s, E)
    PROVE  Keeps(s, Invite(s, there), E) /\ Invite(s, there).link = s.link
<1> DEFINE a == SendAll(s, there, Tra, AnyLink)
           more == {<<"RestartAllowed", ls>> : ls \in there}
           n == [a EXCEPT !.traSent = @ \cup there, !.guard = @ \cup there, !.timers = @ \cup more]
<1>0. Shape(s) /\ RoutesOk(s, E)
    BY DEF Sound, Apart, RestOk
<1>1. Invite(s, there) = n
    BY DEF Invite
<1>2. Still(s, a) /\ Shape(a) /\ a.link = s.link /\ a.guard = s.guard
    BY <1>0, SendAllStill DEF Still
<1>3. Keeps(s, a, E)
    BY <1>2, StillKeeps
<1> HIDE DEF a
<1>4. /\ more \subseteq Timers /\ \A ls \in there : <<"RestartAllowed", ls>> \in more
      /\ \A t \in more : t \in Timers
    BY DEF Timers
<1> HIDE DEF more
<1>5. /\ Guarded(a, n) /\ n.guard = a.guard \cup there /\ n.timers = a.timers \cup more
      /\ n.guarded = a.guarded /\ n.restartDue = a.restartDue
    BY <1>2, <1>4 DEF Guarded, Shape, Fields
<1> HIDE DEF n
<1>6. Sound(a, E) /\ RoutesOk(a, E)
    BY <1>3 DEF Keeps, Sound, Apart, RestOk
<1>7. /\ \A g \in n.guard : Runs(n, E, <<"RestartAllowed", g>>)
      /\ \A g \in n.guarded : Runs(n, E, <<"Prohibited", g>>)
    BY <1>4, <1>5, <1>6 DEF RoutesOk, Runs
<1>8. Sound(n, E) /\ NoneInhibited(a, n)
    BY <1>5, <1>6, <1>7, GuardedSound
<1>9. Keeps(a, n, E)
    BY <1>5, <1>8 DEF Keeps, Guarded
<1> QED BY <1>1, <1>2, <1>3, <1>5, <1>9, KeepsOn DEF Guarded

\* end_restart: the restart timers may both have run out.
LEMMA EndRestartKeeps ==
    ASSUME NEW s, NEW E, NEW F, Sound(s, F), F \subseteq E \cup {<<"Restart">>, <<"RestartOverall">>},
           s.restarting
    PROVE  /\ Keeps(s, EndRestart(s), E)
           /\ \A k \in Link : EndRestart(s).link[k].up = s.link[k].up
<1> DEFINE opened == {l \in Link : s.link[l].phase = "AwaitRestart"}
           a == Placed(s, opened, "Open")
           run == {<<"Restart">>, <<"RestartOverall">>}
           none == {}
           b == [a EXCEPT !.restarting = FALSE, !.timers = @ \ run, !.synced = none]
           c == Settle(b)
           d == OpenAll(c, opened)
           there == {ls \in Linkset : LinksetSignalling(s, ls)}
           n == Invite(d, there)
<1>0. /\ Shape(s) /\ RoutesOk(s, F) /\ RestartsOk(s, F)
      /\ \A k \in Link : Base(s, F, k) /\ Phased(s, F, k) /\ s.link[k] \in LinkStates
    BY SoundLink DEF Sound, Apart, RestOk
<1>1. EndRestart(s) = n
    BY DEF EndRestart
<1>2. opened \in SUBSET Link /\ there \in SUBSET Linkset /\ "Open" \in Phase
    BY DEF Phase
<1>3. \A k \in opened : s.link[k].up /\ ~s.link[k].remoteInhibited
    BY <1>0 DEF Phased
<1>4. \A k \in Link : k \in opened <=> s.link[k].phase = "AwaitRestart"
    OBVIOUS
<1> HIDE DEF opened, there
<1>5. /\ Local(s, a, opened) /\ Shape(a)
      /\ a.timers = s.timers /\ a.heldLinks = s.heldLinks /\ a.openLinks = s.openLinks
      /\ \A k \in opened : PlacedAt(s, a, k, "Open")
    <2>1. /\ Local(s, a, opened)
          /\ a.timers = s.timers /\ a.heldLinks = s.heldLinks /\ a.openLinks = s.openLinks
          /\ \A k \in opened : PlacedAt(s, a, k, "Open")
        BY <1>0, <1>2, PlacedLocal
    <2> HIDE DEF a
    <2> QED BY <2>1 DEF Local
<1> HIDE DEF a
<1>6. /\ Shape(b) /\ b.link = a.link /\ b.heldLinks = a.heldLinks /\ b.openLinks = a.openLinks
      /\ b.timers = a.timers \ run /\ b.restarting = FALSE
      /\ b.restartingSets = a.restartingSets /\ b.guard = a.guard /\ b.guarded = a.guarded
      /\ b.status = a.status /\ b.holding = a.holding /\ b.deferred = a.deferred /\ b.mark = a.mark
      /\ b.restartDue = a.restartDue /\ b.isolated = a.isolated
    <2> HIDE DEF run, none
    <2> QED BY <1>5 DEF Shape, Fields
<1> HIDE DEF b
<1>7. /\ \A x, y : Runs(s, F, <<x, y>>) => Runs(b, E, <<x, y>>)
      /\ \A x, y, z : Runs(s, F, <<x, y, z>>) => Runs(b, E, <<x, y, z>>)
      /\ <<"Isolation">> \in s.timers => <<"Isolation">> \in b.timers
    <2>1. \A x, y : <<x, y>> \notin run
        OBVIOUS
    <2>2. \A x, y, z : <<x, y, z>> \notin run
        OBVIOUS
    <2>3. <<"Isolation">> \notin run
        <3>1. <<"Isolation">> # <<"Restart">> /\ <<"Isolation">> # <<"RestartOverall">>
            <4>1. <<"Isolation">>[1] = "Isolation" /\ <<"Restart">>[1] = "Restart"
                  /\ <<"RestartOverall">>[1] = "RestartOverall"
                OBVIOUS
            <4> QED BY <4>1
        <3> QED BY <3>1
    <2>4. F \subseteq E \cup run
        OBVIOUS
    <2> HIDE DEF run
    <2> QED BY <1>5, <1>6, <2>1, <2>2, <2>3, <2>4 DEF Runs
<1>8. RestOk(b, E)
    <2>1. TableOk(b)
        BY <1>0, <1>5, <1>6 DEF RoutesOk, TableOk, Local
    <2>2. /\ \A g \in b.guard : Runs(b, E, <<"RestartAllowed", g>>)
          /\ \A g \in b.guarded : Runs(b, E, <<"Prohibited", g>>)
          /\ \A g \in b.holding : Runs(b, E, <<"Rerouting", g>>)
          /\ \A g \in b.restartingSets : Runs(b, E, <<"AdjacentRestart", g>>)
        <3>1. ASSUME NEW g \in b.guarded PROVE Runs(b, E, <<"Prohibited", g>>)
            <4>1. g \in s.guarded \/ <<"Prohibited", g>> \in a.timers
                BY <1>5, <1>6 DEF Local
            <4> QED BY <1>0, <1>5, <1>7, <4>1 DEF RoutesOk, Runs
        <3> QED BY <1>0, <1>5, <1>6, <1>7, <3>1 DEF RoutesOk, RestartsOk, Local
    <2>3. \A x \in b.status : Runs(b, E, <<"RouteSetTest", x[1], Routes[x[1]][x[2]].via>>)
        BY <1>0, <1>5, <1>6, <1>7 DEF RoutesOk, Local
    <2> QED BY <1>6, <2>1, <2>2, <2>3 DEF RestOk, RoutesOk, RestartsOk
<1>9. ASSUME NEW k \in Link
      PROVE  /\ Base(b, E, k) /\ b.link[k].up = s.link[k].up
             /\ b.link[k].remoteInhibited = s.link[k].remoteInhibited
             /\ k \in opened => b.link[k].phase = "Open"
             /\ k \notin opened => b.link[k] = s.link[k]
    <2>1. Base(s, F, k) /\ s.link[k] \in LinkStates
        BY <1>0
    <2>2. CASE k \notin opened
        BY <1>5, <1>6, <1>7, <2>1, <2>2 DEF Base, Local
    <2>3. CASE k \in opened
        <3>1. b.link[k] = [s.link[k] EXCEPT !.phase = "Open"]
            BY <1>5, <1>6, <2>3 DEF PlacedAt
        <3>2. /\ b.link[k].phase = "Open" /\ b.link[k].up = s.link[k].up
              /\ b.link[k].remoteInhibited = s.link[k].remoteInhibited
              /\ b.link[k].ordered = s.link[k].ordered
              /\ b.link[k].uninhibitAttempts = s.link[k].uninhibitAttempts
              /\ b.link[k].forceAttempts = s.link[k].forceAttempts
            BY <2>1, <3>1 DEF LinkStates
        <3> QED BY <1>7, <2>1, <2>3, <3>2 DEF Base
    <2> QED BY <2>2, <2>3
<1>10. ASSUME NEW k \in Link \ opened PROVE Phased(b, E, k)
    <2>1. Phased(s, F, k) /\ s.link[k].phase # "AwaitRestart"
        BY <1>0, <1>4
    <2>2. b.link[k] = s.link[k] /\ (k \in b.openLinks <=> k \in s.openLinks)
          /\ (k \in b.heldLinks <=> k \in s.heldLinks)
        BY <1>5, <1>6, <1>9
    <2> QED BY <1>7, <2>1, <2>2 DEF Phased
<1>11. Apart(b, E, opened)
    BY <1>6, <1>8, <1>9, <1>10 DEF Apart
<1>12. Still(b, c) /\ Shape(c)
    BY <1>6, SettleStill DEF Still
<1> HIDE DEF c
<1>13. Apart(c, E, opened)
    BY <1>11, <1>12, StillApart
<1>14. /\ Local(c, d, opened) /\ d.link = c.link /\ d.timers = c.timers
       /\ d.heldLinks = c.heldLinks \ opened /\ d.openLinks = c.openLinks \cup opened
    BY <1>2, <1>12, OpenLocal
<1> HIDE DEF d
<1>15. d.link = b.link
    BY <1>12, <1>14 DEF Still
<1>16. ASSUME NEW k \in opened PROVE Base(d, E, k) /\ Phased(d, E, k)
    <2>1. k \in Link
        BY <1>2
    <2>2. Base(d, E, k)
        BY <1>13, <1>14, <2>1 DEF Apart, Base, Runs
    <2>3. d.link[k].phase = "Open" /\ d.link[k].up /\ ~d.link[k].remoteInhibited
        BY <1>3, <1>9, <1>15, <2>1
    <2> QED BY <1>14, <2>2, <2>3, PhasesAre DEF Phased
<1>17. Around(c, d, E, opened)
    BY <1>14, LocalAround
<1>18. Apart(d, E, opened \ opened)
    BY <1>13, <1>16, <1>17, AroundApart
<1>19. Sound(d, E)
    BY <1>18 DEF Sound
<1>20. /\ NoneInhibited(s, d) /\ d.isolated = s.isolated /\ d.restartDue = s.restartDue
       /\ <<"Isolation">> \in s.timers => <<"Isolation">> \in d.timers
       /\ \A k \in Link : d.link[k].up = s.link[k].up
    <2>1. NoneInhibited(s, d) /\ \A k \in Link : d.link[k].up = s.link[k].up
        BY <1>9, <1>15 DEF NoneInhibited
    <2>2. d.isolated = s.isolated /\ d.restartDue = s.restartDue
        BY <1>5, <1>6, <1>12, <1>14 DEF Local, Still
    <2>3. <<"Isolation">> \in s.timers => <<"Isolation">> \in d.timers
        BY <1>7, <1>12, <1>14 DEF Still
    <2> QED BY <2>1, <2>2, <2>3
<1>21. Keeps(s, d, E)
    BY <1>19, <1>20 DEF Keeps
<1>22. Keeps(d, n, E) /\ n.link = d.link
    BY <1>2, <1>19, InviteKeeps
<1> HIDE DEF n
<1> QED BY <1>1, <1>20, <1>21, <1>22, KeepsOn

\* restart_progress.
LEMMA RestartProgressKeeps ==
    ASSUME NEW s, NEW E, Sound(s, E), s.restarting
    PROVE  /\ Keeps(s, RestartProgress(s), E)
           /\ \A k \in Link : RestartProgress(s).link[k].up = s.link[k].up
<1>1. RestartProgress(s) \in {s, EndRestart(s)}
    BY DEF RestartProgress
<1>2. Keeps(s, s, E)
    BY KeepsItself
<1>3. /\ Keeps(s, EndRestart(s), E)
      /\ \A k \in Link : EndRestart(s).link[k].up = s.link[k].up
    <2>1. E \subseteq E \cup {<<"Restart">>, <<"RestartOverall">>}
        OBVIOUS
    <2> QED BY <2>1, EndRestartKeeps
<1> QED BY <1>1, <1>2, <1>3

\* begin_restart.
LEMMA BeginRestartSound ==
    ASSUME NEW s, NEW E, Sound(s, E)
    PROVE  LET n == BeginRestart(s) IN
           /\ Sound(n, E) /\ n.link = s.link /\ n.restarting
           /\ n.openLinks = s.openLinks /\ n.heldLinks = s.heldLinks
           /\ n.restartingSets = s.restartingSets
<1> DEFINE run == {<<"Restart">>, <<"RestartOverall">>}
           none == {}
           a == [s EXCEPT !.restarting = TRUE, !.restartDue = FALSE, !.traReceived = none,
                          !.timers = @ \cup run]
           n == AllowRoutesThrough(a, Linkset)
<1>0. /\ Shape(s) /\ RoutesOk(s, E) /\ RestartsOk(s, E)
      /\ \A k \in Link : Base(s, E, k) /\ Phased(s, E, k)
    BY DEF Sound, Apart, RestOk
<1>1. BeginRestart(s) = n
    BY DEF BeginRestart
<1>2. run \subseteq Timers /\ <<"Restart">> \in run
    BY DEF Timers
<1> HIDE DEF run, none
<1>3. /\ Shape(a) /\ a.link = s.link /\ a.heldLinks = s.heldLinks /\ a.openLinks = s.openLinks
      /\ a.timers = s.timers \cup run /\ a.restarting = TRUE
      /\ a.restartingSets = s.restartingSets /\ a.guard = s.guard /\ a.guarded = s.guarded
      /\ a.status = s.status /\ a.holding = s.holding /\ a.deferred = s.deferred /\ a.mark = s.mark
    BY <1>0, <1>2 DEF Shape, Fields
<1> HIDE DEF a
<1>4. RoutesOk(a, E)
    BY <1>0, <1>3 DEF RoutesOk, TableOk, Runs
<1>5. /\ Shape(n)
      /\ n.link = a.link /\ n.heldLinks = a.heldLinks /\ n.openLinks = a.openLinks
      /\ n.restartingSets = a.restartingSets /\ n.restarting = a.restarting
      /\ \A t \in a.timers : t \in n.timers \/ t[1] = "RouteSetTest"
      /\ RoutesOk(n, E)
    BY <1>3, <1>4, AllowRoutes
<1> HIDE DEF n
<1>6. /\ \A x, y : Runs(s, E, <<x, y>>) /\ x # "RouteSetTest" => Runs(n, E, <<x, y>>)
      /\ Runs(n, E, <<"Restart">>)
    <2>1. \A x, y : <<x, y>>[1] = x
        OBVIOUS
    <2>2. <<"Restart">>[1] = "Restart"
        OBVIOUS
    <2> QED BY <1>2, <1>3, <1>5, <2>1, <2>2 DEF Runs
<1>7. RestartsOk(n, E)
    BY <1>0, <1>3, <1>5, <1>6 DEF RestartsOk
<1>8. ASSUME NEW k \in Link PROVE Base(n, E, k) /\ Phased(n, E, k)
    BY <1>0, <1>3, <1>5, <1>6 DEF Base, Phased
<1> QED BY <1>1, <1>3, <1>5, <1>7, <1>8 DEF Sound, Apart, RestOk

\* link_up.  The node is not isolated after it, whatever it was before.
LEMMA LinkUpSound ==
    ASSUME NEW s, NEW E, NEW l \in Link, Sound(s, E)
    PROVE  LET n == LinkUp(s, l) IN
           Sound(n, E) /\ NoneInhibited(s, n) /\ n.link[l].up
<1> DEFINE begins == s.restartDue /\ ~s.restarting /\ s.isolated
           begun == IF begins THEN BeginRestart(s) ELSE s
           owed == begun.restartDue /\ s.isolated
           k == [begun.link[l] EXCEPT !.up = TRUE]
           a == [begun EXCEPT !.restartDue = owed]
           c == [a EXCEPT !.link = [@ EXCEPT ![l] = k]]
           up == [begun EXCEPT !.restartDue = @ /\ s.isolated, !.link[l].up = TRUE]
           back == [up EXCEPT !.link[l].back = TRUE]
           placed == CASE s.link[l].phase \in Changeover -> back
                       [] s.link[l].phase = "Closed" /\ ~s.link[l].remoteInhibited -> Restore(up, l)
                       [] OTHER -> up
           n == IF placed.restarting THEN RestartProgress(placed) ELSE placed
<1>0. Shape(s) /\ Base(s, E, l) /\ Phased(s, E, l) /\ s.link[l] \in LinkStates
    BY SoundLink
<1>1. Sound(begun, E) /\ begun.link = s.link /\ Shape(begun)
      /\ begun.openLinks = s.openLinks /\ begun.heldLinks = s.heldLinks
    <2>1. begun \in {s, BeginRestart(s)}
        OBVIOUS
    <2> HIDE DEF begun
    <2> QED BY <2>1, BeginRestartSound DEF Sound, Apart
<1>2. LinkUp(s, l) = n
    BY DEF LinkUp
<1> HIDE DEF begun
<1>3. k \in LinkStates /\ k.up /\ k.phase = s.link[l].phase /\ k.back = s.link[l].back
      /\ k.remoteInhibited = s.link[l].remoteInhibited
      /\ k.ordered = s.link[l].ordered
      /\ k.uninhibitAttempts = s.link[l].uninhibitAttempts
      /\ k.forceAttempts = s.link[l].forceAttempts
    BY <1>0, <1>1 DEF LinkStates
<1>16. up = c
    BY <1>1 DEF Shape, Fields
<1> HIDE DEF k, up
<1>4. owed \in BOOLEAN
    BY <1>0, <1>1 DEF Shape
<1> HIDE DEF owed
<1>5. /\ Guarded(begun, a) /\ Shape(a) /\ a.guard = begun.guard /\ a.guarded = begun.guarded
      /\ a.link = begun.link
    BY <1>1, <1>4 DEF Guarded, Shape, Fields
<1>6. Sound(a, E)
    <2>1. RoutesOk(begun, E)
        BY <1>1 DEF Sound, Apart, RestOk
    <2>2. /\ \A g \in a.guard : Runs(a, E, <<"RestartAllowed", g>>)
          /\ \A g \in a.guarded : Runs(a, E, <<"Prohibited", g>>)
        BY <1>5, <2>1 DEF RoutesOk, Runs, Guarded
    <2> QED BY <1>1, <1>5, <2>2, GuardedSound
<1> HIDE DEF a
<1>7. /\ Local(a, up, {l}) /\ up.link[l] = k /\ Shape(up)
      /\ up.timers = a.timers /\ up.heldLinks = a.heldLinks /\ up.openLinks = a.openLinks
    <2>1. /\ Local(a, c, {l}) /\ c.link[l] = k /\ Shape(c)
          /\ c.timers = a.timers /\ c.heldLinks = a.heldLinks /\ c.openLinks = a.openLinks
        BY <1>3, <1>5, LinkLocal DEF Local
    <2> HIDE DEF c
    <2> QED BY <1>16, <2>1
<1>8. Base(up, E, l)
    BY <1>0, <1>1, <1>3, <1>5, <1>6, <1>7 DEF Sound, Apart, Base, Runs
<1>9. Around(a, up, E, {l}) /\ NoneInhibited(s, up)
    <2>1. NoneInhibited(s, up)
        BY <1>1, <1>3, <1>5, <1>7 DEF NoneInhibited, Local
    <2> QED BY <1>7, <2>1, LocalAround
<1>10. ASSUME NEW o, Puts(up, o, E, l)
       PROVE  Sound(o, E) /\ NoneInhibited(s, o)
    <2>1. Around(a, o, E, {l}) /\ NoneInhibited(s, o)
        BY <1>9, <1>10, AroundOn DEF Puts, NoneInhibited
    <2>2. Apart(o, E, {l} \ {l})
        BY <1>6, <1>10, <2>1, SoundApart, AroundApart DEF Puts
    <2> QED BY <2>1, <2>2 DEF Sound
<1>11. Phased(a, E, l) /\ a.link[l] = s.link[l]
    BY <1>1, <1>5, <1>6 DEF Sound, Apart
<1>12. Sound(placed, E) /\ NoneInhibited(s, placed) /\ placed.link[l].up
    <2>1. CASE s.link[l].phase \in Changeover
        <3>1. placed = back
            BY <2>1, PhasesAre
        <3> HIDE DEF placed, n
        <3>2. /\ Rephased(up, back, l) /\ back.link[l] = [up.link[l] EXCEPT !.back = TRUE]
              /\ back.timers = up.timers
              /\ back.heldLinks = up.heldLinks /\ back.openLinks = up.openLinks
            <4> DEFINE true == TRUE
            <4>1. true \in BOOLEAN /\ back = [up EXCEPT !.link[l].back = true]
                OBVIOUS
            <4>2. Shape(up)
                BY <1>7
            <4> HIDE DEF true
            <4>3. LET o == [up EXCEPT !.link[l].back = true] IN
                  /\ Rephased(up, o, l) /\ o.link[l] = [up.link[l] EXCEPT !.back = true]
                  /\ o.timers = up.timers /\ o.heldLinks = up.heldLinks /\ o.openLinks = up.openLinks
                BY <4>1, <4>2, BackRephased
            <4> QED BY <4>1, <4>3 DEF true
        <3>3. back.link[l].back /\ back.link[l].phase = s.link[l].phase /\ back.link[l].up
              /\ back.link[l].remoteInhibited = s.link[l].remoteInhibited
            BY <1>3, <1>7, <3>2 DEF LinkStates
        <3> HIDE DEF back
        <3>4. Phased(back, E, l)
            BY <1>7, <1>11, <2>1, <3>2, <3>3, PhasesAre DEF Phased, Runs, Local
        <3>5. Puts(up, back, E, l)
            BY <1>8, <3>2, <3>4, RephasedPuts
        <3> QED BY <1>10, <3>1, <3>3, <3>5
    <2>2. CASE s.link[l].phase = "Closed" /\ ~s.link[l].remoteInhibited
        <3>1. placed = Restore(up, l)
            BY <2>2, PhasesAre
        <3>2. l \notin up.openLinks /\ l \notin up.heldLinks
            BY <1>7, <1>11, <2>2, PhasesAre DEF Phased
        <3>3. Puts(up, Restore(up, l), E, l) /\ Restore(up, l).link[l].up
            BY <1>3, <1>7, <1>8, <2>2, <3>2, RestorePuts
        <3> HIDE DEF placed
        <3> QED BY <1>10, <3>1, <3>3
    <2>3. CASE s.link[l].phase \notin Changeover /\ ~ (s.link[l].phase = "Closed" /\ ~s.link[l].remoteInhibited)
        <3>1. placed = up
            BY <2>3
        <3> HIDE DEF placed
        <3>2. Phased(up, E, l)
            BY <1>3, <1>7, <1>11, <2>3 DEF Phased, Runs, Local
        <3>3. Puts(up, up, E, l)
            BY <1>7, <1>8, <3>2, StillItself, StillRephased, RephasedPuts
        <3> QED BY <1>3, <1>7, <1>10, <3>1, <3>3
    <2> QED BY <2>1, <2>2, <2>3
<1> HIDE DEF placed
<1>13. CASE placed.restarting
    <2>1. Keeps(placed, n, E) /\ n.link[l].up
        BY <1>12, <1>13, RestartProgressKeeps
    <2> QED BY <1>2, <1>12, <2>1 DEF Keeps, NoneInhibited
<1>14. CASE ~placed.restarting
    BY <1>2, <1>12, <1>14
<1>15. placed.restarting \in BOOLEAN
    BY <1>12 DEF Sound, Apart, Shape
<1> QED BY <1>13, <1>14, <1>15

\* The links of L, which carry traffic again.
LEMMA PlacedApart ==
    ASSUME NEW s, NEW n, NEW a, NEW E, NEW L \in SUBSET Link, NEW K, NEW p \in Phase,
           Apart(s, E, K), L \subseteq K, \A k \in L : s.link[k].up /\ ~s.link[k].remoteInhibited,
           a = Placed(s, L, p), Local(a, n, L), n.link = a.link,
           a.timers \subseteq n.timers,
           \A k \in L : \/ /\ p = "Open" /\ k \in n.openLinks /\ k \notin n.heldLinks
                        \/ /\ p = "ChangebackTimed" /\ k \notin n.openLinks /\ k \in n.heldLinks
                           /\ <<"Changeback", k>> \in n.timers
    PROVE  Apart(n, E, K \ L) /\ Around(s, n, E, L) /\ NoneInhibited(s, n)
<1>0. Shape(s) /\ \A k \in Link : Base(s, E, k)
    BY DEF Apart
<1>1. /\ Local(s, a, L)
      /\ a.timers = s.timers /\ a.heldLinks = s.heldLinks /\ a.openLinks = s.openLinks
      /\ \A k \in L : PlacedAt(s, a, k, p)
    <2>1. LET b == Placed(s, L, p) IN
          /\ Local(s, b, L)
          /\ b.timers = s.timers /\ b.heldLinks = s.heldLinks /\ b.openLinks = s.openLinks
          /\ \A k \in L : PlacedAt(s, b, k, p)
        BY <1>0, PlacedLocal
    <2> QED BY <2>1
<1>2. Local(s, n, L)
    BY <1>1, LocalOn
<1>3. Around(s, n, E, L)
    BY <1>2, LocalAround
<1>4. ASSUME NEW k \in L
      PROVE  /\ Base(n, E, k) /\ n.link[k].phase = p /\ n.link[k].up = s.link[k].up
             /\ n.link[k].remoteInhibited = s.link[k].remoteInhibited
    <2>1. PlacedAt(s, n, k, p)
        BY <1>1 DEF PlacedAt
    <2>2. \A x \in {"InhibitTest", "Uninhibit", "ForceUninhibit"} :
              Runs(s, E, <<x, k>>) => Runs(n, E, <<x, k>>)
        BY <1>1 DEF Runs
    <2>3. k \in Link /\ Base(s, E, k)
        BY <1>0
    <2>4. Base(n, E, k)
        BY <1>0, <2>1, <2>2, <2>3, PlacedBase
    <2>5. s.link[k] \in LinkStates
        BY <1>0, <2>3, LinkKnown
    <2> QED BY <2>1, <2>4, <2>5 DEF PlacedAt, LinkStates
<1>5. ASSUME NEW k \in L PROVE Phased(n, E, k)
    BY <1>4, PhasesAre DEF Phased, Runs
<1>6. Apart(n, E, K \ L)
    BY <1>3, <1>4, <1>5, AroundApart
<1>7. NoneInhibited(s, n)
    BY <1>2, <1>4 DEF NoneInhibited, Local
<1> QED BY <1>3, <1>6, <1>7

LEMMA StartOthersApart ==
    ASSUME NEW s, NEW E, NEW L \in SUBSET Link, NEW ls,
           Apart(s, E, L), \A k \in L : s.link[k].up /\ ~s.link[k].remoteInhibited
    PROVE  LET n == StartOthers(s, ls, L) IN
           Sound(n, E) /\ Around(s, n, E, L) /\ NoneInhibited(s, n)
<1> DEFINE more == {<<"Changeback", l>> : l \in L}
           a == Placed(s, L, "ChangebackTimed")
           b == [a EXCEPT !.timers = @ \cup more]
           c == HoldAll(b, L)
           d == Placed(s, L, "Open")
           e == OpenAll(d, L)
<1>0. Shape(s)
    BY DEF Apart
<1>1. StartOthers(s, ls, L) = IF L = {} THEN s ELSE IF Diverted(s, ls) THEN c ELSE e
    BY DEF StartOthers
<1>2. "ChangebackTimed" \in Phase /\ "Open" \in Phase
    BY DEF Phase
<1>3. CASE L = {}
    <2>1. Sound(s, E)
        BY <1>3 DEF Sound
    <2> QED BY <1>0, <1>1, <1>3, <2>1, StillItself, StillAround
<1>4. Sound(c, E) /\ Around(s, c, E, L) /\ NoneInhibited(s, c)
    <2>1. Local(s, a, L)
        BY <1>0, <1>2, PlacedLocal
    <2>2. a = Placed(s, L, "ChangebackTimed")
        OBVIOUS
    <2> HIDE DEF a
    <2>3. more \subseteq Timers /\ \A k \in L : <<"Changeback", k>> \in more
        BY DEF Timers, LinkTimer
    <2> HIDE DEF more
    <2>4. Local(a, b, L) /\ b.link = a.link /\ a.timers \subseteq b.timers
          /\ more \subseteq b.timers /\ Shape(b)
        BY <2>1, <2>3 DEF Local, Shape, Fields
    <2> HIDE DEF b
    <2>5. /\ Local(b, c, L) /\ c.link = b.link /\ c.timers = b.timers
          /\ c.heldLinks = b.heldLinks \cup L /\ c.openLinks = b.openLinks \ L
        BY <2>4, HoldLocal
    <2> HIDE DEF c
    <2>6. Local(a, c, L) /\ c.link = a.link /\ a.timers \subseteq c.timers
        BY <2>4, <2>5, LocalOn
    <2>7. Apart(c, E, L \ L) /\ Around(s, c, E, L) /\ NoneInhibited(s, c)
        <3>1. \A k \in L : k \notin c.openLinks /\ k \in c.heldLinks /\ <<"Changeback", k>> \in c.timers
            BY <2>3, <2>4, <2>5
        <3>2. L \subseteq L
            OBVIOUS
        <3> QED BY <1>2, <2>2, <2>6, <3>1, <3>2, PlacedApart
    <2>8. L \ L = {}
        OBVIOUS
    <2> QED BY <2>7, <2>8 DEF Sound
<1>5. Sound(e, E) /\ Around(s, e, E, L) /\ NoneInhibited(s, e)
    <2>1. Local(s, d, L)
        BY <1>0, <1>2, PlacedLocal
    <2>2. d = Placed(s, L, "Open")
        OBVIOUS
    <2> HIDE DEF d
    <2>3. /\ Local(d, e, L) /\ e.link = d.link /\ e.timers = d.timers
          /\ e.heldLinks = d.heldLinks \ L /\ e.openLinks = d.openLinks \cup L
        BY <2>1, OpenLocal DEF Local
    <2> HIDE DEF e
    <2>4. Apart(e, E, L \ L) /\ Around(s, e, E, L) /\ NoneInhibited(s, e)
        <3>1. \A k \in L : k \in e.openLinks /\ k \notin e.heldLinks
            BY <2>3
        <3>2. L \subseteq L /\ d.timers \subseteq e.timers
            BY <2>3
        <3> QED BY <1>2, <2>2, <2>3, <3>1, <3>2, PlacedApart
    <2>5. L \ L = {}
        OBVIOUS
    <2> QED BY <2>4, <2>5 DEF Sound
<1> HIDE DEF c, e
<1> QED BY <1>1, <1>3, <1>4, <1>5

\* end_adjacent_restart, on the answer of the adjacent point or when T20 is over.
LEMMA EndAdjacentRestartKeeps ==
    ASSUME NEW s, NEW E, NEW ls \in Linkset, Sound(s, E \cup {<<"AdjacentRestart", ls>>})
    PROVE  Keeps(s, EndAdjacentRestart(s, ls), E)
<1> DEFINE t == <<"AdjacentRestart", ls>>
           F == E \cup {t}
           a == [s EXCEPT !.restartingSets = @ \ {ls}]
           over == Stop(a, t)
           waiting == {l \in LinksOf[ls] : s.link[l].phase = "AwaitRestart"}
           first == CHOOSE l \in waiting : \A k \in waiting : l <= k
           b == StartTraffic(over, first)
           others == waiting \ {first}
           n == StartOthers(b, ls, others)
<1>0. /\ Shape(s) /\ RoutesOk(s, F) /\ RestartsOk(s, F)
      /\ \A k \in Link : Base(s, F, k) /\ Phased(s, F, k)
    BY DEF Sound, Apart, RestOk
<1>1. EndAdjacentRestart(s, ls) = IF waiting = {} THEN over ELSE n
    BY DEF EndAdjacentRestart
<1>2. waiting \in SUBSET Link /\ \A k \in Link : k \in waiting <=> LinksetOf[k] = ls /\ s.link[k].phase = "AwaitRestart"
    BY LinksAssumption DEF LinksOf
<1>3. \A k \in waiting : s.link[k].up /\ ~s.link[k].remoteInhibited
    BY <1>0, <1>2 DEF Phased
<1> HIDE DEF waiting
<1>4. waiting # {} => first \in waiting
    <2>1. waiting \in SUBSET Nat
        BY <1>2, LinksAssumption
    <2>2. waiting # {} => \E l \in waiting : \A k \in waiting : l <= k
        BY <2>1, LeastElement
    <2> QED BY <2>2
<1> HIDE DEF first
<1>5. /\ Shape(over) /\ over.link = s.link /\ over.heldLinks = s.heldLinks /\ over.openLinks = s.openLinks
      /\ over.timers = s.timers \ {t} /\ over.restarting = s.restarting
      /\ over.restartingSets = s.restartingSets \ {ls}
      /\ over.guard = s.guard /\ over.guarded = s.guarded
      /\ over.status = s.status /\ over.holding = s.holding
      /\ over.deferred = s.deferred /\ over.mark = s.mark
      /\ over.restartDue = s.restartDue /\ over.isolated = s.isolated
    <2> HIDE DEF t
    <2> QED BY <1>0 DEF Stop, Shape, Fields
<1> HIDE DEF over
<1>6. /\ \A x, y : Runs(s, F, <<x, y>>) /\ (x # "AdjacentRestart" \/ y # ls) => Runs(over, E, <<x, y>>)
      /\ \A x : Runs(s, F, <<x>>) => Runs(over, E, <<x>>)
      /\ \A x, y, z : Runs(s, F, <<x, y, z>>) => Runs(over, E, <<x, y, z>>)
      /\ <<"Isolation">> \in s.timers => <<"Isolation">> \in over.timers
    <2>1. \A x, y : <<x, y>> = t => x = "AdjacentRestart" /\ y = ls
        OBVIOUS
    <2>2. \A x : <<x>> # t
        OBVIOUS
    <2>3. \A x, y, z : <<x, y, z>> # t
        OBVIOUS
    <2> HIDE DEF t
    <2> QED BY <1>5, <2>1, <2>2, <2>3 DEF Runs
<1>7. RestOk(over, E)
    <2>1. TableOk(over)
        BY <1>0, <1>5 DEF RoutesOk, TableOk
    <2>2. /\ \A g \in over.guard : Runs(over, E, <<"RestartAllowed", g>>)
          /\ \A g \in over.guarded : Runs(over, E, <<"Prohibited", g>>)
          /\ \A g \in over.holding : Runs(over, E, <<"Rerouting", g>>)
          /\ \A g \in over.restartingSets : Runs(over, E, <<"AdjacentRestart", g>>)
          /\ over.restarting => Runs(over, E, <<"Restart">>) \/ Runs(over, E, <<"RestartOverall">>)
        BY <1>0, <1>5, <1>6 DEF RoutesOk, RestartsOk
    <2>3. \A x \in over.status : Runs(over, E, <<"RouteSetTest", x[1], Routes[x[1]][x[2]].via>>)
        BY <1>0, <1>5, <1>6 DEF RoutesOk
    <2> QED BY <2>1, <2>2, <2>3 DEF RestOk, RoutesOk, RestartsOk
<1>8. ASSUME NEW k \in Link PROVE Base(over, E, k)
    BY <1>0, <1>5, <1>6 DEF Base
<1>9. ASSUME NEW k \in Link \ waiting PROVE Phased(over, E, k)
    <2>1. s.link[k].phase = "AwaitRestart" => LinksetOf[k] # ls
        BY <1>2
    <2> QED BY <1>0, <1>5, <1>6, <2>1 DEF Phased
<1>10. Apart(over, E, waiting)
    BY <1>5, <1>7, <1>8, <1>9 DEF Apart
<1>11. NoneInhibited(s, over)
    BY <1>5 DEF NoneInhibited
<1>12. CASE waiting = {}
    <2>1. Sound(over, E)
        BY <1>10, <1>12 DEF Sound
    <2> QED BY <1>1, <1>5, <1>6, <1>11, <1>12, <2>1 DEF Keeps
<1>13. CASE waiting # {}
    <2>1. first \in waiting /\ first \in Link
        BY <1>2, <1>4, <1>13
    <2>2. Puts(over, b, E, first)
        BY <1>3, <1>5, <1>8, <2>1, StartTrafficPuts
    <2> HIDE DEF b
    <2>3. Around(over, b, E, {first}) /\ NoneInhibited(over, b)
          /\ Base(b, E, first) /\ Phased(b, E, first)
        BY <2>2 DEF Puts
    <2>4. Apart(b, E, others)
        <3>1. {first} \subseteq waiting
            BY <2>1
        <3> QED BY <1>10, <2>3, <3>1, AroundApart
    <2>5. \A k \in others : b.link[k].up /\ ~b.link[k].remoteInhibited
        <3>1. \A k \in others : b.link[k] = s.link[k]
            BY <1>2, <1>5, <2>3 DEF Around
        <3> QED BY <1>3, <3>1
    <2>6. others \in SUBSET Link
        BY <1>2
    <2> HIDE DEF others
    <2>7. Sound(n, E) /\ Around(b, n, E, others) /\ NoneInhibited(b, n)
        BY <2>4, <2>5, <2>6, StartOthersApart
    <2> HIDE DEF n
    <2>8. NoneInhibited(s, n)
        BY <1>11, <2>3, <2>7 DEF NoneInhibited
    <2>9. /\ n.isolated = s.isolated /\ n.restartDue = s.restartDue
          /\ <<"Isolation">> \in s.timers => <<"Isolation">> \in n.timers
        BY <1>5, <1>6, <2>3, <2>7 DEF Around
    <2> QED BY <1>1, <1>13, <2>7, <2>8, <2>9 DEF Keeps
<1> QED BY <1>12, <1>13

LEMMA TrafficRestartAllowedKeeps ==
    ASSUME NEW s, NEW E, NEW ls \in Linkset, Sound(s, E)
    PROVE  Keeps(s, TrafficRestartAllowed(s, ls), E)
<1> DEFINE received == [s EXCEPT !.traReceived = @ \cup {ls}]
           a == [s EXCEPT !.synced = @ \ {ls}]
           b == Settle(a)
           c == Tell(b, ls, Tra)
           d == [c EXCEPT !.guard = @ \cup {ls}]
           t == <<"RestartAllowed", ls>>
           n == Start(d, t)
           ended == EndAdjacentRestart(received, ls)
           progress == RestartProgress(received)
<1>0. Shape(s)
    BY DEF Sound, Apart
<1>1. TrafficRestartAllowed(s, ls) =
          IF s.restarting THEN progress
          ELSE IF ls \in s.restartingSets
          THEN (IF ls \in s.traSent THEN ended ELSE received)
          ELSE IF ls \in s.guard THEN s
          ELSE n
    BY DEF TrafficRestartAllowed
<1>2. Still(s, received) /\ received.restarting = s.restarting
    BY <1>0 DEF Still, Shape, Fields
<1> HIDE DEF received
<1>3. Keeps(s, received, E) /\ Sound(received, E)
    BY <1>2, StillKeeps DEF Keeps
<1>4. s.restarting => Keeps(s, progress, E)
    BY <1>2, <1>3, RestartProgressKeeps, KeepsOn
<1>5. Keeps(s, ended, E)
    <2>1. Sound(received, E \cup {<<"AdjacentRestart", ls>>})
        BY <1>3, SoundMore
    <2> QED BY <1>3, <2>1, EndAdjacentRestartKeeps, KeepsOn
<1>6. Still(s, a) /\ Shape(a)
    BY <1>0 DEF Still, Shape, Fields
<1> HIDE DEF a
<1>7. Still(s, b) /\ Shape(b)
    BY <1>6, SettleStill, StillOn DEF Still
<1> HIDE DEF b
<1>8. Still(s, c) /\ Shape(c)
    BY <1>7, TellStill, StillOn DEF Still
<1> HIDE DEF c
<1>9. Keeps(s, c, E)
    BY <1>8, StillKeeps
<1>10. t \in Timers
    BY DEF Timers
<1> HIDE DEF t
<1>11. /\ Guarded(c, n) /\ n.guard = c.guard \cup {ls} /\ n.timers = c.timers \cup {t}
       /\ n.guarded = c.guarded /\ n.restartDue = c.restartDue
    BY <1>8, <1>10 DEF Guarded, Start, Shape, Fields
<1> HIDE DEF n
<1>12. Sound(c, E) /\ RoutesOk(c, E)
    BY <1>9 DEF Keeps, Sound, Apart, RestOk
<1>13. /\ \A g \in n.guard : Runs(n, E, <<"RestartAllowed", g>>)
       /\ \A g \in n.guarded : Runs(n, E, <<"Prohibited", g>>)
    BY <1>11, <1>12 DEF RoutesOk, Runs, t
<1>14. Sound(n, E) /\ NoneInhibited(c, n)
    BY <1>11, <1>12, <1>13, GuardedSound
<1>15. Keeps(c, n, E)
    BY <1>11, <1>14 DEF Keeps, Guarded
<1>16. Keeps(s, n, E)
    BY <1>9, <1>15, KeepsOn
<1> HIDE DEF ended, progress
<1> QED BY <1>1, <1>3, <1>4, <1>5, <1>16, KeepsItself

----------------------------------------------------------------------------
(* What is reachable, and what follows every input.                        *)

\* What a destination can be reached by is the same.
SameRoutes(s, n) ==
    /\ \A k \in Link : LinkAvailable(n, k) <=> LinkAvailable(s, k)
    /\ n.servers = s.servers /\ n.paused = s.paused /\ n.status = s.status

LEMMA SameReach ==
    ASSUME NEW s, NEW n, SameRoutes(s, n)
    PROVE  \A d : Reachable(n, d) <=> Reachable(s, d)
<1> SUFFICES ASSUME NEW d PROVE Reachable(n, d) <=> Reachable(s, d)
    OBVIOUS
<1>1. ASSUME NEW ls \in Linkset PROVE LinksetAvailable(n, ls) <=> LinksetAvailable(s, ls)
    <2>1. LinksOf[ls] \subseteq Link
        BY DEF LinksOf
    <2> QED BY <2>1 DEF SameRoutes, LinksetAvailable
<1>2. \A r : StatusOf(n, d, r) = StatusOf(s, d, r)
    BY DEF SameRoutes, StatusOf
<1>3. ASSUME NEW r PROVE Usable(n, d, r) = Usable(s, d, r)
    <2> DEFINE via == Routes[d][r].via
               some == IF via \in s.servers THEN "Yes" ELSE "No"
               status == StatusOf(s, d, r)
               by == IF ~LinksetAvailable(s, via) \/ status = "Prohibited" THEN "No"
                     ELSE IF status = "Restricted" THEN "Restricted" ELSE "Yes"
    <2>1. via \in Linkset => (LinksetAvailable(n, via) <=> LinksetAvailable(s, via))
        BY <1>1
    <2>2. CASE d \in s.paused
        BY <2>2 DEF Usable, SameRoutes
    <2>3. CASE d \notin s.paused /\ via \in Server
        <3>1. via \notin Linkset
            BY <2>3, ServerAssumption
        <3>2. Usable(s, d, r) = some
            BY <2>3, <3>1 DEF Usable
        <3>3. Usable(n, d, r) = some
            BY <2>3, <3>1 DEF Usable, SameRoutes
        <3> QED BY <3>2, <3>3
    <2>4. CASE d \notin s.paused /\ via \in Linkset
        <3>1. via \notin Server
            BY <2>4, ServerAssumption
        <3>2. Usable(s, d, r) = by
            BY <2>4, <3>1 DEF Usable
        <3>3. Usable(n, d, r) = by
            BY <1>2, <2>1, <2>4, <3>1 DEF Usable, SameRoutes
        <3> QED BY <3>2, <3>3
    <2>5. CASE d \notin s.paused /\ via \notin Server /\ via \notin Linkset
        BY <2>5 DEF Usable, SameRoutes
    <2> QED BY <2>2, <2>3, <2>4, <2>5
<1>4. InUse(n, d) = InUse(s, d)
    BY <1>3 DEF InUse, FirstTier, Unrestricted
<1> QED BY <1>4 DEF Reachable

LEMMA StillRoutes ==
    ASSUME NEW s, NEW n, Still(s, n)
    PROVE  SameRoutes(s, n)
BY DEF Still, SameRoutes, LinkAvailable

\* watch_isolation.
LEMMA WatchIsolationSound ==
    ASSUME NEW s, NEW E, Sound(s, E), IsolationOk(s, E) \/ \E l \in Link : s.link[l].up
    PROVE  LET n == WatchIsolation(s) IN
           /\ Sound(n, E) /\ IsolationOk(n, E)
           /\ n.link = s.link /\ n.accessible = s.accessible /\ SameRoutes(s, n)
<1> DEFINE t == <<"Isolation">>
           isolated == (\A l \in Link : ~s.link[l].up) /\ s.servers = {}
           a == [s EXCEPT !.isolated = TRUE]
           b == Start(a, t)
           c == [s EXCEPT !.isolated = FALSE]
           d == Stop(c, t)
<1>0. /\ Shape(s) /\ RoutesOk(s, E) /\ RestartsOk(s, E)
      /\ \A k \in Link : Base(s, E, k) /\ Phased(s, E, k)
    BY DEF Sound, Apart, RestOk
<1>1. WatchIsolation(s) = IF isolated = s.isolated THEN s ELSE IF isolated THEN b ELSE d
    BY DEF WatchIsolation
<1>2. isolated \in BOOLEAN /\ s.isolated \in BOOLEAN
    BY <1>0 DEF Shape
<1>3. isolated => ~ \E l \in Link : s.link[l].up
    OBVIOUS
<1> HIDE DEF isolated
<1>4. t \in Timers /\ (\A x, y : <<x, y>> # t) /\ (\A x, y, z : <<x, y, z>> # t)
      /\ <<"Restart">> # t /\ <<"RestartOverall">> # t
    <2>1. <<"Isolation">>[1] = "Isolation" /\ <<"Restart">>[1] = "Restart"
          /\ <<"RestartOverall">>[1] = "RestartOverall"
        OBVIOUS
    <2>2. (\A x, y : <<x, y>> # t) /\ (\A x, y, z : <<x, y, z>> # t)
        OBVIOUS
    <2> QED BY <2>1, <2>2 DEF Timers
<1> HIDE DEF t
<1>5. ASSUME NEW n, Shape(n),
             n.link = s.link, n.openLinks = s.openLinks, n.heldLinks = s.heldLinks,
             n.restartingSets = s.restartingSets, n.restarting = s.restarting,
             n.guard = s.guard, n.guarded = s.guarded,
             n.status = s.status, n.holding = s.holding, n.deferred = s.deferred, n.mark = s.mark,
             s.timers \ {t} \subseteq n.timers
      PROVE  Sound(n, E)
    <2>1. \A x : Runs(s, E, x) /\ x # t => Runs(n, E, x)
        BY <1>5 DEF Runs
    <2>2. RestartsOk(n, E)
        BY <1>0, <1>4, <1>5, <2>1 DEF RestartsOk
    <2>3. RoutesOk(n, E)
        BY <1>0, <1>4, <1>5, <2>1 DEF RoutesOk, TableOk
    <2>4. ASSUME NEW k \in Link PROVE Base(n, E, k)
        BY <1>0, <1>4, <1>5, <2>1 DEF Base
    <2>5. ASSUME NEW k \in Link PROVE Phased(n, E, k)
        BY <1>0, <1>4, <1>5, <2>1 DEF Phased
    <2> QED BY <1>5, <2>2, <2>3, <2>4, <2>5 DEF Sound, Apart, RestOk
<1>6. CASE isolated = s.isolated
    <2>1. IsolationOk(s, E)
        BY <1>2, <1>3, <1>6 DEF IsolationOk
    <2> QED BY <1>1, <1>6, <2>1 DEF SameRoutes
<1>7. CASE isolated # s.isolated /\ isolated
    <2>1. /\ Shape(b)
          /\ b.link = s.link /\ b.openLinks = s.openLinks /\ b.heldLinks = s.heldLinks
          /\ b.restartingSets = s.restartingSets /\ b.restarting = s.restarting
          /\ b.guard = s.guard /\ b.guarded = s.guarded
          /\ b.status = s.status /\ b.holding = s.holding /\ b.deferred = s.deferred /\ b.mark = s.mark
          /\ s.timers \ {t} \subseteq b.timers /\ t \in b.timers
          /\ b.servers = s.servers /\ b.paused = s.paused /\ b.accessible = s.accessible
        BY <1>0, <1>4 DEF Start, Shape, Fields
    <2> HIDE DEF b
    <2>2. IsolationOk(b, E)
        BY <2>1 DEF IsolationOk, Runs, t
    <2> QED BY <1>1, <1>5, <1>7, <2>1, <2>2 DEF SameRoutes, LinkAvailable
<1>8. CASE isolated # s.isolated /\ ~isolated
    <2>1. /\ Shape(d) /\ d.isolated = FALSE
          /\ d.link = s.link /\ d.openLinks = s.openLinks /\ d.heldLinks = s.heldLinks
          /\ d.restartingSets = s.restartingSets /\ d.restarting = s.restarting
          /\ d.guard = s.guard /\ d.guarded = s.guarded
          /\ d.status = s.status /\ d.holding = s.holding /\ d.deferred = s.deferred /\ d.mark = s.mark
          /\ s.timers \ {t} \subseteq d.timers
          /\ d.servers = s.servers /\ d.paused = s.paused /\ d.accessible = s.accessible
        BY <1>0 DEF Stop, Shape, Fields
    <2> HIDE DEF d
    <2>2. IsolationOk(d, E)
        BY <2>1 DEF IsolationOk
    <2> QED BY <1>1, <1>5, <1>8, <2>1, <2>2 DEF SameRoutes, LinkAvailable
<1> QED BY <1>2, <1>6, <1>7, <1>8

\* What follows every input: what was right is right again, and what is
\* accessible is what can be reached.
LEMMA SettledSound ==
    ASSUME NEW s, NEW E, Sound(s, E), IsolationOk(s, E) \/ \E l \in Link : s.link[l].up
    PROVE  LET n == Settled(s) IN
           /\ Sound(n, E) /\ IsolationOk(n, E)
           /\ n.link = s.link /\ SameRoutes(s, n)
           /\ n.accessible = {d \in Dest : Reachable(n, d)}
<1> DEFINE a == Settle(s)
           n == WatchIsolation(a)
<1>1. Settled(s) = n
    BY DEF Settled
<1>2. Still(s, a) /\ a.accessible = {d \in Dest : Reachable(s, d)}
    BY SettleStill DEF Sound, Apart
<1> HIDE DEF a
<1>3. Sound(a, E) /\ a.link = s.link /\ SameRoutes(s, a)
    BY <1>2, StillKeeps, StillRoutes DEF Keeps, Still
<1>4. IsolationOk(a, E) \/ \E l \in Link : a.link[l].up
    BY <1>2 DEF Still, IsolationOk, Runs
<1>5. /\ Sound(n, E) /\ IsolationOk(n, E)
      /\ n.link = a.link /\ n.accessible = a.accessible /\ SameRoutes(a, n)
    BY <1>3, <1>4, WatchIsolationSound
<1> HIDE DEF n
<1>6. SameRoutes(s, n)
    BY <1>3, <1>5 DEF SameRoutes
<1>7. \A d : Reachable(n, d) <=> Reachable(s, d)
    BY <1>6, SameReach
<1> QED BY <1>1, <1>2, <1>3, <1>5, <1>6, <1>7

----------------------------------------------------------------------------
(* Timers.                                                                 *)

LEMMA TimerIs ==
    ASSUME NEW t \in Timers
    PROVE  \/ \E x \in LinkTimer, l \in Link : t = <<x, l>>
           \/ \E ls \in Linkset : t = <<"AdjacentRestart", ls>> \/ t = <<"RestartAllowed", ls>>
           \/ \E d \in Dest : t = <<"Rerouting", d>>
           \/ \E d \in Pc : t = <<"Prohibited", d>>
           \/ \E d \in Dest, ls \in Linkset : t = <<"RouteSetTest", d, ls>>
           \/ t \in {<<"Restart">>, <<"RestartOverall">>, <<"Isolation">>}
BY DEF Timers

\* A timer that has run out is fed.
LEMMA TimeoutSound ==
    ASSUME NEW s, NEW E, NEW t \in Timers, Sound(s, E \cup {t}), IsolationOk(s, E \cup {t})
    PROVE  LET n == Timeout(s, t) IN
           Sound(n, E) /\ NoneInhibited(s, n) /\ IsolationOk(n, E)
<1> DEFINE n == Timeout(s, t)
<1>1. ASSUME Keeps(s, n, E), t # <<"Isolation">>
      PROVE  Sound(n, E) /\ NoneInhibited(s, n) /\ IsolationOk(n, E)
    <2> HIDE DEF n
    <2>1. IsolationOk(n, E)
        BY <1>1 DEF Keeps, IsolationOk, Runs
    <2> QED BY <1>1, <2>1 DEF Keeps
<1>2. ASSUME NEW x \in LinkTimer, NEW l \in Link, t = <<x, l>>
      PROVE  Keeps(s, n, E) /\ t # <<"Isolation">>
    <2>1. t[1] = x /\ t[2] = l
        BY <1>2
    <2>2. t # <<"Isolation">>
        BY <1>2
    <2>3. CASE x = "Changeover"
        <3>1. n = ChangeoverTimeout(s, l)
            BY <2>1, <2>3 DEF Timeout
        <3> QED BY <1>2, <2>2, <2>3, <3>1, ChangeoverTimeoutKeeps
    <2>4. CASE x = "Changeback"
        <3>1. n = ChangebackTimeout(s, l)
            BY <2>1, <2>4 DEF Timeout
        <3> QED BY <1>2, <2>2, <2>4, <3>1, ChangebackTimeoutKeeps
    <2>5. CASE x = "InhibitTest"
        <3>1. n = InhibitTestTimeout(s, l)
            BY <2>1, <2>5 DEF Timeout
        <3> QED BY <1>2, <2>2, <2>5, <3>1, InhibitTestKeeps
    <2>6. CASE x = "Uninhibit"
        <3>1. n = RepeatUninhibit(s, l)
            BY <2>1, <2>6 DEF Timeout
        <3> QED BY <1>2, <2>2, <2>6, <3>1, RepeatUninhibitKeeps
    <2>7. CASE x = "ForceUninhibit"
        <3>1. n = RepeatForceUninhibit(s, l)
            BY <2>1, <2>7 DEF Timeout
        <3> QED BY <1>2, <2>2, <2>7, <3>1, RepeatForceUninhibitKeeps
    <2> QED BY <2>3, <2>4, <2>5, <2>6, <2>7 DEF LinkTimer
<1>3. ASSUME NEW ls \in Linkset, t = <<"AdjacentRestart", ls>>
      PROVE  Keeps(s, n, E) /\ t # <<"Isolation">>
    <2>1. t[1] = "AdjacentRestart" /\ t[2] = ls
        BY <1>3
    <2>2. t # <<"Isolation">>
        BY <1>3
    <2>3. n = IF ls \in s.restartingSets THEN EndAdjacentRestart(s, ls) ELSE s
        BY <2>1 DEF Timeout
    <2>4. CASE ls \in s.restartingSets
        BY <1>3, <2>2, <2>3, <2>4, EndAdjacentRestartKeeps
    <2>5. CASE ls \notin s.restartingSets
        <3> DEFINE F == E \cup {t}
        <3>1. /\ Shape(s) /\ RoutesOk(s, F) /\ RestartsOk(s, F)
              /\ \A k \in Link : Base(s, F, k) /\ Phased(s, F, k)
            BY DEF Sound, Apart, RestOk
        <3>2. /\ \A x, y : <<x, y>> = t => x = "AdjacentRestart" /\ y = ls
              /\ (\A x : <<x>> # t) /\ (\A x, y, z : <<x, y, z>> # t)
            BY <1>3
        <3>3. \A x : Runs(s, F, x) /\ x # t => Runs(s, E, x)
            BY DEF Runs
        <3> HIDE DEF F
        <3>4. RestartsOk(s, E)
            BY <2>5, <3>1, <3>2, <3>3 DEF RestartsOk
        <3>5. RoutesOk(s, E)
            BY <3>1, <3>2, <3>3 DEF RoutesOk
        <3>6. ASSUME NEW k \in Link PROVE Base(s, E, k)
            BY <3>1, <3>2, <3>3 DEF Base
        <3>7. ASSUME NEW k \in Link PROVE Phased(s, E, k)
            BY <3>1, <3>2, <3>3 DEF Phased
        <3>8. Sound(s, E)
            BY <3>1, <3>4, <3>5, <3>6, <3>7 DEF Sound, Apart, RestOk
        <3> QED BY <2>2, <2>3, <2>5, <3>8, KeepsItself
    <2> QED BY <2>4, <2>5
<1>4. ASSUME NEW ls \in Linkset, t = <<"RestartAllowed", ls>>
      PROVE  Keeps(s, n, E) /\ t # <<"Isolation">>
    <2>1. t[1] = "RestartAllowed" /\ t[2] = ls
        BY <1>4
    <2>2. n = [s EXCEPT !.guard = @ \ {ls}]
        BY <2>1 DEF Timeout
    <2> QED BY <1>4, <2>2, RestartAllowedTimeoutKeeps
<1>5. ASSUME NEW d \in Dest, t = <<"Rerouting", d>>
      PROVE  Keeps(s, n, E) /\ t # <<"Isolation">>
    <2>1. t[1] = "Rerouting" /\ t[2] = d
        BY <1>5
    <2>2. n = ReroutingTimeout(s, d)
        BY <2>1 DEF Timeout
    <2> QED BY <1>5, <2>2, ReroutingTimeoutKeeps
<1>6. ASSUME NEW d \in Pc, t = <<"Prohibited", d>>
      PROVE  Keeps(s, n, E) /\ t # <<"Isolation">>
    <2>1. t[1] = "Prohibited" /\ t[2] = d
        BY <1>6
    <2>2. n = [s EXCEPT !.guarded = @ \ {d}]
        BY <2>1 DEF Timeout
    <2> QED BY <1>6, <2>2, ProhibitedTimeoutKeeps
<1>7. ASSUME NEW d \in Dest, NEW ls \in Linkset, t = <<"RouteSetTest", d, ls>>
      PROVE  Keeps(s, n, E) /\ t # <<"Isolation">>
    <2>1. t[1] = "RouteSetTest" /\ t[2] = d /\ t[3] = ls
        BY <1>7
    <2>2. n = RouteSetTestTimeout(s, d, ls)
        BY <2>1 DEF Timeout
    <2> QED BY <1>7, <2>2, RouteSetTestTimeoutKeeps
<1>8. ASSUME t \in {<<"Restart">>, <<"RestartOverall">>}
      PROVE  Keeps(s, n, E) /\ t # <<"Isolation">>
    <2>1. t[1] \in {"Restart", "RestartOverall"}
        BY <1>8
    <2>2. t # <<"Isolation">>
        BY <1>8
    <2>3. n = EndRestart(s)
        BY <2>1 DEF Timeout
    <2>4. CASE s.restarting
        <3>1. E \cup {t} \subseteq E \cup {<<"Restart">>, <<"RestartOverall">>}
            BY <1>8
        <3> QED BY <2>2, <2>3, <2>4, <3>1, EndRestartKeeps
    <2>5. CASE ~s.restarting
        <3> DEFINE F == E \cup {t}
        <3>1. /\ Shape(s) /\ RoutesOk(s, F) /\ RestartsOk(s, F)
              /\ \A k \in Link : Base(s, F, k) /\ Phased(s, F, k)
            BY DEF Sound, Apart, RestOk
        <3>2. (\A x, y : <<x, y>> # t) /\ (\A x, y, z : <<x, y, z>> # t)
            BY <1>8
        <3>3. \A x : Runs(s, F, x) /\ x # t => Runs(s, E, x)
            BY DEF Runs
        <3> HIDE DEF F
        <3>4. RestartsOk(s, E)
            BY <2>5, <3>1, <3>2, <3>3 DEF RestartsOk
        <3>5. RoutesOk(s, E)
            BY <3>1, <3>2, <3>3 DEF RoutesOk
        <3>6. ASSUME NEW k \in Link PROVE Base(s, E, k)
            BY <3>1, <3>2, <3>3 DEF Base
        <3>7. ASSUME NEW k \in Link PROVE Phased(s, E, k)
            BY <3>1, <3>2, <3>3 DEF Phased
        <3>8. Sound(s, E)
            BY <3>1, <3>4, <3>5, <3>6, <3>7 DEF Sound, Apart, RestOk
        <3>9. n = s
            BY <2>3, <2>5 DEF EndRestart
        <3> QED BY <2>2, <3>8, <3>9, KeepsItself
    <2>6. s.restarting \in BOOLEAN
        BY DEF Sound, Apart, Shape
    <2> QED BY <2>4, <2>5, <2>6
<1>9. ASSUME t = <<"Isolation">>
      PROVE  Sound(n, E) /\ NoneInhibited(s, n) /\ IsolationOk(n, E)
    <2>1. t[1] = "Isolation"
        BY <1>9
    <2>2. n = [s EXCEPT !.restartDue = @ \/ s.isolated]
        BY <2>1 DEF Timeout
    <2>3. Sound(s, E \cup {<<"Isolation">>})
        BY <1>9
    <2> HIDE DEF n
    <2>4. Sound(n, E) /\ NoneInhibited(s, n) /\ (n.isolated => n.restartDue)
        BY <2>2, <2>3, IsolationTimeoutSound
    <2> QED BY <2>4 DEF IsolationOk
<1> HIDE DEF n
<1>10. \/ Keeps(s, n, E) /\ t # <<"Isolation">>
       \/ t = <<"Isolation">>
    BY <1>2, <1>3, <1>4, <1>5, <1>6, <1>7, <1>8, TimerIs
<1> QED BY <1>1, <1>9, <1>10 DEF n

----------------------------------------------------------------------------
(* The task.                                                               *)

\* All of it, between two inputs.
Level3Inv ==
    /\ Sound(m, due) /\ IsolationOk(m, due)
    /\ due \subseteq Timers
    /\ m.accessible = {d \in Dest : Reachable(m, d)}

\* What InhibitionIsolatesNobody says of one step.
Granted ==
    \A l \in Link : ~m.link[l].remoteInhibited /\ m'.link[l].remoteInhibited =>
        m.accessible \subseteq m'.accessible

\* The actions of an input are carried out.
LEMMA ClearedSound ==
    ASSUME NEW s, NEW E, Sound(s, E), IsolationOk(s, E), NEW n, n = [s EXCEPT !.out = <<>>]
    PROVE  /\ Sound(n, E) /\ IsolationOk(n, E)
           /\ n.link = s.link /\ n.accessible = s.accessible /\ SameRoutes(s, n)
<1> DEFINE none == <<>>
<1>1. Shape(s)
    BY DEF Sound, Apart
<1>2. n = [s EXCEPT !.out = none]
    OBVIOUS
<1> HIDE DEF none
<1>3. Still(s, n) /\ n.accessible = s.accessible
    BY <1>1, <1>2 DEF Still, Shape, Fields
<1>4. Keeps(s, n, E)
    BY <1>3, StillKeeps
<1>5. IsolationOk(n, E)
    BY <1>4 DEF Keeps, IsolationOk, Runs
<1> QED BY <1>3, <1>4, <1>5, StillRoutes DEF Keeps, Still

LEMMA SettledStep ==
    ASSUME NEW next, NEW E \in SUBSET Timers, NEW before,
           Becomes(Settled(next), before), due' = E,
           Sound(next, E), IsolationOk(next, E) \/ \E l \in Link : next.link[l].up
    PROVE  Level3Inv' /\ m'.link = next.link /\ SameRoutes(next, m')
<1> DEFINE a == Settled(next)
<1>1. /\ Sound(a, E) /\ IsolationOk(a, E)
      /\ a.link = next.link /\ SameRoutes(next, a)
      /\ a.accessible = {d \in Dest : Reachable(a, d)}
    BY SettledSound
<1>2. m' = [a EXCEPT !.out = <<>>]
    BY DEF Becomes
<1> HIDE DEF a
<1>3. /\ Sound(m', E) /\ IsolationOk(m', E)
      /\ m'.link = a.link /\ m'.accessible = a.accessible /\ SameRoutes(a, m')
    BY <1>1, <1>2, ClearedSound
<1>4. SameRoutes(next, m')
    BY <1>1, <1>3 DEF SameRoutes
<1>5. \A d : Reachable(m', d) <=> Reachable(a, d)
    BY <1>3, SameReach
<1>6. m'.accessible = {d \in Dest : Reachable(m', d)}
    BY <1>1, <1>3, <1>5
<1> QED BY <1>1, <1>3, <1>4, <1>6 DEF Level3Inv

\* An input that inhibits no link.
LEMMA HandledStep ==
    ASSUME NEW next, NEW E \in SUBSET Timers, NEW before,
           Becomes(Settled(next), before), due' = E, NoneInhibited(m, next),
           Sound(next, E), IsolationOk(next, E) \/ \E l \in Link : next.link[l].up
    PROVE  Level3Inv' /\ Granted
<1>1. Level3Inv' /\ m'.link = next.link
    BY SettledStep
<1>2. Granted
    BY <1>1 DEF Granted, NoneInhibited
<1> QED BY <1>1, <1>2

LEMMA KeptStep ==
    ASSUME Level3Inv, NEW next, NEW before, due = {}, UNCHANGED due,
           Becomes(Settled(next), before), Keeps(m, next, {})
    PROVE  Level3Inv' /\ Granted
<1>1. IsolationOk(next, {})
    BY DEF Level3Inv, Keeps, IsolationOk, Runs
<1>2. Sound(next, {}) /\ NoneInhibited(m, next) /\ {} \in SUBSET Timers /\ due' = {}
    BY DEF Keeps
<1> QED BY <1>1, <1>2, HandledStep

LEMMA HandlesStep ==
    ASSUME Level3Inv, NEW next, Handles(next), Keeps(m, next, {})
    PROVE  Level3Inv' /\ Granted
BY KeptStep DEF Handles

\* Between two inputs, when no timer is to be fed.
LEMMA Ready ==
    ASSUME Level3Inv, due = {}
    PROVE  Sound(m, {}) /\ Shape(m) /\ IsolationOk(m, {})
BY DEF Level3Inv, Sound, Apart

\* Granting an inhibition.
LEMMA InhibitsStep ==
    ASSUME Level3Inv, NEW l \in Link, Inhibits(l)
    PROVE  Level3Inv' /\ Granted
<1> DEFINE next == Lin(m, l)
           without == [m EXCEPT !.link[l].phase = "Closed"]
<1>1. Handles(next)
    BY DEF Inhibits
<1>2. due = {} /\ due' = {} /\ {} \in SUBSET Timers /\ Becomes(Settled(next), heard)
    BY <1>1 DEF Handles
<1>3. Sound(m, {}) /\ Shape(m) /\ IsolationOk(m, {})
    BY <1>2, Ready
<1>4. /\ Sound(next, {}) /\ SameIsolation(m, next)
      /\ \/ NoneInhibited(m, next)
         \/ /\ LinkAvailable(m, l) => Spares(m, l)
            /\ Local(m, next, {l}) /\ ~LinkAvailable(next, l)
    BY <1>3, LinSound
<1> HIDE DEF next
<1>5. IsolationOk(next, {})
    BY <1>3, <1>4 DEF SameIsolation, IsolationOk, Runs
<1>6. CASE NoneInhibited(m, next)
    BY <1>2, <1>4, <1>5, <1>6, HandledStep
<1>7. CASE /\ LinkAvailable(m, l) => Spares(m, l)
           /\ Local(m, next, {l}) /\ ~LinkAvailable(next, l)
    <2>1. Level3Inv' /\ SameRoutes(next, m')
        BY <1>2, <1>4, <1>5, SettledStep
    <2>2. \A k \in Link \ {l} : LinkAvailable(next, k) <=> LinkAvailable(m, k)
        BY <1>7 DEF Local, LinkAvailable
    <2>3. ASSUME NEW d \in Dest, Reachable(m, d) PROVE Reachable(next, d)
        <3>1. CASE LinkAvailable(m, l)
            <4>1. Reachable(without, d)
                BY <1>7, <2>3, <3>1 DEF Spares
            <4>2. /\ without.servers = m.servers /\ without.paused = m.paused
                  /\ without.status = m.status
                  /\ \A k \in Link \ {l} : without.link[k] = m.link[k]
                  /\ without.link[l] = [m.link[l] EXCEPT !.phase = "Closed"]
                BY <1>3 DEF Shape, Fields
            <4> HIDE DEF without
            <4>3. without.link[l].phase = "Closed"
                BY <1>3, <4>2, LinkKnown DEF LinkStates
            <4>4. ~LinkAvailable(without, l)
                BY <4>3, PhasesAre DEF LinkAvailable
            <4>5. \A k \in Link \ {l} : LinkAvailable(without, k) <=> LinkAvailable(m, k)
                BY <4>2 DEF LinkAvailable
            <4>6. \A k \in Link : LinkAvailable(next, k) <=> LinkAvailable(without, k)
                BY <1>7, <2>2, <4>4, <4>5
            <4>7. SameRoutes(without, next)
                BY <1>7, <4>2, <4>6 DEF SameRoutes, Local
            <4> QED BY <4>1, <4>7, SameReach
        <3>2. CASE ~LinkAvailable(m, l)
            <4>1. SameRoutes(m, next)
                BY <1>7, <2>2, <3>2 DEF SameRoutes, Local
            <4> QED BY <2>3, <4>1, SameReach
        <3> QED BY <3>1, <3>2
    <2>4. m.accessible \subseteq m'.accessible
        <3>1. \A d : Reachable(m', d) <=> Reachable(next, d)
            BY <2>1, SameReach
        <3>2. m.accessible = {d \in Dest : Reachable(m, d)}
            BY DEF Level3Inv
        <3>3. m'.accessible = {d \in Dest : Reachable(m', d)}
            BY <2>1 DEF Level3Inv
        <3> QED BY <2>3, <3>1, <3>2, <3>3
    <2> QED BY <2>1, <2>4 DEF Granted
<1> QED BY <1>4, <1>6, <1>7

\* The inputs about links.
LEMMA LinkInputStep ==
    ASSUME Level3Inv, NEW l \in Link, LinkInput(l)
    PROVE  Level3Inv' /\ Granted
<1>1. due = {}
    BY DEF LinkInput, LinkComesUp, LinkGoesDown, Xco, Coo, Eco, Xca, Eca, Cba, Inhibits, Uninhibits,
           ForcesUninhibit, UninhibitAcknowledged, LocalInhibitTest, RemoteInhibitTest, Handles
<1>2. Sound(m, {}) /\ Shape(m) /\ IsolationOk(m, {})
    BY <1>1, Ready
<1>3. ASSUME LinkComesUp(l) PROVE Level3Inv' /\ Granted
    <2> DEFINE next == LinkUp(m, l)
    <2>1. Handles(next)
        BY <1>3 DEF LinkComesUp
    <2>2. Sound(next, {}) /\ NoneInhibited(m, next) /\ next.link[l].up
        BY <1>2, LinkUpSound
    <2> HIDE DEF next
    <2>3. due' = {} /\ Becomes(Settled(next), heard) /\ {} \in SUBSET Timers
        BY <2>1 DEF Handles
    <2> QED BY <2>2, <2>3, HandledStep
<1>4. ASSUME LinkGoesDown(l) PROVE Level3Inv' /\ Granted
    <2>1. PICK bsnt \in Fsn : Handles(LinkDown(m, l, bsnt))
        BY <1>4 DEF LinkGoesDown
    <2> QED BY <1>2, <2>1, LinkDownKeeps, HandlesStep
<1>5. ASSUME Xco(l) PROVE Level3Inv' /\ Granted
    <2>1. PICK fsn \in Fsn : Handles(ChangeoverOrder(m, l, fsn, FALSE))
        BY <1>5 DEF Xco
    <2> QED BY <1>2, <2>1, ChangeoverOrderKeeps, HandlesStep
<1>6. ASSUME Coo(l) PROVE Level3Inv' /\ Granted
    <2>1. Keeps(m, ChangeoverOrder(m, l, NoFsn, TRUE), {})
        BY <1>2, ChangeoverOrderKeeps
    <2> QED BY <1>6, <2>1, HandlesStep DEF Coo
<1>7. ASSUME Eco(l) PROVE Level3Inv' /\ Granted
    <2>1. Keeps(m, ChangeoverOrder(m, l, NoFsn, FALSE), {})
        BY <1>2, ChangeoverOrderKeeps
    <2> QED BY <1>7, <2>1, HandlesStep DEF Eco
<1>8. ASSUME Xca(l) \/ Eca(l) PROVE Level3Inv' /\ Granted
    <2>1. PICK fsn : Handles(ChangeoverAcknowledgement(m, l, fsn))
        BY <1>8 DEF Xca, Eca
    <2> QED BY <1>2, <2>1, ChangeoverAcknowledgementKeeps, HandlesStep
<1>9. ASSUME Cba(l) PROVE Level3Inv' /\ Granted
    <2>1. PICK k : Handles(ChangebackAcknowledgement(m, l, k))
        BY <1>9 DEF Cba
    <2> QED BY <1>2, <2>1, ChangebackAcknowledgementKeeps, HandlesStep
<1>10. ASSUME Uninhibits(l) PROVE Level3Inv' /\ Granted
    BY <1>2, <1>10, LunKeeps, HandlesStep DEF Uninhibits
<1>11. ASSUME ForcesUninhibit(l) PROVE Level3Inv' /\ Granted
    <2>1. Keeps(m, Lfu(m, l), {})
        BY <1>2, SendAboutStill, StillKeeps DEF Lfu
    <2> QED BY <1>11, <2>1, HandlesStep DEF ForcesUninhibit
<1>12. ASSUME UninhibitAcknowledged(l) PROVE Level3Inv' /\ Granted
    BY <1>2, <1>12, LuaKeeps, HandlesStep DEF UninhibitAcknowledged
<1>13. ASSUME LocalInhibitTest(l) PROVE Level3Inv' /\ Granted
    BY <1>2, <1>13, LltKeeps, HandlesStep DEF LocalInhibitTest
<1>14. ASSUME RemoteInhibitTest(l) PROVE Level3Inv' /\ Granted
    BY <1>2, <1>14, LrtKeeps, HandlesStep DEF RemoteInhibitTest
<1> QED BY <1>3, <1>4, <1>5, <1>6, <1>7, <1>8, <1>9, <1>10, <1>11, <1>12, <1>13, <1>14,
           InhibitsStep DEF LinkInput

\* The inputs about routes, and the messages of the adjacent points.
LEMMA RouteInputStep ==
    ASSUME Level3Inv, NEW ls \in Linkset, NEW d \in Pc, RouteInput(ls, d)
    PROVE  Level3Inv' /\ Granted
<1>1. due = {}
    BY DEF RouteInput, Tfp, Tfr, Tfa, Rst, Rsr, Handles
<1>2. Sound(m, {}) /\ Shape(m)
    BY <1>1, Ready
<1>3. {"Prohibited", "Restricted", "Allowed"} \subseteq RouteStatus
    BY DEF RouteStatus
<1>4. \A status \in RouteStatus : Keeps(m, RouteMessage(m, ls, d, status), {})
    BY <1>2, RouteMessageKeeps
<1>5. \A believes : Keeps(m, RouteSetTest(m, ls, d, believes), {})
    BY <1>2, RouteSetTestStill, StillKeeps
<1>6. \/ \E status \in RouteStatus : Handles(RouteMessage(m, ls, d, status))
      \/ \E believes : Handles(RouteSetTest(m, ls, d, believes))
    BY <1>3 DEF RouteInput, Tfp, Tfr, Tfa, Rst, Rsr
<1> QED BY <1>4, <1>5, <1>6, HandlesStep

LEMMA AdjacentInputStep ==
    ASSUME Level3Inv, NEW ls \in Linkset, TraArrives(ls) \/ Cbd(ls)
    PROVE  Level3Inv' /\ Granted
<1>1. CASE TraArrives(ls)
    <2> DEFINE next == TrafficRestartAllowed(m, ls)
               before == {pair \in heard : pair[1] # ls \/ ~Restarted(ls)}
    <2>1. due = {} /\ UNCHANGED due /\ Becomes(Settled(next), before)
        BY <1>1 DEF TraArrives
    <2>2. Keeps(m, next, {})
        BY <2>1, Ready, TrafficRestartAllowedKeeps
    <2> HIDE DEF next, before
    <2> QED BY <2>1, <2>2, KeptStep
<1>2. CASE Cbd(ls)
    <2> DEFINE message == [name |-> "CBA"]
    <2>1. Handles(Tell(m, ls, message))
        BY <1>2 DEF Cbd
    <2> HIDE DEF message
    <2>2. due = {}
        BY <2>1 DEF Handles
    <2>3. Keeps(m, Tell(m, ls, message), {})
        BY <2>2, Ready, TellStill, StillKeeps
    <2> QED BY <2>1, <2>3, HandlesStep
<1> QED BY <1>1, <1>2

\* The application servers and the transfer path.
LEMMA ServerStep ==
    ASSUME Level3Inv, NEW x, ServerChanges(x) \/ DestinationPauses(x)
    PROVE  Level3Inv' /\ Granted
<1> DEFINE v == IF x \in m.servers THEN m.servers \ {x} ELSE m.servers \cup {x}
           w == IF x \in m.paused THEN m.paused \ {x} ELSE m.paused \cup {x}
           a == [m EXCEPT !.servers = v]
           b == [m EXCEPT !.paused = w]
<1>1. Handles(a) \/ Handles(b)
    BY DEF ServerChanges, DestinationPauses
<1>2. due = {}
    BY <1>1 DEF Handles
<1>3. Sound(m, {}) /\ Shape(m)
    BY <1>2, Ready
<1> HIDE DEF v, w
<1>4. ASSUME NEW n \in {a, b} PROVE Keeps(m, n, {})
    <2>1. /\ Guarded(m, n) /\ n.guard = m.guard /\ n.guarded = m.guarded
          /\ n.timers = m.timers /\ n.restartDue = m.restartDue
        BY <1>3, <1>4 DEF Guarded, Shape, Fields
    <2>2. RoutesOk(m, {})
        BY <1>3 DEF Sound, Apart, RestOk
    <2>3. /\ \A g \in n.guard : Runs(n, {}, <<"RestartAllowed", g>>)
          /\ \A g \in n.guarded : Runs(n, {}, <<"Prohibited", g>>)
        BY <2>1, <2>2 DEF RoutesOk, Runs
    <2>4. Sound(n, {}) /\ NoneInhibited(m, n)
        BY <1>3, <2>1, <2>3, GuardedSound
    <2> QED BY <2>1, <2>4 DEF Keeps, Guarded
<1> HIDE DEF a, b
<1> QED BY <1>1, <1>4, HandlesStep

LEMMA UnroutableStep ==
    ASSUME Level3Inv, NEW d \in Pc, NEW l \in Link, CannotTransfer(d, l)
    PROVE  Level3Inv' /\ Granted
<1> DEFINE a == Unroutable(m, d, l)
<1>1. due = {} /\ due' = {} /\ Becomes(a, heard)
    BY DEF CannotTransfer
<1>2. Sound(m, {}) /\ Shape(m) /\ IsolationOk(m, {})
    BY <1>1, Ready
<1>3. Still(m, a) /\ a.accessible = m.accessible
    BY <1>2, UnroutableStill
<1>4. m' = [a EXCEPT !.out = <<>>]
    BY <1>1 DEF Becomes
<1> HIDE DEF a
<1>5. Keeps(m, a, {}) /\ SameRoutes(m, a)
    BY <1>2, <1>3, StillKeeps, StillRoutes
<1>6. Sound(a, {}) /\ IsolationOk(a, {})
    BY <1>2, <1>5 DEF Keeps, IsolationOk, Runs
<1>7. /\ Sound(m', {}) /\ IsolationOk(m', {})
      /\ m'.link = a.link /\ m'.accessible = a.accessible /\ SameRoutes(a, m')
    BY <1>4, <1>6, ClearedSound
<1>8. \A k : Reachable(m', k) <=> Reachable(m, k)
    BY <1>5, <1>7, SameReach
<1>9. m'.accessible = m.accessible /\ m'.accessible = {k \in Dest : Reachable(m', k)}
    BY <1>3, <1>7, <1>8 DEF Level3Inv
<1> QED BY <1>1, <1>7, <1>9 DEF Level3Inv, Granted

\* The clock.
LEMMA TimersRunOutStep ==
    ASSUME Level3Inv, NEW t, NEW also, also \subseteq m.timers, TimersRunOut(t, also)
    PROVE  Level3Inv' /\ Granted
<1> DEFINE taken == {t} \cup also
           s == [m EXCEPT !.timers = @ \ taken]
           next == Timeout(s, t)
           F == also \cup {t}
<1>1. due = {} /\ t \in m.timers /\ Becomes(Settled(next), heard) /\ due' = also
    BY DEF TimersRunOut
<1>2. Sound(m, {}) /\ Shape(m) /\ IsolationOk(m, {})
    BY <1>1, Ready
<1>3. t \in Timers /\ also \in SUBSET Timers /\ taken \subseteq F
    BY <1>1, <1>2 DEF Shape
<1> HIDE DEF taken
<1>4. /\ Shape(s) /\ s.link = m.link /\ s.openLinks = m.openLinks /\ s.heldLinks = m.heldLinks
      /\ s.restartingSets = m.restartingSets /\ s.restarting = m.restarting
      /\ s.guard = m.guard /\ s.guarded = m.guarded
      /\ s.status = m.status /\ s.holding = m.holding /\ s.deferred = m.deferred /\ s.mark = m.mark
      /\ s.isolated = m.isolated /\ s.restartDue = m.restartDue
      /\ s.timers = m.timers \ taken
    BY <1>2 DEF Shape, Fields
<1> HIDE DEF s, F
<1>5. \A x : Runs(m, {}, x) => Runs(s, F, x)
    BY <1>3, <1>4 DEF Runs
<1>6. /\ RoutesOk(m, {}) /\ RestartsOk(m, {})
      /\ \A k \in Link : Base(m, {}, k) /\ Phased(m, {}, k)
    BY <1>2 DEF Sound, Apart, RestOk
<1>7. RestartsOk(s, F)
    BY <1>4, <1>5, <1>6 DEF RestartsOk
<1>8. RoutesOk(s, F)
    BY <1>4, <1>5, <1>6 DEF RoutesOk, TableOk
<1>9. ASSUME NEW k \in Link PROVE Base(s, F, k)
    BY <1>4, <1>5, <1>6 DEF Base
<1>10. ASSUME NEW k \in Link PROVE Phased(s, F, k)
    BY <1>4, <1>5, <1>6 DEF Phased
<1>11. Sound(s, F) /\ IsolationOk(s, F)
    BY <1>2, <1>4, <1>5, <1>7, <1>8, <1>9, <1>10 DEF Sound, Apart, RestOk, IsolationOk
<1>12. Sound(next, also) /\ NoneInhibited(s, next) /\ IsolationOk(next, also)
    BY <1>3, <1>11, TimeoutSound DEF F
<1>13. NoneInhibited(m, next)
    BY <1>4, <1>12 DEF NoneInhibited
<1> HIDE DEF next
<1> QED BY <1>1, <1>3, <1>12, <1>13, HandledStep

LEMMA NextOfDueStep ==
    ASSUME Level3Inv, NextOfDue
    PROVE  Level3Inv' /\ Granted
<1>1. PICK t \in due : Becomes(Settled(Timeout(m, t)), heard) /\ due' = due \ {t}
    BY DEF NextOfDue
<1> DEFINE E == due \ {t}
           next == Timeout(m, t)
<1>2. E \cup {t} = due /\ t \in Timers /\ E \in SUBSET Timers
    BY DEF Level3Inv
<1> HIDE DEF E
<1>3. Sound(m, E \cup {t}) /\ IsolationOk(m, E \cup {t})
    BY <1>2 DEF Level3Inv
<1>4. Sound(next, E) /\ NoneInhibited(m, next) /\ IsolationOk(next, E)
    BY <1>2, <1>3, TimeoutSound
<1>5. Becomes(Settled(next), heard) /\ due' = E
    BY <1>1 DEF E
<1> HIDE DEF next
<1> QED BY <1>2, <1>4, <1>5, HandledStep

----------------------------------------------------------------------------
(* The inductive invariant.                                                *)

\* At first every link is closed, so that nothing can be reached.
LEMMA NewManagementInv ==
    ASSUME NEW s, s = NewManagement
    PROVE  /\ Sound(s, {}) /\ IsolationOk(s, {})
           /\ s.accessible = {d \in Dest : Reachable(s, d)}
<1> DEFINE n == NewLink
           f == [l \in Link |-> n]
<1>1. NoOrder \in Orders
    BY DEF NoOrder, Orders
<1>2. n \in LinkStates
    BY <1>1, FsnAssumption DEF NewLink, LinkStates, Phase
<1>3. /\ n.phase = "Closed" /\ ~n.up /\ ~n.remoteInhibited /\ n.ordered = NoOrder
      /\ n.uninhibitAttempts = 0 /\ n.forceAttempts = 0
    BY DEF NewLink
<1> HIDE DEF n
<1>4. f \in [Link -> LinkStates] /\ \A l \in Link : f[l] = n
    BY <1>2
<1>5. /\ s.link = f
      /\ s.restartingSets = {} /\ s.guard = {}
      /\ s.servers = {} /\ s.paused = {} /\ s.accessible = {}
      /\ s.status = {} /\ s.holding = {} /\ s.deferred = {} /\ s.guarded = {}
      /\ s.restarting = FALSE /\ s.restartDue = TRUE /\ s.isolated = TRUE
      /\ s.timers = {} /\ s.heldLinks = {} /\ s.openLinks = {} /\ s.mark = {}
      /\ DOMAIN s = Fields
    BY DEF NewManagement, Fields, n
<1> HIDE DEF f
<1>6. Shape(s)
    BY <1>4, <1>5 DEF Shape
<1>7. RestOk(s, {})
    BY <1>5 DEF RestOk, RoutesOk, RestartsOk, TableOk
<1>8. ASSUME NEW l \in Link PROVE Base(s, {}, l) /\ Phased(s, {}, l)
    <2>1. s.link[l] = n
        BY <1>4, <1>5
    <2> QED BY <1>3, <1>5, <2>1 DEF Base, Phased, Carrying, Changeover, Declared, NoOrder
<1>9. Sound(s, {}) /\ IsolationOk(s, {})
    BY <1>5, <1>6, <1>7, <1>8 DEF Sound, Apart, IsolationOk
<1>10. ASSUME NEW d \in Dest, NEW r \in RoutesOf(d) PROVE Usable(s, d, r) = "No"
    <2> DEFINE via == Routes[d][r].via
    <2> DEFINE route == [via : Linkset \cup Server, priority : Nat]
    <2>0. Routes[d] \in Seq(route) /\ r \in DOMAIN Routes[d]
        BY RoutesAssumption DEF RoutesOf
    <2>1. Routes[d][r] \in route
        <3> HIDE DEF route
        <3> QED BY <2>0
    <2>2. via \in Linkset \cup Server
        BY <2>1
    <2>3. ASSUME via \in Linkset PROVE ~LinksetAvailable(s, via)
        <3>1. \A l \in LinksOf[via] : l \in Link
            BY <2>3 DEF LinksOf
        <3>2. \A l \in Link : s.link[l].phase = "Closed"
            BY <1>3, <1>4, <1>5
        <3> QED BY <3>1, <3>2 DEF LinksetAvailable, LinkAvailable, Carrying, Declared
    <2> HIDE DEF via
    <2>4. CASE via \in Server
        <3>1. via \notin Linkset /\ d \notin s.paused /\ via \notin s.servers
            BY <1>5, <2>4, ServerAssumption
        <3> DEFINE some == IF via \in s.servers THEN "Yes" ELSE "No"
        <3>2. Usable(s, d, r) = some
            BY <2>4, <3>1 DEF Usable, via
        <3> QED BY <3>1, <3>2
    <2>5. CASE via \in Linkset
        <3>1. via \notin Server
            BY <2>5, ServerAssumption
        <3> QED BY <1>5, <2>3, <2>5, <3>1 DEF Usable, via
    <2> QED BY <2>2, <2>4, <2>5
<1>11. ASSUME NEW d \in Dest PROVE InUse(s, d) = {}
    <2>1. {r \in RoutesOf(d) : Usable(s, d, r) # "No"} = {}
        BY <1>10
    <2>2. FirstTier(d, {}) = {}
        BY DEF FirstTier
    <2>3. Unrestricted(s, d, {}) = {}
        BY DEF Unrestricted
    <2> QED BY <2>1, <2>2, <2>3 DEF InUse
<1>12. s.accessible = {d \in Dest : Reachable(s, d)}
    BY <1>5, <1>11 DEF Reachable
<1> QED BY <1>9, <1>12

LEMMA InitInv == Init => Level3Inv
<1> SUFFICES ASSUME Init PROVE Level3Inv
    OBVIOUS
<1>1. m = NewManagement /\ due = {}
    BY DEF Init
<1> QED BY <1>1, NewManagementInv DEF Level3Inv

LEMMA NextInv == Level3Inv /\ [Next]_vars => Level3Inv' /\ Granted
<1> SUFFICES ASSUME Level3Inv, [Next]_vars PROVE Level3Inv' /\ Granted
    OBVIOUS
<1>1. CASE \E l \in Link : LinkInput(l)
    BY <1>1, LinkInputStep
<1>2. CASE \E ls \in Linkset : TraArrives(ls) \/ Cbd(ls)
    BY <1>2, AdjacentInputStep
<1>3. CASE \E ls \in Linkset, d \in Pc : RouteInput(ls, d)
    BY <1>3, RouteInputStep
<1>4. CASE \E s \in episode.serving : ServerChanges(s)
    BY <1>4, ServerStep
<1>5. CASE \E d \in Dest : "Pause" \in episode.messages /\ DestinationPauses(d)
    BY <1>5, ServerStep
<1>6. CASE \E d \in Pc, l \in Link : "Unroutable" \in episode.messages /\ CannotTransfer(d, l)
    BY <1>6, UnroutableStep
<1>7. CASE \E t \in m.timers : TimerRunsOut(t)
    BY <1>7, TimersRunOutStep DEF TimerRunsOut
<1>8. CASE TwoTimersRunOut
    <2>1. PICK t \in m.timers, u \in m.timers : TimersRunOut(t, {u})
        BY <1>8 DEF TwoTimersRunOut
    <2>2. {u} \subseteq m.timers
        OBVIOUS
    <2> QED BY <2>1, <2>2, TimersRunOutStep
<1>9. CASE NextOfDue
    BY <1>9, NextOfDueStep
<1>10. CASE UNCHANGED vars
    <2>1. m' = m /\ due' = due
        BY <1>10 DEF vars
    <2>2. \A d : Reachable(m', d) <=> Reachable(m, d)
        BY <2>1
    <2> QED BY <2>1, <2>2 DEF Level3Inv, Granted
<1> QED BY <1>1, <1>2, <1>3, <1>4, <1>5, <1>6, <1>7, <1>8, <1>9, <1>10 DEF Next

----------------------------------------------------------------------------

\* The inductive invariant of management, with timers that have run out and are
\* still to be fed: every link is where its phase says, whatever waits is timed,
\* the table agrees with what adjacent points said, and what settle keeps as
\* accessible is what can be reached.
THEOREM ManagementInvariant == Spec => []Level3Inv
<1>1. Level3Inv /\ [Next]_vars => Level3Inv'
    BY NextInv
<1> QED BY <1>1, InitInv, PTL DEF Spec

\* feed and timeout: no phase, restart, hold or attempt outlives its timer,
\* also when two timers ran out together and the first stops or starts the other.
THEOREM WaitsAreTimed == Spec => []EveryWaitIsTimed
<1>1. ASSUME Level3Inv PROVE EveryWaitIsTimed
    <2>1. \A t : Runs(m, due, t) <=> t \in Running
        BY DEF Runs, Running
    <2>2. /\ RoutesOk(m, due) /\ RestartsOk(m, due) /\ IsolationOk(m, due)
          /\ \A l \in Link : Base(m, due, l) /\ Phased(m, due, l)
        BY <1>1 DEF Level3Inv, Sound, Apart, RestOk
    <2>3. ASSUME NEW l \in Link
          PROVE  /\ m.link[l].phase \in Changeover => <<"Changeover", l>> \in Running
                 /\ m.link[l].phase \in Declared \union {"ChangebackTimed"} =>
                        <<"Changeback", l>> \in Running
                 /\ m.link[l].remoteInhibited => <<"InhibitTest", l>> \in Running
                 /\ m.link[l].uninhibitAttempts > 0 => <<"Uninhibit", l>> \in Running
                 /\ m.link[l].forceAttempts > 0 => <<"ForceUninhibit", l>> \in Running
        BY <2>1, <2>2 DEF Base, Phased
    <2>4. /\ \A ls \in m.guard : <<"RestartAllowed", ls>> \in Running
          /\ \A d \in m.holding : <<"Rerouting", d>> \in Running
          /\ \A s \in m.status : <<"RouteSetTest", s[1], Routes[s[1]][s[2]].via>> \in Running
          /\ \A d \in m.guarded : <<"Prohibited", d>> \in Running
        BY <2>1, <2>2 DEF RoutesOk
    <2>5. /\ \A ls \in m.restartingSets : <<"AdjacentRestart", ls>> \in Running
          /\ m.restarting => <<"Restart">> \in Running \/ <<"RestartOverall">> \in Running
          /\ m.isolated => m.restartDue \/ <<"Isolation">> \in Running
        BY <2>1, <2>2 DEF RestartsOk, IsolationOk
    <2> QED BY <2>3, <2>4, <2>5 DEF EveryWaitIsTimed
<1> QED BY <1>1, ManagementInvariant, PTL

\* link_up, link_down, complete_changeover, inhibit_message and the restarts: a
\* link that could carry traffic does or is on its way to, and its task was told
\* to hold, open or divert as its phase says.
THEOREM LinksAreRemembered == Spec => []NoLinkIsForgotten
<1>1. Level3Inv => NoLinkIsForgotten
    BY DEF Level3Inv, Sound, Apart, Base, Phased, NoLinkIsForgotten
<1> QED BY <1>1, ManagementInvariant, PTL

\* mark_route, apply_deferred and note_route_status: the routing table, which the
\* transfer path reads, never leads to a point that said it cannot transfer.
THEOREM TableFollows == Spec => []TableIsRight
<1>1. ASSUME Level3Inv PROVE TableIsRight
    <2>1. TableOk(m)
        BY <1>1 DEF Level3Inv, Sound, Apart, RestOk, RoutesOk
    <2>2. ASSUME NEW d \in Dest, NEW ls \in Linkset, RoutesThrough(d, ls) # {}
          PROVE  /\ <<d, FirstRouteThrough(d, ls), "Prohibited">> \in m.status =>
                        <<d, ls, "Prohibited">> \in m.mark
                 /\ <<d, ls, "Prohibited">> \in m.mark =>
                        \/ <<d, FirstRouteThrough(d, ls), "Prohibited">> \in m.status
                        \/ d \in m.holding
        BY <2>1, <2>2 DEF TableOk
    <2> QED BY <2>2 DEF TableIsRight
<1> QED BY <1>1, ManagementInvariant, PTL

\* inhibit_message and would_isolate: a link that the far end inhibits takes no
\* destination away, whatever changeover, diversion and settling follow the grant.
THEOREM InhibitingIsolatesNobody == Spec => InhibitionIsolatesNobody
<1>1. Level3Inv /\ [Next]_vars =>
          [\A l \in Link : ~m.link[l].remoteInhibited /\ m'.link[l].remoteInhibited =>
              m.accessible \subseteq m'.accessible]_vars
    BY NextInv DEF Granted
<1> QED BY <1>1, ManagementInvariant, PTL DEF Spec, InhibitionIsolatesNobody


----------------------------------------------------------------------------
(* What is sent in one input, and what the adjacent points make of it.     *)

\* What has been heard once the actions of out were carried out.
Heard(out, before) ==
    LET heardOf[n \in 0 .. Len(out)] ==
            IF n = 0 THEN before ELSE Hears(heardOf[n - 1], out[n])
    IN  heardOf[Len(out)]

Listed(out) == \E A : out \in Seq(A)

HeardUp(f, n, out, before) ==
    f = [k \in 0 .. n |-> IF k = 0 THEN before ELSE Hears(f[k - 1], out[k])]

\* What is heard is worked out action by action.
LEMMA HeardExists ==
    ASSUME NEW n \in Nat, NEW out, NEW before
    PROVE  \E f : HeardUp(f, n, out, before)
<1> DEFINE T == {k \in 0 .. n : \E f : HeardUp(f, k, out, before)}
<1>1. 0 \in T
    <2> DEFINE g == [k \in 0 .. 0 |-> before]
    <2>1. g = [k \in 0 .. 0 |-> IF k = 0 THEN before ELSE Hears(g[k - 1], out[k])]
        OBVIOUS
    <2>2. HeardUp(g, 0, out, before)
        <3> HIDE DEF g
        <3> QED BY <2>1 DEF HeardUp
    <2> QED BY <2>2
<1>2. ASSUME NEW k \in 0 .. n - 1, k \in T PROVE k + 1 \in T
    <2>1. PICK f : f = [j \in 0 .. k |-> IF j = 0 THEN before ELSE Hears(f[j - 1], out[j])]
        BY <1>2 DEF HeardUp
    <2> DEFINE g == [j \in 0 .. k + 1 |-> IF j = k + 1 THEN Hears(f[k], out[k + 1]) ELSE f[j]]
    <2>2. ASSUME NEW j \in 0 .. k + 1
          PROVE  g[j] = IF j = 0 THEN before ELSE Hears(g[j - 1], out[j])
        <3>1. CASE j = k + 1
            BY <3>1
        <3>2. CASE j \in 0 .. k
            <4>1. f[j] = IF j = 0 THEN before ELSE Hears(f[j - 1], out[j])
                BY <2>1, <3>2
            <4> QED BY <3>2, <4>1
        <3> QED BY <3>1, <3>2
    <2>3. g = [j \in 0 .. k + 1 |-> IF j = 0 THEN before ELSE Hears(g[j - 1], out[j])]
        BY <2>2
    <2>4. HeardUp(g, k + 1, out, before)
        <3> HIDE DEF g
        <3> QED BY <2>3 DEF HeardUp
    <2> QED BY <2>4
<1>3. 0 .. n \subseteq T
    <2>1. \A k \in 0 .. n - 1 : k \in T => k + 1 \in T
        BY <1>2
    <2> HIDE DEF T
    <2> QED BY <1>1, <2>1, Upward
<1> QED BY <1>3

LEMMA HeardIs ==
    ASSUME NEW out, Len(out) \in Nat, NEW before
    PROVE  \E f : HeardUp(f, Len(out), out, before) /\ Heard(out, before) = f[Len(out)]
<1> DEFINE n == Len(out)
           F == CHOOSE F : F = [k \in 0 .. n |-> IF k = 0 THEN before ELSE Hears(F[k - 1], out[k])]
<1>1. Heard(out, before) = F[n]
    BY DEF Heard
<1>2. \E f : f = [k \in 0 .. n |-> IF k = 0 THEN before ELSE Hears(f[k - 1], out[k])]
    <2>1. \E f : HeardUp(f, n, out, before)
        BY HeardExists
    <2> QED BY <2>1, Zenon DEF HeardUp
<1>3. F = [k \in 0 .. n |-> IF k = 0 THEN before ELSE Hears(F[k - 1], out[k])]
    BY <1>2, Zenon
<1> HIDE DEF F
<1> QED BY <1>1, <1>3 DEF HeardUp

LEMMA HeardNothing ==
    ASSUME NEW before
    PROVE  Heard(<<>>, before) = before
<1> DEFINE none == <<>>
<1>1. Len(none) = 0
    OBVIOUS
<1> HIDE DEF none
<1>2. PICK f : HeardUp(f, 0, none, before) /\ Heard(none, before) = f[0]
    BY <1>1, HeardIs
<1> QED BY <1>2 DEF HeardUp, none

LEMMA HeardMore ==
    ASSUME NEW out, Listed(out), NEW action, NEW before
    PROVE  /\ Listed(Append(out, action))
           /\ Heard(Append(out, action), before) = Hears(Heard(out, before), action)
<1> DEFINE more == Append(out, action)
           n == Len(out)
<1>1. PICK A : out \in Seq(A)
    BY DEF Listed
<1>2. /\ n \in Nat /\ more \in Seq(A \cup {action}) /\ Len(more) = n + 1
      /\ more[n + 1] = action /\ \A k \in 1 .. n : more[k] = out[k]
    <2>1. out \in Seq(A \cup {action}) /\ action \in A \cup {action}
        BY <1>1
    <2> QED BY <2>1
<1> HIDE DEF more, n
<1>3. PICK f : HeardUp(f, n, out, before) /\ Heard(out, before) = f[n]
    BY <1>2, HeardIs DEF n
<1>4. PICK g : HeardUp(g, n + 1, more, before) /\ Heard(more, before) = g[n + 1]
    BY <1>2, HeardIs
<1>5. /\ f[0] = before /\ \A k \in 1 .. n : f[k] = Hears(f[k - 1], out[k])
      /\ g[0] = before /\ \A k \in 1 .. n + 1 : g[k] = Hears(g[k - 1], more[k])
    BY <1>2, <1>3, <1>4 DEF HeardUp
<1>6. f[n] = g[n]
    <2> DEFINE T == {k \in 0 .. n : f[k] = g[k]}
    <2>1. 0 \in T
        BY <1>2, <1>5
    <2>2. \A k \in 0 .. n - 1 : k \in T => k + 1 \in T
        BY <1>2, <1>5
    <2>3. 0 .. n \subseteq T
        <3> HIDE DEF T
        <3> QED BY <1>2, <2>1, <2>2, Upward
    <2> QED BY <1>2, <2>3
<1>7. g[n + 1] = Hears(g[n], action)
    BY <1>2, <1>5
<1> QED BY <1>2, <1>3, <1>4, <1>6, <1>7 DEF Listed, more

\* A point that cannot be reached any more forgets.
LEMMA AfterIs ==
    ASSUME NEW next, NEW before
    PROVE  After(next, before) = {pair \in Heard(next.out, before) : CanTell(next, pair[1])}
BY DEF After, Heard

----------------------------------------------------------------------------
(* Actions that invite nobody, and actions that no point takes notice of.  *)

Uninvited(out) == \A i \in DOMAIN out : Invites(out[i]) = {}

\* More actions, of which the adjacent points take no notice.
Mute(o, p) ==
    Listed(o) =>
        /\ Listed(p)
        /\ \A before : Heard(p, before) = Heard(o, before)
        /\ ToldTooLate(p) => ToldTooLate(o)

\* More actions, that also let no traffic go on.
Plain(o, p) == Mute(o, p) /\ (Listed(o) /\ Uninvited(o) => Uninvited(p))

LEMMA MuteOn ==
    ASSUME NEW o, NEW p, NEW q, Mute(o, p), Mute(p, q)
    PROVE  Mute(o, q)
BY DEF Mute

LEMMA PlainOn ==
    ASSUME NEW o, NEW p, NEW q, Plain(o, p), Plain(p, q)
    PROVE  Plain(o, q)
BY DEF Plain, Mute

LEMMA PlainItself ==
    ASSUME NEW o
    PROVE  Plain(o, o)
BY DEF Plain, Mute

LEMMA UninvitedInTime ==
    ASSUME NEW out, Uninvited(out)
    PROVE  ~ToldTooLate(out)
BY DEF Uninvited, ToldTooLate

\* One more action.
LEMMA AppendIs ==
    ASSUME NEW out, Listed(out), NEW action
    PROVE  /\ Len(out) \in Nat /\ DOMAIN out = 1 .. Len(out)
           /\ DOMAIN Append(out, action) = 1 .. Len(out) + 1
           /\ Append(out, action)[Len(out) + 1] = action
           /\ \A k \in 1 .. Len(out) : Append(out, action)[k] = out[k]
<1>1. PICK A : out \in Seq(A)
    BY DEF Listed
<1>2. out \in Seq(A \cup {action}) /\ action \in A \cup {action}
    BY <1>1
<1> QED BY <1>2

\* One more action that is no broadcast is not too late.
LEMMA InTimeMore ==
    ASSUME NEW out, Listed(out), NEW action, action.do # "Broadcast",
           ToldTooLate(Append(out, action))
    PROVE  ToldTooLate(out)
<1> DEFINE more == Append(out, action)
           n == Len(out)
<1>1. /\ n \in Nat /\ DOMAIN out = 1 .. n /\ DOMAIN more = 1 .. n + 1
      /\ more[n + 1] = action /\ \A k \in 1 .. n : more[k] = out[k]
    BY AppendIs
<1>2. PICK i \in DOMAIN more, j \in DOMAIN more :
          /\ i < j /\ more[j].do = "Broadcast"
          /\ \E pair \in more[j].tfp : pair[1] \in Invites(more[i])
    BY DEF ToldTooLate
<1> HIDE DEF more, n
<1>3. j \in 1 .. n /\ i \in 1 .. n
    BY <1>1, <1>2
<1>4. more[i] = out[i] /\ more[j] = out[j]
    BY <1>1, <1>3
<1> QED BY <1>1, <1>2, <1>3, <1>4 DEF ToldTooLate

\* A broadcast is in time for those that are not yet invited.
LEMMA InTimeBroadcast ==
    ASSUME NEW out, Listed(out), ~ToldTooLate(out), NEW action,
           Uninvited(out) \/ action.tfp = {}
    PROVE  ~ToldTooLate(Append(out, action))
<1> SUFFICES ASSUME ToldTooLate(Append(out, action)) PROVE FALSE
    OBVIOUS
<1> DEFINE more == Append(out, action)
           n == Len(out)
<1>1. /\ n \in Nat /\ DOMAIN out = 1 .. n /\ DOMAIN more = 1 .. n + 1
      /\ more[n + 1] = action /\ \A k \in 1 .. n : more[k] = out[k]
    BY AppendIs
<1>2. PICK i \in DOMAIN more, j \in DOMAIN more :
          /\ i < j /\ more[j].do = "Broadcast"
          /\ \E pair \in more[j].tfp : pair[1] \in Invites(more[i])
    BY DEF ToldTooLate
<1> HIDE DEF more, n
<1>3. i \in 1 .. n /\ more[i] = out[i]
    BY <1>1, <1>2
<1>4. CASE j \in 1 .. n
    <2>1. more[j] = out[j]
        BY <1>1, <1>4
    <2> QED BY <1>1, <1>2, <1>3, <1>4, <2>1 DEF ToldTooLate
<1>5. CASE j = n + 1
    <2>1. more[j] = action
        BY <1>1, <1>5
    <2> QED BY <1>1, <1>2, <1>3, <2>1 DEF Uninvited
<1> QED BY <1>1, <1>2, <1>4, <1>5

\* Nobody takes notice of it.
Unheard(action) ==
    /\ action.do # "Broadcast"
    /\ action.do = "Send" => action.message.name \notin {"TFP", "TFA"}

LEMMA UnheardHears ==
    ASSUME NEW action, Unheard(action), NEW pairs
    PROVE  Hears(pairs, action) = pairs
BY DEF Unheard, Hears

LEMMA MuteMore ==
    ASSUME NEW out, NEW action, Unheard(action)
    PROVE  Mute(out, Append(out, action))
<1> SUFFICES ASSUME Listed(out)
             PROVE  /\ Listed(Append(out, action))
                    /\ \A before : Heard(Append(out, action), before) = Heard(out, before)
                    /\ ToldTooLate(Append(out, action)) => ToldTooLate(out)
    BY DEF Mute
<1>1. action.do # "Broadcast"
    BY DEF Unheard
<1>2. \A before : Heard(Append(out, action), before) = Heard(out, before)
    BY HeardMore, UnheardHears
<1> QED BY <1>1, <1>2, HeardMore, InTimeMore

LEMMA PlainMore ==
    ASSUME NEW out, NEW action, Unheard(action), Invites(action) = {}
    PROVE  Plain(out, Append(out, action))
<1>1. Mute(out, Append(out, action))
    BY MuteMore
<1>2. ASSUME Listed(out), Uninvited(out) PROVE Uninvited(Append(out, action))
    <2> DEFINE more == Append(out, action)
               n == Len(out)
    <2>1. /\ n \in Nat /\ DOMAIN out = 1 .. n /\ DOMAIN more = 1 .. n + 1
          /\ more[n + 1] = action /\ \A k \in 1 .. n : more[k] = out[k]
        BY <1>2, AppendIs
    <2> HIDE DEF more, n
    <2>2. \A k \in 1 .. n + 1 : k \in 1 .. n \/ k = n + 1
        BY <2>1
    <2>3. Uninvited(more)
        BY <1>2, <2>1, <2>2 DEF Uninvited
    <2> QED BY <2>3 DEF more
<1> QED BY <1>1, <1>2 DEF Plain

----------------------------------------------------------------------------
(* What the points that can be told can reach.                             *)

\* What a destination is reached by, and which linksets have a link that is up,
\* is the same.
SameWays(s, n) ==
    /\ \A d \in Dest : InUse(n, d) = InUse(s, d)
    /\ \A ls \in Linkset : LinksetSignalling(n, ls) <=> LinksetSignalling(s, ls)

\* The points and the destinations that they are told of.
Pairs == {p \in Linkset \X Dest : Adjacent[p[1]] \notin {NoPc, p[2]}}

Spoken(s) == {p \in Pairs : CanTell(s, p[1])}

Barred(s) == {p \in Spoken(s) : ProhibitedToward(s, p[2], p[1])}

LEMMA SameWaysOn ==
    ASSUME NEW s, NEW n, NEW o, SameWays(s, n), SameWays(n, o)
    PROVE  SameWays(s, o)
BY DEF SameWays

LEMMA SameWaysItself ==
    ASSUME NEW s
    PROVE  SameWays(s, s)
BY DEF SameWays

LEMMA SameTelling ==
    ASSUME NEW s, NEW n, SameWays(s, n)
    PROVE  /\ \A d : Reachable(n, d) <=> Reachable(s, d)
           /\ \A ls \in Linkset : CanTell(n, ls) <=> CanTell(s, ls)
           /\ \A d, ls : ProhibitedToward(n, d, ls) <=> ProhibitedToward(s, d, ls)
           /\ Spoken(n) = Spoken(s) /\ Barred(n) = Barred(s)
<1>1. \A d : Reachable(n, d) <=> Reachable(s, d)
    BY DEF SameWays, Reachable
<1>2. ASSUME NEW ls \in Linkset PROVE CanTell(n, ls) <=> CanTell(s, ls)
    BY <1>1 DEF SameWays, CanTell
<1>3. ASSUME NEW d, NEW ls PROVE ProhibitedToward(n, d, ls) <=> ProhibitedToward(s, d, ls)
    BY DEF SameWays, ProhibitedToward
<1>4. \A p \in Pairs : p[1] \in Linkset
    BY DEF Pairs
<1>5. Spoken(n) = Spoken(s)
    BY <1>2, <1>4 DEF Spoken
<1> QED BY <1>1, <1>2, <1>3, <1>5 DEF Barred

\* A status only counts when a link of the route's linkset carries traffic.
LEMMA WaysAre ==
    ASSUME NEW s, NEW n, n.servers = s.servers, n.paused = s.paused,
           \A ls \in Linkset :
               /\ LinksetAvailable(n, ls) <=> LinksetAvailable(s, ls)
               /\ LinksetSignalling(n, ls) <=> LinksetSignalling(s, ls),
           \A d \in Dest, r \in Nat :
               \/ StatusOf(n, d, r) = StatusOf(s, d, r)
               \/ ~LinksetAvailable(s, Routes[d][r].via)
    PROVE  SameWays(s, n)
<1> SUFFICES ASSUME NEW d \in Dest PROVE InUse(n, d) = InUse(s, d)
    BY DEF SameWays
<1>0. \A r \in RoutesOf(d) : r \in Nat
    BY RoutesAssumption DEF RoutesOf
<1>1. ASSUME NEW r \in RoutesOf(d) PROVE Usable(n, d, r) = Usable(s, d, r)
    <2> DEFINE via == Routes[d][r].via
               some == IF via \in s.servers THEN "Yes" ELSE "No"
               By(status) == IF ~LinksetAvailable(s, via) \/ status = "Prohibited" THEN "No"
                             ELSE IF status = "Restricted" THEN "Restricted" ELSE "Yes"
    <2>1. via \in Linkset => (LinksetAvailable(n, via) <=> LinksetAvailable(s, via))
        OBVIOUS
    <2>2. CASE d \in s.paused
        BY <2>2 DEF Usable
    <2>3. CASE d \notin s.paused /\ via \in Server
        <3>1. via \notin Linkset
            BY <2>3, ServerAssumption
        <3>2. Usable(s, d, r) = some
            BY <2>3, <3>1 DEF Usable
        <3>3. Usable(n, d, r) = some
            BY <2>3, <3>1 DEF Usable
        <3> QED BY <3>2, <3>3
    <2>4. CASE d \notin s.paused /\ via \in Linkset
        <3>1. via \notin Server
            BY <2>4, ServerAssumption
        <3>2. Usable(s, d, r) = By(StatusOf(s, d, r))
            BY <2>4, <3>1 DEF Usable
        <3>3. Usable(n, d, r) = By(StatusOf(n, d, r))
            BY <2>1, <2>4, <3>1 DEF Usable
        <3>4. StatusOf(n, d, r) = StatusOf(s, d, r) \/ ~LinksetAvailable(s, via)
            BY <1>0
        <3>5. By(StatusOf(n, d, r)) = By(StatusOf(s, d, r))
            BY <3>4
        <3> QED BY <3>2, <3>3, <3>5
    <2>5. CASE d \notin s.paused /\ via \notin Server /\ via \notin Linkset
        BY <2>5 DEF Usable
    <2> QED BY <2>2, <2>3, <2>4, <2>5
<1> DEFINE U(t) == {r \in RoutesOf(d) : Usable(t, d, r) # "No"}
<1>2. U(n) = U(s)
    BY <1>1
<1> DEFINE tier == FirstTier(d, U(s))
<1>3. tier \subseteq RoutesOf(d)
    BY DEF FirstTier
<1>4. InUse(n, d) = Unrestricted(n, d, tier) /\ InUse(s, d) = Unrestricted(s, d, tier)
    BY <1>2 DEF InUse
<1> HIDE DEF tier
<1>5. Unrestricted(n, d, tier) = Unrestricted(s, d, tier)
    BY <1>1, <1>3 DEF Unrestricted
<1> QED BY <1>4, <1>5

\* The states of the links give them.
LEMMA LinksGiveWays ==
    ASSUME NEW s, NEW n, n.servers = s.servers, n.paused = s.paused, n.status = s.status,
           \A k \in Link : /\ LinkAvailable(n, k) <=> LinkAvailable(s, k)
                           /\ n.link[k].up <=> s.link[k].up
    PROVE  SameWays(s, n)
<1>1. \A ls \in Linkset : \A k \in LinksOf[ls] : k \in Link
    BY DEF LinksOf
<1>2. \A ls \in Linkset :
          /\ LinksetAvailable(n, ls) <=> LinksetAvailable(s, ls)
          /\ LinksetSignalling(n, ls) <=> LinksetSignalling(s, ls)
    BY <1>1 DEF LinksetAvailable, LinksetSignalling
<1>3. \A d \in Dest, r \in Nat : StatusOf(n, d, r) = StatusOf(s, d, r)
    BY DEF StatusOf
<1> QED BY <1>2, <1>3, WaysAre

----------------------------------------------------------------------------
(* The steps of a method, as the adjacent points see them.                 *)

\* Nothing that an adjacent point, or settle when it speaks to them, goes by.
Quiet(s, n) ==
    /\ DOMAIN n = Fields
    /\ n.told = s.told /\ n.synced = s.synced
    /\ n.restarting = s.restarting
    /\ Plain(s.out, n.out)

\* Traffic may go on, and nothing changes of what is to be told.
Steady(s, n) ==
    /\ DOMAIN n = Fields
    /\ n.told = s.told /\ n.synced = s.synced
    /\ n.restarting = s.restarting
    /\ SameWays(s, n)
    /\ Mute(s.out, n.out)

\* What comes before settle: a point may have to be told all again when nothing
\* changes but that, or when nobody was told anything yet.
Leads(s, n) ==
    /\ DOMAIN n = Fields
    /\ n.told = s.told
    /\ Plain(s.out, n.out)
    /\ \/ n.synced = s.synced /\ n.restarting = s.restarting
       \/ n.synced \subseteq s.synced /\ n.restarting = s.restarting /\ SameWays(s, n)
       \/ (s.restarting \/ s.isolated) /\ (n.restarting \/ n.synced = {})

\* A method that settles before it lets traffic go on.
Settles(s, n) == \E a : Leads(s, a) /\ Steady(Settle(a), n)

Talks(s, n) == Leads(s, n) \/ Steady(s, n) \/ Settles(s, n)

LEMMA QuietOn ==
    ASSUME NEW s, NEW n, NEW o, Quiet(s, n), Quiet(n, o)
    PROVE  Quiet(s, o)
BY PlainOn DEF Quiet

LEMMA QuietItself ==
    ASSUME NEW s, DOMAIN s = Fields
    PROVE  Quiet(s, s)
BY PlainItself DEF Quiet

LEMMA QuietLeads ==
    ASSUME NEW s, NEW n, Quiet(s, n)
    PROVE  Leads(s, n) /\ Talks(s, n)
BY DEF Quiet, Leads, Talks

LEMMA SteadyOn ==
    ASSUME NEW s, NEW n, NEW o, Steady(s, n), Steady(n, o)
    PROVE  Steady(s, o)
BY MuteOn, SameWaysOn DEF Steady

LEMMA SteadyItself ==
    ASSUME NEW s, DOMAIN s = Fields
    PROVE  Steady(s, s)
BY SameWaysItself DEF Steady, Mute

LEMMA QuietSteady ==
    ASSUME NEW s, NEW n, Quiet(s, n), SameWays(s, n)
    PROVE  Steady(s, n)
BY DEF Quiet, Steady, Plain

LEMMA QuietTalks ==
    ASSUME NEW s, NEW a, NEW n, Leads(s, a), Steady(Settle(a), n)
    PROVE  Talks(s, n)
BY DEF Settles, Talks

----------------------------------------------------------------------------
(* settle, as the adjacent points hear it.                                 *)

\* What the adjacent points believe, and what they are to believe.
Believed(s) == {p \in s.told : ~(p[1] \in Named /\ CanTell(s, p[1]) /\ p[1] \notin s.synced)}

ToBelieve(s) == (Believed(s) \ Spoken(s)) \cup Barred(s)

Saying(s) ==
    [do |-> "Broadcast", tfp |-> ToBelieve(s) \ Believed(s), tfa |-> Believed(s) \ ToBelieve(s)]

\* What becomes of the record that settle goes by.
Speaks(s, n) ==
    /\ n.synced = (s.synced \ Named) \cup {ls \in Named : CanTell(s, ls)}
    /\ n.told = ToBelieve(s)
    /\ \/ n.out = s.out /\ ToBelieve(s) = Believed(s)
       \/ n.out = Append(s.out, Saying(s))

\* What speaking goes by.
Alike(s, n) ==
    /\ DOMAIN n = Fields
    /\ n.told = s.told /\ n.synced = s.synced /\ n.restarting = s.restarting
    /\ n.out = s.out /\ n.link = s.link
    /\ n.servers = s.servers /\ n.paused = s.paused /\ n.status = s.status

LEMMA AlikeWays ==
    ASSUME NEW s, NEW n, Alike(s, n)
    PROVE  /\ SameWays(s, n)
           /\ Believed(n) = Believed(s) /\ ToBelieve(n) = ToBelieve(s) /\ Saying(n) = Saying(s)
<1>1. SameWays(s, n)
    BY LinksGiveWays DEF Alike, LinkAvailable
<1>2. /\ \A ls \in Linkset : CanTell(n, ls) <=> CanTell(s, ls)
      /\ Spoken(n) = Spoken(s) /\ Barred(n) = Barred(s)
    BY <1>1, SameTelling
<1>3. Named \subseteq Linkset
    BY DEF Named
<1>4. Believed(n) = Believed(s)
    BY <1>2, <1>3 DEF Believed, Alike
<1>5. ToBelieve(n) = ToBelieve(s)
    BY <1>2, <1>4 DEF ToBelieve
<1> QED BY <1>1, <1>4, <1>5 DEF Saying

LEMMA CorrectIs ==
    ASSUME NEW s, DOMAIN s = Fields, NEW believed, NEW told
    PROVE  LET n == Correct(s, believed, told) IN
           /\ DOMAIN n = Fields
           /\ n.told = told /\ n.synced = s.synced /\ n.restarting = s.restarting
           /\ n.link = s.link /\ n.servers = s.servers /\ n.paused = s.paused
           /\ n.status = s.status /\ n.isolated = s.isolated
           /\ \/ n.out = s.out /\ told = believed
              \/ n.out = Append(s.out, [do |-> "Broadcast", tfp |-> told \ believed,
                                        tfa |-> believed \ told])
<1> DEFINE action == [do |-> "Broadcast", tfp |-> told \ believed, tfa |-> believed \ told]
           next == [s EXCEPT !.told = told]
           said == [next EXCEPT !.out = Append(@, action)]
<1>1. Correct(s, believed, told) = IF told = believed THEN next ELSE said
    BY DEF Correct, Push
<1> HIDE DEF action
<1>2. /\ DOMAIN next = Fields
      /\ next.told = told /\ next.synced = s.synced /\ next.restarting = s.restarting
      /\ next.link = s.link /\ next.servers = s.servers /\ next.paused = s.paused
      /\ next.status = s.status /\ next.out = s.out /\ next.isolated = s.isolated
    BY DEF Fields
<1>3. /\ DOMAIN said = Fields
      /\ said.told = told /\ said.synced = s.synced /\ said.restarting = s.restarting
      /\ said.link = s.link /\ said.servers = s.servers /\ said.paused = s.paused
      /\ said.status = s.status /\ said.out = Append(s.out, action) /\ said.isolated = s.isolated
    <2> HIDE DEF next
    <2> QED BY <1>2 DEF Fields
<1> HIDE DEF next, said
<1>4. CASE told = believed
    BY <1>1, <1>2, <1>4
<1>5. CASE told # believed
    BY <1>1, <1>3, <1>5 DEF action
<1> QED BY <1>4, <1>5

LEMMA BroadcastSpeaks ==
    ASSUME NEW s, DOMAIN s = Fields
    PROVE  LET n == Broadcast(s) IN
           /\ DOMAIN n = Fields /\ n.restarting = s.restarting
           /\ n.link = s.link /\ n.servers = s.servers /\ n.paused = s.paused
           /\ n.status = s.status /\ n.isolated = s.isolated
           /\ Speaks(s, n)
<1> DEFINE tellable == {ls \in Named : CanTell(s, ls)}
           believed == {p \in s.told : p[1] \notin tellable \ s.synced}
           spoken == {p \in tellable \X Dest : p[2] # Adjacent[p[1]]}
           told == (believed \ spoken) \cup {p \in spoken : ProhibitedToward(s, p[2], p[1])}
           synced == (s.synced \ Named) \cup tellable
           noted == [s EXCEPT !.synced = synced]
           n == Correct(noted, believed, told)
<1>1. Broadcast(s) = n
    BY DEF Broadcast, SpeakTo
<1>2. believed = Believed(s)
    BY DEF Believed
<1>3. spoken = Spoken(s)
    <2>1. \A p : p \in spoken <=> p \in Spoken(s)
        BY DEF Spoken, Pairs, Named
    <2> QED BY <2>1
<1> HIDE DEF believed, spoken
<1>4. told = ToBelieve(s)
    BY <1>2, <1>3 DEF ToBelieve, Barred
<1> HIDE DEF told, synced
<1>5. /\ DOMAIN noted = Fields
      /\ noted.told = s.told /\ noted.synced = synced /\ noted.restarting = s.restarting
      /\ noted.link = s.link /\ noted.servers = s.servers /\ noted.paused = s.paused
      /\ noted.status = s.status /\ noted.out = s.out /\ noted.isolated = s.isolated
    BY DEF Fields
<1> HIDE DEF noted
<1>6. /\ DOMAIN n = Fields
      /\ n.told = told /\ n.synced = noted.synced /\ n.restarting = noted.restarting
      /\ n.link = noted.link /\ n.servers = noted.servers /\ n.paused = noted.paused
      /\ n.status = noted.status /\ n.isolated = noted.isolated
      /\ \/ n.out = noted.out /\ told = believed
         \/ n.out = Append(noted.out, [do |-> "Broadcast", tfp |-> told \ believed,
                                       tfa |-> believed \ told])
    BY <1>5, CorrectIs
<1> HIDE DEF n
<1>7. Speaks(s, n)
    BY <1>2, <1>4, <1>5, <1>6 DEF Speaks, Saying, synced
<1> QED BY <1>1, <1>5, <1>6, <1>7

LEMMA SettleSpeaks ==
    ASSUME NEW s, DOMAIN s = Fields
    PROVE  LET n == Settle(s) IN
           /\ DOMAIN n = Fields /\ n.restarting = s.restarting
           /\ n.link = s.link /\ n.servers = s.servers /\ n.paused = s.paused
           /\ n.status = s.status /\ n.isolated = s.isolated
           /\ s.restarting => Alike(s, n)
           /\ ~s.restarting => Speaks(s, n)
<1> DEFINE reachable == {d \in Dest : Reachable(s, d)}
           restricted == {d \in reachable : OnlyRestricted(s, d)}
           lost == s.accessible \ reachable
           timers == {<<"Prohibited", d>> : d \in lost}
           noted == [s EXCEPT !.accessible = reachable, !.restricted = restricted]
           guarded == [noted EXCEPT !.guarded = @ \cup lost, !.timers = @ \cup timers]
           n == Broadcast(guarded)
<1>1. Settle(s) = IF noted.restarting THEN noted ELSE n
    BY DEF Settle, Announce, Guard
<1> HIDE DEF reachable, restricted, lost, timers
<1>2. Alike(s, noted) /\ noted.restarting = s.restarting /\ noted.isolated = s.isolated
    BY DEF Alike, Fields
<1> HIDE DEF noted
<1>3. Alike(s, guarded) /\ guarded.isolated = s.isolated
    BY <1>2 DEF Alike, Fields
<1> HIDE DEF guarded
<1>4. /\ DOMAIN n = Fields /\ n.restarting = guarded.restarting
      /\ n.link = guarded.link /\ n.servers = guarded.servers /\ n.paused = guarded.paused
      /\ n.status = guarded.status /\ n.isolated = guarded.isolated
      /\ Speaks(guarded, n)
    BY <1>3, BroadcastSpeaks DEF Alike
<1> HIDE DEF n
<1>5. Speaks(s, n)
    <2>1. /\ SameWays(s, guarded) /\ Believed(guarded) = Believed(s)
          /\ ToBelieve(guarded) = ToBelieve(s) /\ Saying(guarded) = Saying(s)
        BY <1>3, AlikeWays
    <2>2. {ls \in Named : CanTell(guarded, ls)} = {ls \in Named : CanTell(s, ls)}
        BY <2>1, SameTelling DEF Named
    <2> QED BY <1>3, <1>4, <2>1, <2>2 DEF Speaks, Alike
<1>6. CASE s.restarting
    BY <1>1, <1>2, <1>6 DEF Alike
<1>7. CASE ~s.restarting
    BY <1>1, <1>2, <1>3, <1>4, <1>5, <1>7 DEF Alike
<1> QED BY <1>6, <1>7

LEMMA SettleWays ==
    ASSUME NEW s, DOMAIN s = Fields
    PROVE  SameWays(s, Settle(s))
<1> DEFINE n == Settle(s)
<1>1. n.link = s.link /\ n.servers = s.servers /\ n.paused = s.paused /\ n.status = s.status
    BY SettleSpeaks
<1> HIDE DEF n
<1>2. SameWays(s, n)
    BY <1>1, LinksGiveWays DEF LinkAvailable
<1> QED BY <1>2 DEF n

----------------------------------------------------------------------------
(* What the adjacent points have heard, against the record of it.          *)

\* Every point that can be told is in the record, and it has all that is barred.
Warned(s) ==
    /\ \A ls \in Named : CanTell(s, ls) <=> ls \in s.synced
    /\ Barred(s) \subseteq s.told

\* What the record of a point has, the point has heard.
Listened(s, H) == \A p \in Pairs : p[1] \in s.synced /\ p \in s.told => p \in H

\* What a point has heard is barred, or is in the record of it.
Recorded(s, H) ==
    \A p \in Spoken(s) \cap H : p \in Barred(s) \/ (p[1] \in s.synced /\ p \in s.told)

\* Between two inputs.  exact: nothing that is not recorded was ever said.
Heeded(s, H, exact) ==
    /\ DOMAIN s = Fields
    /\ H \subseteq Named \X Pc
    /\ s.restarting => H = {}
    /\ s.isolated => H = {}
    /\ ~s.restarting =>
          /\ Warned(s) /\ Listened(s, H)
          /\ exact => H \cap Pairs \subseteq Barred(s)

\* Within an input, when H had been heard before it.
Fit(s, H, exact) ==
    /\ DOMAIN s = Fields
    /\ Listed(s.out) /\ ~ToldTooLate(s.out)
    /\ Heard(s.out, H) \subseteq Named \X Pc
    /\ Uninvited(s.out) \/ s.restarting \/ Warned(s)
    /\ s.restarting => Heard(s.out, H) = {}
    /\ ~s.restarting =>
          /\ Listened(s, Heard(s.out, H))
          /\ exact => Recorded(s, Heard(s.out, H))

LEMMA NoneListed == Listed(<<>>) /\ Uninvited(<<>>) /\ ~ToldTooLate(<<>>)
<1> DEFINE none == <<>>
<1>1. none \in Seq({}) /\ DOMAIN none = {}
    OBVIOUS
<1> HIDE DEF none
<1>2. Listed(none) /\ Uninvited(none) /\ ~ToldTooLate(none)
    BY <1>1 DEF Listed, Uninvited, ToldTooLate
<1> QED BY <1>2 DEF none

\* What speaking does to what is heard.
LEMMA SpokenIsHeard ==
    ASSUME NEW s, DOMAIN s = Fields, NEW n, Speaks(s, n), SameWays(s, n),
           Listed(s.out), NEW H, NEW G, G = Heard(s.out, H), Listened(s, G)
    PROVE  /\ Listed(n.out)
           /\ Warned(n) /\ n.told \cap Spoken(n) = Barred(n)
           /\ Heard(n.out, H) \subseteq G \cup Barred(n)
           /\ Listened(n, Heard(n.out, H))
           /\ Recorded(s, G) => Recorded(n, Heard(n.out, H))
<1> DEFINE B == Believed(s)
           T == ToBelieve(s)
           K == Heard(n.out, H)
<1>1. Listed(n.out) /\ K = (G \cup (T \ B)) \ (B \ T)
    <2>1. CASE n.out = s.out /\ T = B
        BY <2>1
    <2>2. CASE n.out = Append(s.out, Saying(s))
        <3>1. Listed(n.out) /\ K = Hears(G, Saying(s))
            BY <2>2, HeardMore
        <3>2. Hears(G, Saying(s)) = (G \cup (T \ B)) \ (B \ T)
            BY DEF Hears, Saying
        <3> QED BY <3>1, <3>2
    <2> QED BY <2>1, <2>2 DEF Speaks
<1>2. T = (B \ Spoken(s)) \cup Barred(s) /\ n.told = T
    BY DEF ToBelieve, Speaks
<1>3. \A p : p \in B <=> p \in s.told /\ ~(p[1] \in Named /\ CanTell(s, p[1]) /\ p[1] \notin s.synced)
    BY DEF Believed
<1>4. \A p \in Pairs : p[1] \in Named
    BY DEF Pairs, Named
<1>5. /\ Spoken(n) = Spoken(s) /\ Barred(n) = Barred(s) /\ Barred(s) \subseteq Spoken(s)
      /\ \A p : p \in Spoken(s) <=> p \in Pairs /\ CanTell(s, p[1])
    BY SameTelling DEF Spoken, Barred
<1>6. \A ls \in Named : CanTell(n, ls) <=> CanTell(s, ls)
    BY SameTelling DEF Named
<1>7. \A ls \in Named : ls \in n.synced <=> CanTell(s, ls)
    BY DEF Speaks
<1> HIDE DEF B, T, K
<1>8. n.told \cap Spoken(n) = Barred(n)
    BY <1>2, <1>5
<1>9. Warned(n)
    BY <1>6, <1>7, <1>8 DEF Warned
<1>10. K \subseteq G \cup Barred(n)
    BY <1>1, <1>2, <1>5
<1>11. ASSUME NEW p \in Pairs, p[1] \in n.synced, p \in n.told PROVE p \in K
    <2>1. p \in Spoken(s) /\ p[1] \in Named /\ CanTell(s, p[1])
        BY <1>4, <1>5, <1>7, <1>11
    <2>2. p \in T
        BY <1>2, <1>11
    <2>3. CASE p \in B
        <3>1. p \in s.told /\ p[1] \in s.synced
            BY <1>3, <2>1, <2>3
        <3>2. p \in G
            BY <3>1 DEF Listened
        <3> QED BY <1>1, <2>2, <3>2
    <2>4. CASE p \notin B
        BY <1>1, <2>2, <2>4
    <2> QED BY <2>3, <2>4
<1>12. ASSUME Recorded(s, G), NEW p \in Spoken(n) \cap K PROVE p \in Barred(n)
    <2>1. CASE p \in T
        BY <1>2, <1>5, <1>12, <2>1
    <2>2. CASE p \notin T
        <3>1. p \in G /\ p \notin B
            BY <1>1, <1>12, <2>2
        <3>2. p \in Barred(s) \/ (p[1] \in s.synced /\ p \in s.told)
            BY <1>5, <1>12, <3>1 DEF Recorded
        <3> QED BY <1>3, <1>5, <3>1, <3>2
    <2> QED BY <2>1, <2>2
<1>13. Listened(n, K) /\ (Recorded(s, G) => Recorded(n, K))
    BY <1>11, <1>12 DEF Listened, Recorded
<1> QED BY <1>1, <1>8, <1>9, <1>10, <1>13 DEF K

LEMMA FitSettles ==
    ASSUME NEW s, NEW H, NEW exact, Fit(s, H, exact)
    PROVE  /\ Fit(Settle(s), H, exact) /\ SameWays(s, Settle(s))
           /\ Settle(s).restarting = s.restarting
           /\ ~s.restarting => /\ Warned(Settle(s))
                               /\ Settle(s).told \cap Spoken(Settle(s)) = Barred(Settle(s))
<1> DEFINE n == Settle(s)
           G == Heard(s.out, H)
<1>0. DOMAIN s = Fields
    BY DEF Fit
<1>1. /\ DOMAIN n = Fields /\ n.restarting = s.restarting
      /\ s.restarting => Alike(s, n)
      /\ ~s.restarting => Speaks(s, n)
    BY <1>0, SettleSpeaks
<1>2. SameWays(s, n)
    BY <1>0, SettleWays
<1> HIDE DEF n
<1>3. CASE s.restarting
    <2>1. n.out = s.out
        BY <1>1, <1>3 DEF Alike
    <2> QED BY <1>1, <1>2, <1>3, <2>1 DEF Fit, n
<1>4. CASE ~s.restarting
    <2>1. Listed(s.out) /\ Listened(s, G) /\ (exact => Recorded(s, G)) /\ G \subseteq Named \X Pc
        BY <1>4 DEF Fit
    <2>2. /\ Listed(n.out)
          /\ Warned(n) /\ n.told \cap Spoken(n) = Barred(n)
          /\ Heard(n.out, H) \subseteq G \cup Barred(n)
          /\ Listened(n, Heard(n.out, H))
          /\ Recorded(s, G) => Recorded(n, Heard(n.out, H))
        BY <1>0, <1>1, <1>2, <1>4, <2>1, SpokenIsHeard
    <2>3. Barred(n) \subseteq Named \X Pc
        BY RoutesAssumption DEF Barred, Spoken, Pairs, Named
    <2>4. ~ToldTooLate(n.out)
        <3>1. CASE n.out = s.out
            BY <3>1 DEF Fit
        <3>2. CASE n.out = Append(s.out, Saying(s))
            <4>1. Uninvited(s.out) \/ Saying(s).tfp = {}
                <5>1. Saying(s).tfp = ToBelieve(s) \ Believed(s)
                    BY DEF Saying
                <5>2. ASSUME Warned(s) PROVE Barred(s) \subseteq Believed(s)
                    BY <5>2 DEF Warned, Believed
                <5>3. Warned(s) => ToBelieve(s) \subseteq Believed(s)
                    BY <5>2 DEF ToBelieve
                <5> QED BY <1>4, <5>1, <5>3 DEF Fit
            <4> QED BY <2>1, <3>2, <4>1, InTimeBroadcast DEF Fit
        <3> QED BY <1>1, <1>4, <3>1, <3>2 DEF Speaks
    <2> HIDE DEF G
    <2> QED BY <1>1, <1>2, <1>4, <2>1, <2>2, <2>3, <2>4 DEF Fit, n
<1> QED BY <1>3, <1>4

LEMMA FitSteady ==
    ASSUME NEW s, NEW n, NEW H, NEW exact, Fit(s, H, exact), s.restarting \/ Warned(s),
           Steady(s, n)
    PROVE  Fit(n, H, exact) /\ (n.restarting \/ Warned(n))
<1>1. /\ Listed(n.out) /\ ~ToldTooLate(n.out)
      /\ Heard(n.out, H) = Heard(s.out, H)
    BY DEF Fit, Steady, Mute
<1>2. Warned(s) => Warned(n)
    BY SameTelling DEF Warned, Steady, Named
<1>3. \A G : /\ Listened(s, G) => Listened(n, G)
             /\ Recorded(s, G) => Recorded(n, G)
    BY SameTelling DEF Listened, Recorded, Steady
<1> QED BY <1>1, <1>2, <1>3 DEF Fit, Steady

\* At the start of an input.
LEMMA HeededFits ==
    ASSUME NEW s, NEW H, NEW exact, Heeded(s, H, exact), s.out = <<>>
    PROVE  Fit(s, H, exact) /\ (s.restarting \/ Warned(s))
<1>1. Listed(s.out) /\ Uninvited(s.out) /\ ~ToldTooLate(s.out) /\ Heard(s.out, H) = H
    BY NoneListed, HeardNothing
<1>2. Barred(s) \subseteq Pairs /\ Spoken(s) \subseteq Pairs
    BY DEF Barred, Spoken
<1> QED BY <1>1, <1>2 DEF Heeded, Fit, Recorded

LEMMA LeadsFits ==
    ASSUME NEW s, NEW n, NEW H, NEW exact, Heeded(s, H, exact), s.out = <<>>, Leads(s, n)
    PROVE  Fit(n, H, exact)
<1>1. Listed(s.out) /\ Uninvited(s.out) /\ Heard(s.out, H) = H
    BY NoneListed, HeardNothing
<1>2. /\ DOMAIN n = Fields /\ n.told = s.told
      /\ Listed(n.out) /\ Uninvited(n.out) /\ Heard(n.out, H) = H
    BY <1>1 DEF Leads, Plain, Mute
<1>3. ~ToldTooLate(n.out)
    BY <1>2, UninvitedInTime
<1>4. H \subseteq Named \X Pc
    BY DEF Heeded
<1>5. \A p \in Pairs : p[1] \in Named
    BY DEF Pairs, Named
<1>6. Barred(s) \subseteq Spoken(s) /\ Spoken(s) \subseteq Pairs /\ Spoken(n) \subseteq Pairs
      /\ \A p \in Spoken(s) : CanTell(s, p[1])
    BY DEF Barred, Spoken
<1>7. CASE n.synced = s.synced /\ n.restarting = s.restarting
    <2>1. ~s.restarting => Listened(n, H)
        BY <1>2, <1>7 DEF Heeded, Listened
    <2>2. ASSUME ~s.restarting, exact, NEW p \in Spoken(n) \cap H
          PROVE  p[1] \in n.synced /\ p \in n.told
        <3>1. p \in Barred(s) /\ Warned(s)
            BY <1>6, <2>2 DEF Heeded
        <3> QED BY <1>2, <1>5, <1>6, <1>7, <3>1 DEF Warned
    <2> QED BY <1>2, <1>3, <1>4, <1>7, <2>1, <2>2 DEF Fit, Heeded, Recorded
<1>8. CASE n.synced \subseteq s.synced /\ n.restarting = s.restarting /\ SameWays(s, n)
    <2>1. ~s.restarting => Listened(n, H)
        BY <1>2, <1>8 DEF Heeded, Listened
    <2>2. Barred(n) = Barred(s)
        BY <1>8, SameTelling
    <2>3. ASSUME ~s.restarting, exact, NEW p \in Spoken(n) \cap H PROVE p \in Barred(n)
        BY <1>6, <2>2, <2>3 DEF Heeded
    <2> QED BY <1>2, <1>3, <1>4, <1>8, <2>1, <2>3 DEF Fit, Heeded, Recorded
<1>9. CASE (s.restarting \/ s.isolated) /\ (n.restarting \/ n.synced = {})
    <2>1. H = {}
        BY <1>9 DEF Heeded
    <2> QED BY <1>2, <1>3, <1>4, <1>9, <2>1 DEF Fit, Listened, Recorded
<1> QED BY <1>7, <1>8, <1>9 DEF Leads

LEMMA TalksFits ==
    ASSUME NEW s, NEW n, NEW H, NEW exact, Heeded(s, H, exact), s.out = <<>>, Talks(s, n)
    PROVE  Fit(n, H, exact)
<1>1. CASE Leads(s, n)
    BY <1>1, LeadsFits
<1>2. CASE Steady(s, n)
    BY <1>2, HeededFits, FitSteady
<1>3. CASE Settles(s, n)
    <2>1. PICK a : Leads(s, a) /\ Steady(Settle(a), n)
        BY <1>3 DEF Settles
    <2>2. Fit(a, H, exact)
        BY <2>1, LeadsFits
    <2>3. /\ Fit(Settle(a), H, exact)
          /\ Settle(a).restarting = a.restarting
          /\ ~a.restarting => Warned(Settle(a))
        BY <2>2, FitSettles
    <2> QED BY <2>1, <2>3, FitSteady
<1> QED BY <1>1, <1>2, <1>3 DEF Talks

----------------------------------------------------------------------------
(* The end of an input.                                                    *)

\* A node is isolated as watch_isolation says.
Watched(s) == s.isolated <=> (\A l \in Link : ~s.link[l].up) /\ s.servers = {}

\* An isolated node can tell nobody.
LEMMA IsolatedIsAlone ==
    ASSUME NEW s, NEW E, Sound(s, E), Watched(s), s.isolated
    PROVE  \A ls \in Linkset : ~CanTell(s, ls)
<1>1. (\A l \in Link : ~s.link[l].up) /\ s.servers = {}
    BY DEF Watched
<1>2. \A l \in Link : ~LinkAvailable(s, l)
    BY <1>1 DEF Sound, Apart, Phased, LinkAvailable
<1>3. ASSUME NEW ls \in Linkset PROVE ~LinksetAvailable(s, ls) /\ ~LinksetSignalling(s, ls)
    <2>1. \A l \in LinksOf[ls] : l \in Link
        BY DEF LinksOf
    <2> QED BY <1>1, <1>2, <2>1 DEF LinksetAvailable, LinksetSignalling
<1>4. ASSUME NEW d \in Dest, NEW r \in RoutesOf(d) PROVE Usable(s, d, r) = "No"
    <2> DEFINE via == Routes[d][r].via
               route == [via : Linkset \cup Server, priority : Nat]
    <2>1. Routes[d] \in Seq(route) /\ r \in DOMAIN Routes[d]
        BY RoutesAssumption DEF RoutesOf
    <2>2. Routes[d][r] \in route
        <3> HIDE DEF route
        <3> QED BY <2>1
    <2>3. via \in Linkset \cup Server
        BY <2>2
    <2>4. via \in Linkset => ~LinksetAvailable(s, via)
        BY <1>3
    <2> HIDE DEF via
    <2>5. CASE via \in Server
        <3>1. via \notin Linkset /\ via \notin s.servers
            BY <1>1, <2>5, ServerAssumption
        <3> DEFINE some == IF via \in s.servers THEN "Yes" ELSE "No"
        <3>2. d \notin s.paused => Usable(s, d, r) = some
            BY <2>5, <3>1 DEF Usable, via
        <3>3. d \in s.paused => Usable(s, d, r) = "No"
            BY DEF Usable
        <3> QED BY <3>1, <3>2, <3>3
    <2>6. CASE via \in Linkset
        <3>1. via \notin Server
            BY <2>6, ServerAssumption
        <3>2. d \in s.paused => Usable(s, d, r) = "No"
            BY DEF Usable
        <3>3. d \notin s.paused => Usable(s, d, r) = "No"
            BY <2>4, <2>6, <3>1 DEF Usable, via
        <3> QED BY <3>2, <3>3
    <2> QED BY <2>3, <2>5, <2>6
<1>5. ASSUME NEW d \in Dest PROVE InUse(s, d) = {}
    <2>1. {r \in RoutesOf(d) : Usable(s, d, r) # "No"} = {}
        BY <1>4
    <2>2. FirstTier(d, {}) = {} /\ Unrestricted(s, d, {}) = {}
        BY DEF FirstTier, Unrestricted
    <2> QED BY <2>1, <2>2 DEF InUse
<1> QED BY <1>3, <1>5 DEF CanTell, Reachable

LEMMA WatchIsAlike ==
    ASSUME NEW s, DOMAIN s = Fields
    PROVE  LET n == WatchIsolation(s) IN
           /\ Alike(s, n)
           /\ Watched(n)
<1> DEFINE t == <<"Isolation">>
           isolated == (\A l \in Link : ~s.link[l].up) /\ s.servers = {}
           b == Start([s EXCEPT !.isolated = TRUE], t)
           d == Stop([s EXCEPT !.isolated = FALSE], t)
<1>1. WatchIsolation(s) = IF isolated = s.isolated THEN s ELSE IF isolated THEN b ELSE d
    BY DEF WatchIsolation
<1>2. isolated \in BOOLEAN
    OBVIOUS
<1>3. \A n : n.link = s.link /\ n.servers = s.servers /\ n.isolated = isolated => Watched(n)
    BY Zenon DEF Watched
<1> HIDE DEF isolated, t
<1>4. Alike(s, b) /\ b.isolated = TRUE
    BY DEF Alike, Start, Fields
<1>5. Alike(s, d) /\ d.isolated = FALSE
    BY DEF Alike, Stop, Fields
<1>6. Alike(s, s)
    BY DEF Alike
<1> HIDE DEF b, d
<1>7. CASE isolated = s.isolated
    BY <1>1, <1>3, <1>6, <1>7
<1>8. CASE isolated # s.isolated /\ isolated
    BY <1>1, <1>2, <1>3, <1>4, <1>8 DEF Alike
<1>9. CASE isolated # s.isolated /\ ~isolated
    BY <1>1, <1>2, <1>3, <1>5, <1>9 DEF Alike
<1> QED BY <1>2, <1>7, <1>8, <1>9

\* What is so once the actions of an input are carried out: what its adjacent
\* points have heard is what this node has recorded of them.
Ends(n, o, K, exact) ==
    /\ ~ToldTooLate(n.out)
    /\ DOMAIN o = Fields /\ Watched(o)
    /\ K \subseteq Named \X Pc
    /\ \A p \in K : CanTell(o, p[1])
    /\ o.restarting => K = {}
    /\ ~o.restarting => /\ Warned(o) /\ Listened(o, K)
                        /\ exact => K \cap Pairs \subseteq Barred(o)

\* What every input leaves behind.
LEMMA FitEnds ==
    ASSUME NEW n, NEW H, NEW exact, Fit(n, H, exact),
           NEW o, o = [Settled(n) EXCEPT !.out = <<>>],
           NEW K, K = After(Settled(n), H)
    PROVE  Ends(Settled(n), o, K, exact)
<1> DEFINE a == Settle(n)
           b == WatchIsolation(a)
           none == <<>>
<1>1. Settled(n) = b
    BY DEF Settled
<1>2. DOMAIN n = Fields
    BY DEF Fit
<1>3. /\ Fit(a, H, exact)
      /\ ~a.restarting => Warned(a) /\ a.told \cap Spoken(a) = Barred(a)
    <2>1. a.restarting = n.restarting
        BY FitSettles
    <2> QED BY <2>1, FitSettles
<1>4. DOMAIN a = Fields
    BY <1>2, SettleSpeaks
<1> HIDE DEF a
<1>5. Alike(a, b) /\ Watched(b)
    BY <1>4, WatchIsAlike
<1> HIDE DEF b
<1>6. o = [b EXCEPT !.out = none]
    BY <1>1
<1> HIDE DEF none
<1>7. /\ DOMAIN o = Fields /\ Watched(o)
      /\ o.told = a.told /\ o.synced = a.synced /\ o.restarting = a.restarting
      /\ o.link = a.link /\ o.servers = a.servers /\ o.paused = a.paused /\ o.status = a.status
      /\ o.link = b.link /\ o.servers = b.servers /\ o.paused = b.paused /\ o.status = b.status
    <2>1. /\ DOMAIN o = Fields
          /\ o.told = b.told /\ o.synced = b.synced /\ o.restarting = b.restarting
          /\ o.link = b.link /\ o.servers = b.servers /\ o.paused = b.paused
          /\ o.status = b.status /\ o.isolated = b.isolated
        BY <1>5, <1>6 DEF Alike, Fields
    <2> QED BY <1>5, <2>1 DEF Alike, Watched
<1>8. SameWays(a, o) /\ SameWays(b, o)
    BY <1>7, LinksGiveWays DEF LinkAvailable
<1>9. /\ \A ls \in Linkset : CanTell(o, ls) <=> CanTell(a, ls)
      /\ \A ls \in Linkset : CanTell(o, ls) <=> CanTell(b, ls)
      /\ Spoken(o) = Spoken(a) /\ Barred(o) = Barred(a)
    BY <1>8, SameTelling
<1>10. b.out = a.out
    BY <1>5 DEF Alike
<1> DEFINE G == Heard(a.out, H)
<1>11. K = {p \in G : CanTell(b, p[1])}
    BY <1>1, <1>10, AfterIs
<1>12. G \subseteq Named \X Pc
    BY <1>3 DEF Fit
<1>13. K \subseteq Named \X Pc
    BY <1>11, <1>12
<1>14. ASSUME NEW p \in K PROVE CanTell(o, p[1])
    <2>1. p[1] \in Linkset
        BY <1>13 DEF Named
    <2> QED BY <1>9, <1>11, <2>1
<1>15. ~ToldTooLate(Settled(n).out)
    BY <1>1, <1>3, <1>10 DEF Fit
<1>16. o.restarting => K = {}
    BY <1>3, <1>7, <1>11 DEF Fit
<1>17. ASSUME ~o.restarting
       PROVE  /\ Warned(o) /\ Listened(o, K)
              /\ exact => K \cap Pairs \subseteq Barred(o)
    <2>1. Warned(o)
        BY <1>3, <1>7, <1>9, <1>17 DEF Warned, Named
    <2>2. ASSUME NEW p \in Pairs, p[1] \in o.synced, p \in o.told PROVE p \in K
        <3>1. p \in G
            BY <1>3, <1>7, <1>17, <2>2 DEF Fit, Listened
        <3>2. p[1] \in Named /\ p[1] \in Linkset
            BY DEF Pairs, Named
        <3>3. CanTell(o, p[1])
            BY <2>1, <2>2, <3>2 DEF Warned
        <3> QED BY <1>9, <1>11, <3>1, <3>2, <3>3
    <2>3. ASSUME exact, NEW p \in K \cap Pairs PROVE p \in Barred(o)
        <3>1. p \in Spoken(o)
            BY <1>14, <2>3 DEF Spoken
        <3>2. p \in G
            BY <1>11, <2>3
        <3>3. p \in Barred(a) \/ p \in a.told
            BY <1>3, <1>7, <1>9, <1>17, <2>3, <3>1, <3>2 DEF Fit, Recorded
        <3> QED BY <1>3, <1>7, <1>9, <1>17, <3>1, <3>3
    <2> QED BY <2>1, <2>2, <2>3 DEF Listened
<1> QED BY <1>7, <1>13, <1>14, <1>15, <1>16, <1>17 DEF Ends

----------------------------------------------------------------------------
(* Methods that tell no point anything and let no traffic go on.           *)

\* Nothing that is spoken of changes, and nothing is sent.
LEMMA SameQuiet ==
    ASSUME NEW s, NEW n, DOMAIN n = Fields, n.told = s.told, n.synced = s.synced,
           n.restarting = s.restarting, n.out = s.out
    PROVE  Quiet(s, n)
BY PlainItself DEF Quiet

LEMMA PushIs ==
    ASSUME NEW s, DOMAIN s = Fields, NEW action
    PROVE  LET n == Push(s, action) IN
           /\ DOMAIN n = Fields
           /\ n.told = s.told /\ n.synced = s.synced /\ n.restarting = s.restarting
           /\ n.link = s.link /\ n.servers = s.servers /\ n.paused = s.paused
           /\ n.status = s.status /\ n.isolated = s.isolated
           /\ n.out = Append(s.out, action)
BY DEF Push, Fields

LEMMA PushQuiet ==
    ASSUME NEW s, DOMAIN s = Fields, NEW action, Unheard(action), Invites(action) = {}
    PROVE  Quiet(s, Push(s, action))
<1> DEFINE n == Push(s, action)
<1>1. /\ DOMAIN n = Fields
      /\ n.told = s.told /\ n.synced = s.synced /\ n.restarting = s.restarting
      /\ n.out = Append(s.out, action)
    BY PushIs
<1> HIDE DEF n
<1>2. Plain(s.out, n.out)
    BY <1>1, PlainMore
<1>3. Quiet(s, n)
    BY <1>1, <1>2 DEF Quiet
<1> QED BY <1>3 DEF n

LEMMA PushSteady ==
    ASSUME NEW s, DOMAIN s = Fields, NEW action, Unheard(action)
    PROVE  Steady(s, Push(s, action))
<1> DEFINE n == Push(s, action)
<1>1. /\ DOMAIN n = Fields
      /\ n.told = s.told /\ n.synced = s.synced /\ n.restarting = s.restarting
      /\ n.link = s.link /\ n.servers = s.servers /\ n.paused = s.paused /\ n.status = s.status
      /\ n.out = Append(s.out, action)
    BY PushIs
<1> HIDE DEF n
<1>2. SameWays(s, n)
    BY <1>1, LinksGiveWays DEF LinkAvailable
<1>3. Mute(s.out, n.out)
    BY <1>1, MuteMore
<1>4. Steady(s, n)
    BY <1>1, <1>2, <1>3 DEF Steady
<1> QED BY <1>4 DEF n

\* The messages that are no word about what can be reached.
Ordinary(message) == message.name \notin {"TFP", "TFA", "TRA"}

LEMMA SendAllSteady ==
    ASSUME NEW s, DOMAIN s = Fields, NEW linksets, NEW message, NEW path,
           message.name \notin {"TFP", "TFA"}
    PROVE  Steady(s, SendAll(s, linksets, message, path))
<1> DEFINE known == {ls \in linksets : Adjacent[ls] # NoPc}
           action == [do |-> "Send", to |-> known, message |-> message, path |-> path]
<1>1. SendAll(s, linksets, message, path) = IF known = {} THEN s ELSE Push(s, action)
    BY DEF SendAll
<1>2. Unheard(action)
    BY DEF Unheard
<1> HIDE DEF action, known
<1> QED BY <1>1, <1>2, PushSteady, SteadyItself

LEMMA SendQuiet ==
    ASSUME NEW s, DOMAIN s = Fields, NEW ls, NEW message, NEW path, Ordinary(message)
    PROVE  Quiet(s, Send(s, ls, message, path))
<1> DEFINE known == {k \in {ls} : Adjacent[k] # NoPc}
           action == [do |-> "Send", to |-> known, message |-> message, path |-> path]
<1>1. Send(s, ls, message, path) = IF known = {} THEN s ELSE Push(s, action)
    BY DEF Send, SendAll
<1>2. message # Tra
    BY DEF Tra, Ordinary
<1>3. Unheard(action) /\ Invites(action) = {}
    BY <1>2 DEF Unheard, Invites, Ordinary
<1> HIDE DEF action, known
<1> QED BY <1>1, <1>3, PushQuiet, QuietItself

LEMMA TellQuiet ==
    ASSUME NEW s, DOMAIN s = Fields, NEW ls, NEW message, Ordinary(message)
    PROVE  Quiet(s, Tell(s, ls, message))
BY SendQuiet DEF Tell

LEMMA SendAboutQuiet ==
    ASSUME NEW s, DOMAIN s = Fields, NEW l, NEW name, name \notin {"TFP", "TFA", "TRA"}
    PROVE  Quiet(s, SendAbout(s, l, name))
<1>1. Ordinary(About(l, name))
    BY DEF Ordinary, About
<1> QED BY <1>1, SendQuiet DEF SendAbout

LEMMA AcknowledgeQuiet ==
    ASSUME NEW s, DOMAIN s = Fields, NEW l, NEW emergency
    PROVE  Quiet(s, AcknowledgeOrder(s, l, emergency))
<1> DEFINE message == IF emergency THEN About(l, "ECA") ELSE AboutFsn(l, "XCA", s.link[l].bsnt)
<1>1. Ordinary(message)
    BY DEF Ordinary, About, AboutFsn
<1> HIDE DEF message
<1>2. Quiet(s, Send(s, LinksetOf[l], message, Avoiding(l)))
    BY <1>1, SendQuiet
<1> QED BY <1>2 DEF AcknowledgeOrder, message

LEMMA StartQuiet ==
    ASSUME NEW s, DOMAIN s = Fields, NEW t
    PROVE  Quiet(s, Start(s, t)) /\ Start(s, t).link = s.link
BY SameQuiet DEF Start, Fields

LEMMA StopQuiet ==
    ASSUME NEW s, DOMAIN s = Fields, NEW t
    PROVE  Quiet(s, Stop(s, t)) /\ Stop(s, t).link = s.link
BY SameQuiet DEF Stop, Fields

\* Another state of the links.
LEMMA LinkQuiet ==
    ASSUME NEW s, DOMAIN s = Fields, NEW f
    PROVE  Quiet(s, [s EXCEPT !.link = f])
BY SameQuiet DEF Fields

LEMMA HoldAllQuiet ==
    ASSUME NEW s, DOMAIN s = Fields, NEW links
    PROVE  Quiet(s, HoldAll(s, links)) /\ HoldAll(s, links).link = s.link
<1> DEFINE action == [do |-> "Hold", links |-> links]
           held == [s EXCEPT !.heldLinks = @ \cup links, !.openLinks = @ \ links]
<1>1. Unheard(action) /\ Invites(action) = {}
    BY DEF Unheard, Invites
<1>2. Alike(s, held)
    BY DEF Alike, Fields
<1>3. HoldAll(s, links) = Push(held, action)
    BY DEF HoldAll
<1> HIDE DEF held, action
<1>4. Quiet(s, held) /\ DOMAIN held = Fields /\ held.link = s.link
    BY <1>2, SameQuiet DEF Alike
<1> QED BY <1>1, <1>3, <1>4, PushQuiet, PushIs, QuietOn

LEMMA HoldQuiet ==
    ASSUME NEW s, DOMAIN s = Fields, NEW l
    PROVE  Quiet(s, Hold(s, l)) /\ Hold(s, l).link = s.link
BY HoldAllQuiet DEF Hold

LEMMA DivertQuiet ==
    ASSUME NEW s, DOMAIN s = Fields, NEW l, NEW fsnc
    PROVE  Quiet(s, Divert(s, l, fsnc))
<1> DEFINE action == [do |-> "Divert", link |-> l, fsnc |-> fsnc]
           put == [s EXCEPT !.heldLinks = @ \ {l}, !.openLinks = @ \ {l}]
<1>1. Unheard(action) /\ Invites(action) = {}
    BY DEF Unheard, Invites
<1>2. Alike(s, put)
    BY DEF Alike, Fields
<1>3. Divert(s, l, fsnc) = Push(put, action)
    BY DEF Divert
<1> HIDE DEF put, action
<1>4. Quiet(s, put) /\ DOMAIN put = Fields
    BY <1>2, SameQuiet DEF Alike
<1> QED BY <1>1, <1>3, <1>4, PushQuiet, QuietOn

LEMMA FailLinkQuiet ==
    ASSUME NEW s, DOMAIN s = Fields, NEW l
    PROVE  Quiet(s, FailLink(s, l))
<1> DEFINE action == [do |-> "Fail", link |-> l]
<1>1. Unheard(action) /\ Invites(action) = {}
    BY DEF Unheard, Invites
<1> HIDE DEF action
<1>2. Quiet(s, Push(s, action))
    BY <1>1, PushQuiet
<1> QED BY <1>2 DEF FailLink, action

\* Open, of any links.
LEMMA OpenAllSteady ==
    ASSUME NEW s, DOMAIN s = Fields, NEW links
    PROVE  Steady(s, OpenAll(s, links))
<1> DEFINE action == [do |-> "Open", links |-> links]
           put == [s EXCEPT !.heldLinks = @ \ links, !.openLinks = @ \cup links]
<1>1. Unheard(action)
    BY DEF Unheard
<1>2. Alike(s, put)
    BY DEF Alike, Fields
<1>3. OpenAll(s, links) = Push(put, action)
    BY DEF OpenAll
<1> HIDE DEF put, action
<1>4. Steady(s, put) /\ DOMAIN put = Fields
    BY <1>2, AlikeWays, SameQuiet, QuietSteady DEF Alike
<1> QED BY <1>1, <1>3, <1>4, PushSteady, SteadyOn

LEMMA TimeControlledQuiet ==
    ASSUME NEW s, DOMAIN s = Fields, NEW l
    PROVE  Quiet(s, TimeControlledChangeback(s, l))
<1> DEFINE f == [s.link EXCEPT ![l].phase = "ChangebackTimed"]
           a == [s EXCEPT !.link = f]
           b == Hold(a, l)
           c == Start(b, <<"Changeback", l>>)
<1>1. TimeControlledChangeback(s, l) = c
    BY DEF TimeControlledChangeback
<1> HIDE DEF f
<1>2. Quiet(s, a) /\ DOMAIN a = Fields
    BY LinkQuiet DEF Quiet
<1> HIDE DEF a
<1>3. Quiet(s, b) /\ DOMAIN b = Fields
    BY <1>2, HoldQuiet, QuietOn DEF Quiet
<1> HIDE DEF b
<1>4. Quiet(s, c)
    BY <1>3, StartQuiet, QuietOn
<1> QED BY <1>1, <1>4

LEMMA DeclareQuiet ==
    ASSUME NEW s, DOMAIN s = Fields, NEW l, NEW carrying
    PROVE  Quiet(s, DeclareChangeback(s, l, carrying))
<1> DEFINE a == Hold(s, l)
           f == [a.link EXCEPT ![l].declared = carrying]
           b == [a EXCEPT !.link = f]
           g == [f EXCEPT ![l].phase = "ChangebackDeclared"]
           c == [b EXCEPT !.link = g]
           action == [do |-> "Declare", link |-> l, behind |-> carrying]
           d == Push(c, action)
           e == Start(d, <<"Changeback", l>>)
<1>1. DOMAIN a = Fields /\ Quiet(s, a)
    BY HoldQuiet DEF Quiet
<1>2. DeclareChangeback(s, l, carrying) = e
    BY <1>1 DEF DeclareChangeback, Fields
<1>3. Unheard(action) /\ Invites(action) = {}
    BY DEF Unheard, Invites
<1> HIDE DEF a, f, g, action
<1>4. Quiet(s, b) /\ DOMAIN b = Fields
    BY <1>1, LinkQuiet, QuietOn DEF Quiet
<1> HIDE DEF b
<1>5. Quiet(s, c) /\ DOMAIN c = Fields
    BY <1>4, LinkQuiet, QuietOn DEF Quiet
<1> HIDE DEF c
<1>6. Quiet(s, d) /\ DOMAIN d = Fields
    BY <1>3, <1>5, PushQuiet, QuietOn DEF Quiet
<1> HIDE DEF d
<1>7. Quiet(s, e)
    BY <1>6, StartQuiet, QuietOn
<1> QED BY <1>2, <1>7

LEMMA BeginChangeoverQuiet ==
    ASSUME NEW s, DOMAIN s = Fields, NEW l
    PROVE  Quiet(s, BeginChangeover(s, l))
<1> DEFINE held == Hold(s, l)
           f == [held.link EXCEPT ![l].phase = "ChangeoverOrdered"]
           g == [held.link EXCEPT ![l].phase = "ChangeoverTimed"]
           ordered == [held EXCEPT !.link = f]
           timed == [held EXCEPT !.link = g]
           message == AboutFsn(l, "XCO", s.link[l].bsnt)
           sent == Send(ordered, LinksetOf[l], message, Avoiding(l))
           t == <<"Changeover", l>>
<1>1. Quiet(s, held) /\ DOMAIN held = Fields
    BY HoldQuiet DEF Quiet
<1>2. BeginChangeover(s, l) \in {Start(sent, t), Start(timed, t)}
    BY DEF BeginChangeover
<1>3. Ordinary(message)
    BY DEF Ordinary, AboutFsn
<1> HIDE DEF held, f, g, message, t
<1>4. Quiet(s, timed) /\ Quiet(s, ordered) /\ DOMAIN timed = Fields /\ DOMAIN ordered = Fields
    BY <1>1, LinkQuiet, QuietOn DEF Quiet
<1> HIDE DEF timed, ordered
<1>5. Quiet(s, sent) /\ DOMAIN sent = Fields
    BY <1>3, <1>4, SendQuiet, QuietOn DEF Quiet
<1> HIDE DEF sent
<1> QED BY <1>2, <1>4, <1>5, StartQuiet, QuietOn

LEMMA AllowRoutesQuiet ==
    ASSUME NEW s, DOMAIN s = Fields, NEW linksets
    PROVE  LET n == AllowRoutesThrough(s, linksets) IN
           /\ Quiet(s, n)
           /\ n.link = s.link /\ n.servers = s.servers /\ n.paused = s.paused
           /\ n.isolated = s.isolated
           /\ n.status = s.status \ {x \in s.status : Routes[x[1]][x[2]].via \in linksets}
<1> DEFINE cleared == {x \in s.status : Routes[x[1]][x[2]].via \in linksets}
           through == {<<x[1], Routes[x[1]][x[2]].via>> : x \in cleared}
           status == s.status \ cleared
           timers == s.timers \ {<<"RouteSetTest", p[1], p[2]>> : p \in through}
           mark == {k \in s.mark : <<k[1], k[2]>> \notin through}
           n == [s EXCEPT !.status = status, !.timers = timers, !.mark = mark]
<1>1. AllowRoutesThrough(s, linksets) = n
    BY DEF AllowRoutesThrough, Fields
<1>2. status = s.status \ {x \in s.status : Routes[x[1]][x[2]].via \in linksets}
    OBVIOUS
<1> HIDE DEF status, timers, mark
<1>3. /\ DOMAIN n = Fields
      /\ n.told = s.told /\ n.synced = s.synced /\ n.restarting = s.restarting /\ n.out = s.out
      /\ n.link = s.link /\ n.servers = s.servers /\ n.paused = s.paused
      /\ n.isolated = s.isolated /\ n.status = status
    BY DEF Fields
<1> HIDE DEF n
<1>4. Quiet(s, n)
    BY <1>3, SameQuiet
<1> QED BY <1>1, <1>2, <1>3, <1>4

LEMMA AbandonQuiet ==
    ASSUME NEW s, DOMAIN s = Fields, NEW ls
    PROVE  Quiet(s, AbandonAdjacentRestart(s, ls))
<1> DEFINE a == [s EXCEPT !.restartingSets = @ \ {ls}, !.traSent = @ \ {ls},
                          !.traReceived = @ \ {ls}]
           t == <<"AdjacentRestart", ls>>
<1>1. AbandonAdjacentRestart(s, ls) \in {s, Stop(a, t)}
    BY DEF AbandonAdjacentRestart
<1> HIDE DEF t
<1>2. Alike(s, a)
    BY DEF Alike, Fields
<1> HIDE DEF a
<1>3. Quiet(s, a) /\ DOMAIN a = Fields
    BY <1>2, SameQuiet DEF Alike
<1> QED BY <1>1, <1>3, StopQuiet, QuietItself, QuietOn

----------------------------------------------------------------------------
(* Links: restoration, changeback and changeover, as they are heard.       *)

\* What comes before does not matter to the rest when nobody notices it.
LEMMA OntoTalks ==
    ASSUME NEW s, NEW n, NEW o, Quiet(s, n), SameWays(s, n), n.isolated = s.isolated, Talks(n, o)
    PROVE  Talks(s, o)
<1>1. Plain(s.out, n.out) /\ n.told = s.told /\ n.synced = s.synced /\ n.restarting = s.restarting
    BY DEF Quiet
<1>2. ASSUME NEW a, Leads(n, a) PROVE Leads(s, a)
    <2>1. DOMAIN a = Fields /\ a.told = s.told /\ Plain(s.out, a.out)
        BY <1>1, <1>2, PlainOn DEF Leads
    <2>2. CASE a.synced = n.synced /\ a.restarting = n.restarting
        BY <1>1, <2>1, <2>2 DEF Leads
    <2>3. CASE a.synced \subseteq n.synced /\ a.restarting = n.restarting /\ SameWays(n, a)
        BY <1>1, <2>1, <2>3, SameWaysOn DEF Leads
    <2>4. CASE (n.restarting \/ n.isolated) /\ (a.restarting \/ a.synced = {})
        BY <1>1, <2>1, <2>4 DEF Leads
    <2> QED BY <1>2, <2>2, <2>3, <2>4 DEF Leads
<1>3. CASE Leads(n, o)
    BY <1>2, <1>3 DEF Talks
<1>4. CASE Steady(n, o)
    BY <1>4, QuietSteady, SteadyOn DEF Talks
<1>5. CASE Settles(n, o)
    BY <1>2, <1>5 DEF Settles, Talks
<1> QED BY <1>3, <1>4, <1>5 DEF Talks

\* One link changes, and carries traffic as before.
LEMMA RephasedWays ==
    ASSUME NEW s, NEW n, NEW l \in Link, Rephased(s, n, l),
           n.link[l].phase \in Carrying <=> s.link[l].phase \in Carrying
    PROVE  SameWays(s, n)
<1>1. n.servers = s.servers /\ n.paused = s.paused /\ n.status = s.status
    BY DEF Rephased, Local
<1>2. ASSUME NEW k \in Link
      PROVE  /\ n.link[k].phase \in Carrying <=> s.link[k].phase \in Carrying
             /\ n.link[k].up <=> s.link[k].up
    BY DEF Rephased, Local
<1> QED BY <1>1, <1>2, LinksGiveWays DEF LinkAvailable

\* Methods before which everything may change, when settle is to tell it.
Whispers(s, n) == Quiet(s, n) \/ \E a : Quiet(s, a) /\ Steady(Settle(a), n)

LEMMA WhispersTalks ==
    ASSUME NEW s, NEW n, NEW o, Quiet(s, n), Whispers(n, o)
    PROVE  Talks(s, o)
<1>1. CASE Quiet(n, o)
    BY <1>1, QuietOn, QuietLeads
<1>2. CASE \E a : Quiet(n, a) /\ Steady(Settle(a), o)
    <2>1. PICK a : Quiet(n, a) /\ Steady(Settle(a), o)
        BY <1>2
    <2>2. Leads(s, a)
        BY <2>1, QuietOn, QuietLeads
    <2> QED BY <2>1, <2>2, QuietTalks
<1> QED BY <1>1, <1>2 DEF Whispers

LEMMA StartTrafficTalks ==
    ASSUME NEW s, DOMAIN s = Fields, NEW l
    PROVE  /\ Whispers(s, StartTraffic(s, l)) /\ Talks(s, StartTraffic(s, l))
           /\ StartTraffic(s, l).restarting = s.restarting
<1> DEFINE f == [s.link EXCEPT ![l].phase = "Open"]
           a == [s EXCEPT !.link = f]
           b == Settle(a)
           n == OpenAll(b, {l})
<1>1. StartTraffic(s, l) \in {n, TimeControlledChangeback(s, l)}
    BY DEF StartTraffic, Open
<1> HIDE DEF f
<1>2. Quiet(s, a) /\ DOMAIN a = Fields /\ a.restarting = s.restarting
    BY LinkQuiet DEF Quiet
<1> HIDE DEF a
<1>3. DOMAIN b = Fields /\ b.restarting = a.restarting
    BY <1>2, SettleSpeaks
<1>4. Steady(b, n)
    <2> HIDE DEF b
    <2> QED BY <1>3, OpenAllSteady
<1> HIDE DEF n
<1>5. Whispers(s, n) /\ n.restarting = s.restarting
    BY <1>2, <1>3, <1>4 DEF Whispers, Steady
<1>6. Whispers(s, StartTraffic(s, l)) /\ StartTraffic(s, l).restarting = s.restarting
    BY <1>1, <1>5, TimeControlledQuiet DEF Whispers, Quiet
<1> QED BY <1>6, QuietItself, WhispersTalks

LEMMA BeginAdjacentRestartTalks ==
    ASSUME NEW s, Shape(s), NEW l \in Link, ~LinksetAvailable(s, LinksetOf[l])
    PROVE  /\ Talks(s, BeginAdjacentRestart(s, l, LinksetOf[l]))
           /\ LinksetOf[l] \notin s.synced => Whispers(s, BeginAdjacentRestart(s, l, LinksetOf[l]))
           /\ BeginAdjacentRestart(s, l, LinksetOf[l]).restarting = s.restarting
<1> DEFINE ls == LinksetOf[l]
           a == [s EXCEPT !.restartingSets = @ \cup {ls}, !.traReceived = @ \ {ls},
                          !.synced = @ \ {ls}]
           b == AllowRoutesThrough(a, {ls})
           f == [b.link EXCEPT ![l].phase = "AwaitRestart"]
           c == [b EXCEPT !.link = f]
           d == Start(c, <<"AdjacentRestart", ls>>)
           e == Settle(d)
           g == SendAll(e, {ls}, Tra, OnLink(l))
           n == [g EXCEPT !.traSent = @ \cup {ls}]
<1>1. BeginAdjacentRestart(s, l, ls) = n
    BY DEF BeginAdjacentRestart, Send
<1>2. DOMAIN s = Fields /\ s.link \in [Link -> LinkStates]
    BY DEF Shape
<1>3. /\ DOMAIN a = Fields
      /\ a.told = s.told /\ a.synced = s.synced \ {ls} /\ a.restarting = s.restarting
      /\ a.out = s.out /\ a.link = s.link
      /\ a.servers = s.servers /\ a.paused = s.paused /\ a.status = s.status
    BY <1>2 DEF Fields
<1> HIDE DEF a
<1>4. /\ Quiet(a, b) /\ DOMAIN b = Fields
      /\ b.link = a.link /\ b.servers = a.servers /\ b.paused = a.paused
      /\ b.status = a.status \ {x \in a.status : Routes[x[1]][x[2]].via \in {ls}}
    BY <1>3, AllowRoutesQuiet DEF Quiet
<1> HIDE DEF b
<1>5. /\ \A k \in Link \ {l} : f[k] = s.link[k]
      /\ f[l].phase = "AwaitRestart" /\ f[l].up = s.link[l].up
    BY <1>2, <1>3, <1>4 DEF LinkStates
<1> HIDE DEF f
<1>6. /\ Quiet(b, c) /\ DOMAIN c = Fields
      /\ c.link = f /\ c.servers = b.servers /\ c.paused = b.paused /\ c.status = b.status
    BY <1>4, LinkQuiet DEF Quiet, Fields
<1> HIDE DEF c
<1>7. /\ Quiet(c, d) /\ DOMAIN d = Fields
      /\ d.link = f /\ d.servers = c.servers /\ d.paused = c.paused /\ d.status = c.status
    BY <1>6, StartQuiet DEF Quiet, Start, Fields
<1> HIDE DEF d
<1>8. Quiet(a, d)
    BY <1>4, <1>6, <1>7, QuietOn
<1>9. SameWays(s, d)
    <2>1. \A k \in LinksOf[ls] : s.link[k].phase \notin Carrying
        BY DEF LinksetAvailable, LinkAvailable
    <2>2. ls \in Linkset /\ l \in LinksOf[ls] /\ \A x \in Linkset : \A k \in LinksOf[x] : k \in Link
        BY LinksAssumption DEF LinksOf
    <2>3. ASSUME NEW k \in Link
          PROVE  /\ d.link[k].phase \in Carrying <=> s.link[k].phase \in Carrying
                 /\ d.link[k].up <=> s.link[k].up
        BY <1>5, <1>7, <2>1, <2>2, PhasesAre
    <2>4. ASSUME NEW x \in Linkset
          PROVE  /\ LinksetAvailable(d, x) <=> LinksetAvailable(s, x)
                 /\ LinksetSignalling(d, x) <=> LinksetSignalling(s, x)
        BY <2>2, <2>3 DEF LinksetAvailable, LinksetSignalling, LinkAvailable
    <2>5. ASSUME NEW x \in Dest, NEW r \in Nat, Routes[x][r].via # ls
          PROVE  StatusOf(d, x, r) = StatusOf(s, x, r)
        <3>1. ASSUME NEW p
              PROVE  <<x, r, p>> \in d.status <=> <<x, r, p>> \in s.status
            <4>1. <<x, r, p>>[1] = x /\ <<x, r, p>>[2] = r
                OBVIOUS
            <4> QED BY <1>3, <1>4, <1>6, <1>7, <2>5, <4>1
        <3> QED BY <3>1 DEF StatusOf
    <2>6. d.servers = s.servers /\ d.paused = s.paused
        BY <1>3, <1>4, <1>6, <1>7
    <2> QED BY <2>4, <2>5, <2>6, WaysAre
<1>10. Leads(s, d)
    BY <1>3, <1>7, <1>8, <1>9 DEF Leads, Quiet
<1>11. DOMAIN e = Fields /\ e.restarting = d.restarting
    BY <1>7, SettleSpeaks
<1>12. Steady(e, g)
    <2> HIDE DEF e
    <2> QED BY <1>11, SendAllSteady DEF Tra
<1> HIDE DEF g
<1>13. DOMAIN g = Fields
    BY <1>12 DEF Steady
<1>14. Alike(g, n)
    BY <1>13 DEF Alike, Fields
<1> HIDE DEF n
<1>15. Steady(g, n)
    BY <1>14, AlikeWays, SameQuiet, QuietSteady DEF Alike
<1>16. Steady(e, n)
    BY <1>12, <1>15, SteadyOn
<1>17. n.restarting = s.restarting
    BY <1>3, <1>8, <1>11, <1>16 DEF Steady, Quiet
<1>18. ls \notin s.synced => Quiet(s, d)
    BY <1>3, <1>8, SameQuiet, QuietOn
<1> QED BY <1>1, <1>10, <1>16, <1>17, <1>18, QuietTalks DEF Whispers

\* restore.
LEMMA RestoreTalks ==
    ASSUME NEW s, Shape(s), NEW l \in Link
    PROVE  Talks(s, Restore(s, l)) /\ Restore(s, l).restarting = s.restarting
<1> DEFINE ls == LinksetOf[l]
           carrying == {k \in LinksOf[ls] \ {l} : s.link[k].phase = "Open"}
           f == [s.link EXCEPT ![l].phase = "AwaitRestart"]
           waits == [s EXCEPT !.link = f]
<1>0. DOMAIN s = Fields
    BY DEF Shape
<1>1. \/ Restore(s, l) \in {waits, TimeControlledChangeback(s, l),
                            DeclareChangeback(s, l, carrying), StartTraffic(s, l)}
      \/ Restore(s, l) = BeginAdjacentRestart(s, l, ls) /\ ~LinksetAvailable(s, ls)
    BY DEF Restore
<1> HIDE DEF carrying, f
<1>2. \A n \in {waits, TimeControlledChangeback(s, l), DeclareChangeback(s, l, carrying)} :
          Talks(s, n) /\ n.restarting = s.restarting
    <2>1. /\ Quiet(s, waits) /\ Quiet(s, TimeControlledChangeback(s, l))
          /\ Quiet(s, DeclareChangeback(s, l, carrying))
        BY <1>0, LinkQuiet, TimeControlledQuiet, DeclareQuiet
    <2> HIDE DEF waits
    <2> QED BY <2>1, QuietLeads DEF Quiet
<1> HIDE DEF waits
<1> QED BY <1>0, <1>1, <1>2, StartTrafficTalks, BeginAdjacentRestartTalks

LEMMA SendSame ==
    ASSUME NEW s, DOMAIN s = Fields, NEW ls, NEW message, NEW path
    PROVE  Send(s, ls, message, path).link = s.link
BY DEF Send, SendAll, Push, Fields

LEMMA AcknowledgeSame ==
    ASSUME NEW s, DOMAIN s = Fields, NEW l, NEW emergency
    PROVE  AcknowledgeOrder(s, l, emergency).link = s.link
<1> DEFINE message == IF emergency THEN About(l, "ECA") ELSE AboutFsn(l, "XCA", s.link[l].bsnt)
<1>1. AcknowledgeOrder(s, l, emergency) = Send(s, LinksetOf[l], message, Avoiding(l))
    BY DEF AcknowledgeOrder
<1> HIDE DEF message
<1> QED BY <1>1, SendSame

\* complete_changeover of a link that does not come back at once.
LEMMA CompleteChangeoverQuiet ==
    ASSUME NEW s, DOMAIN s = Fields, NEW l, NEW fsnc,
           ~ (s.link[l].back /\ s.link[l].up /\ ~s.link[l].remoteInhibited)
    PROVE  Quiet(s, CompleteChangeover(s, l, fsnc))
<1> DEFINE a == Stop(s, <<"Changeover", l>>)
           f == [a.link EXCEPT ![l].phase = "Closed"]
           b == [a EXCEPT !.link = f]
           c == Divert(b, l, fsnc)
           g == [c.link EXCEPT ![l].back = FALSE]
           n == [c EXCEPT !.link = g]
<1>1. CompleteChangeover(s, l, fsnc) = n
    BY DEF CompleteChangeover
<1>2. Quiet(s, a) /\ DOMAIN a = Fields
    BY StopQuiet DEF Quiet
<1> HIDE DEF a, f
<1>3. Quiet(s, b) /\ DOMAIN b = Fields
    BY <1>2, LinkQuiet, QuietOn DEF Quiet
<1> HIDE DEF b
<1>4. Quiet(s, c) /\ DOMAIN c = Fields
    BY <1>3, DivertQuiet, QuietOn DEF Quiet
<1> HIDE DEF c, g
<1>5. Quiet(s, n)
    BY <1>4, LinkQuiet, QuietOn
<1> QED BY <1>1, <1>5

\* complete_changeover of a link that carries no traffic.
LEMMA CompleteChangeoverTalks ==
    ASSUME NEW s, Shape(s), NEW l \in Link, NEW fsnc, s.link[l].phase \notin Carrying
    PROVE  Talks(s, CompleteChangeover(s, l, fsnc))
<1> DEFINE a == Stop(s, <<"Changeover", l>>)
           b == [a EXCEPT !.link[l].phase = "Closed"]
           c == Divert(b, l, fsnc)
           n == [c EXCEPT !.link[l].back = FALSE]
<1>1. CompleteChangeover(s, l, fsnc) \in {n, Restore(n, l)}
    BY DEF CompleteChangeover
<1>2. Rephased(s, a, l) /\ Shape(a) /\ Quiet(s, a)
    BY StopRephased, RephasedShape, StopQuiet DEF Shape
<1> HIDE DEF a
<1>3. /\ Rephased(a, b, l) /\ Shape(b) /\ b.link[l] = [a.link[l] EXCEPT !.phase = "Closed"]
    BY <1>2, PhasesAre, PhaseRephased, RephasedShape
<1>4. b.link[l].phase = "Closed"
    BY <1>2, <1>3, LinkKnown DEF LinkStates
<1>5. Quiet(a, b)
    BY <1>2, LinkQuiet DEF Shape
<1> HIDE DEF b
<1>6. Rephased(b, c, l) /\ Shape(c) /\ c.link[l] = b.link[l] /\ Quiet(b, c)
    BY <1>3, DivertRephased, RephasedShape, DivertQuiet DEF Shape
<1> HIDE DEF c
<1>7. Rephased(c, n, l) /\ Shape(n) /\ n.link[l] = [c.link[l] EXCEPT !.back = FALSE]
    <2>1. Shape(c) /\ FALSE \in BOOLEAN
        BY <1>6
    <2>2. Rephased(c, n, l) /\ n.link[l] = [c.link[l] EXCEPT !.back = FALSE]
        BY <2>1, BackRephased
    <2> HIDE DEF n
    <2> QED BY <2>2, RephasedShape
<1>8. Quiet(c, n)
    BY <1>6, LinkQuiet DEF Shape
<1>9. n.link[l].phase = "Closed"
    BY <1>4, <1>6, <1>7, LinkKnown DEF LinkStates
<1> HIDE DEF n
<1>10. Rephased(s, n, l) /\ Quiet(s, n)
    BY <1>2, <1>3, <1>5, <1>6, <1>7, <1>8, RephasedOn, QuietOn
<1>11. SameWays(s, n) /\ n.isolated = s.isolated
    BY <1>9, <1>10, RephasedWays, PhasesAre DEF Rephased, Local
<1>12. Talks(n, Restore(n, l))
    BY <1>7, RestoreTalks
<1> QED BY <1>1, <1>10, <1>11, <1>12, OntoTalks, QuietLeads

\* The end of a changeback.
LEMMA FinishChangebackSteady ==
    ASSUME NEW s, Shape(s), NEW l \in Link, s.link[l].phase \in Carrying
    PROVE  Steady(s, FinishChangeback(s, l))
<1> DEFINE none == {}
           a == [s EXCEPT !.link[l].declared = none]
           b == [a EXCEPT !.link[l].phase = "Open"]
           c == Stop(b, <<"Changeback", l>>)
           n == OpenAll(c, {l})
<1>1. FinishChangeback(s, l) = n
    BY DEF FinishChangeback, Open
<1>2. none \in SUBSET Link
    OBVIOUS
<1> HIDE DEF none
<1>3. Rephased(s, a, l) /\ Shape(a) /\ Quiet(s, a)
    <2>1. Rephased(s, a, l)
        BY <1>2, DeclaredRephased
    <2>2. Quiet(s, a)
        BY LinkQuiet DEF Shape
    <2> QED BY <2>1, <2>2, RephasedShape
<1> HIDE DEF a
<1>4. Rephased(a, b, l) /\ Shape(b) /\ b.link[l] = [a.link[l] EXCEPT !.phase = "Open"]
    BY <1>3, PhasesAre, PhaseRephased, RephasedShape
<1>5. b.link[l].phase = "Open" /\ Quiet(a, b)
    <2>1. Quiet(a, b)
        BY <1>3, LinkQuiet DEF Shape
    <2>2. a.link[l] \in LinkStates
        BY <1>3, LinkKnown
    <2> QED BY <1>4, <2>1, <2>2 DEF LinkStates
<1> HIDE DEF b
<1>6. Rephased(b, c, l) /\ Shape(c) /\ c.link[l] = b.link[l] /\ Quiet(b, c)
    BY <1>4, StopRephased, RephasedShape, StopQuiet DEF Shape
<1> HIDE DEF c
<1>7. Steady(c, n)
    BY <1>6, OpenAllSteady DEF Shape
<1> HIDE DEF n
<1>8. Rephased(s, c, l) /\ Quiet(s, c)
    BY <1>3, <1>4, <1>5, <1>6, RephasedOn, QuietOn
<1>9. SameWays(s, c)
    BY <1>5, <1>6, <1>8, RephasedWays, PhasesAre
<1> QED BY <1>1, <1>7, <1>8, <1>9, QuietSteady, SteadyOn

LEMMA ChangebackTimeoutTalks ==
    ASSUME NEW s, Shape(s), NEW l \in Link
    PROVE  Talks(s, ChangebackTimeout(s, l))
<1> DEFINE f == [s.link EXCEPT ![l].phase = "ChangebackRepeated"]
           a == [s EXCEPT !.link = f]
           action == [do |-> "Declare", link |-> l, behind |-> s.link[l].declared]
           b == Push(a, action)
           c == Start(b, <<"Changeback", l>>)
<1>0. DOMAIN s = Fields
    BY DEF Shape
<1>1. \/ ChangebackTimeout(s, l) \in {s, c}
      \/ ChangebackTimeout(s, l) = FinishChangeback(s, l) /\ s.link[l].phase \in Carrying
    BY PhasesAre DEF ChangebackTimeout
<1>2. Unheard(action) /\ Invites(action) = {}
    BY DEF Unheard, Invites
<1> HIDE DEF f, action
<1>3. Quiet(s, a) /\ DOMAIN a = Fields
    BY <1>0, LinkQuiet DEF Quiet
<1> HIDE DEF a
<1>4. Quiet(s, b) /\ DOMAIN b = Fields
    BY <1>2, <1>3, PushQuiet, QuietOn DEF Quiet
<1> HIDE DEF b
<1>5. Quiet(s, c)
    BY <1>4, StartQuiet, QuietOn
<1> HIDE DEF c
<1>6. ASSUME s.link[l].phase \in Carrying PROVE Talks(s, FinishChangeback(s, l))
    BY <1>6, FinishChangebackSteady DEF Talks
<1> QED BY <1>0, <1>1, <1>5, <1>6, QuietItself, QuietLeads

LEMMA ChangebackAcknowledgementTalks ==
    ASSUME NEW s, Shape(s), NEW l \in Link, NEW behind
    PROVE  Talks(s, ChangebackAcknowledgement(s, l, behind))
<1> DEFINE left == s.link[l].declared \ {behind}
           n == [s EXCEPT !.link[l].declared = left]
<1>1. \/ ChangebackAcknowledgement(s, l, behind) = n
      \/ ChangebackAcknowledgement(s, l, behind) = FinishChangeback(n, l) /\ s.link[l].phase \in Declared
    BY DEF ChangebackAcknowledgement
<1>2. left \in SUBSET Link
    BY LinkKnown DEF LinkStates
<1> HIDE DEF left
<1>3. Rephased(s, n, l) /\ Shape(n) /\ n.link[l] = [s.link[l] EXCEPT !.declared = left] /\ Quiet(s, n)
    <2>1. Rephased(s, n, l) /\ n.link[l] = [s.link[l] EXCEPT !.declared = left]
        BY <1>2, DeclaredRephased
    <2>2. Quiet(s, n)
        BY LinkQuiet DEF Shape
    <2> HIDE DEF n
    <2> QED BY <2>1, <2>2, RephasedShape
<1>4. n.link[l].phase = s.link[l].phase
    BY <1>3, LinkKnown DEF LinkStates
<1> HIDE DEF n
<1>5. ASSUME s.link[l].phase \in Declared PROVE Talks(s, FinishChangeback(n, l))
    <2>1. Steady(n, FinishChangeback(n, l))
        BY <1>3, <1>4, <1>5, PhasesAre, FinishChangebackSteady
    <2>2. Steady(s, n)
        BY <1>3, <1>4, RephasedWays, QuietSteady
    <2> QED BY <2>1, <2>2, SteadyOn DEF Talks
<1> QED BY <1>1, <1>3, <1>5, QuietLeads

LEMMA ChangeoverOrderTalks ==
    ASSUME NEW s, Shape(s), NEW l \in Link, NEW fsnc, NEW emergency
    PROVE  Talks(s, ChangeoverOrder(s, l, fsnc, emergency))
<1> DEFINE a == AcknowledgeOrder(s, l, emergency)
           b == CompleteChangeover(a, l, fsnc)
           f == [s.link EXCEPT ![l].ordered = Order(fsnc, emergency)]
           c == [s EXCEPT !.link = f]
           d == FailLink(c, l)
           e == Send(s, LinksetOf[l], About(l, "ECA"), Avoiding(l))
<1>0. DOMAIN s = Fields
    BY DEF Shape
<1>1. \/ ChangeoverOrder(s, l, fsnc, emergency) = b /\ ~s.link[l].up
      \/ ChangeoverOrder(s, l, fsnc, emergency) \in {d, e}
    BY DEF ChangeoverOrder
<1>2. Quiet(s, a) /\ DOMAIN a = Fields /\ a.link = s.link
    BY <1>0, AcknowledgeQuiet, AcknowledgeSame DEF Quiet
<1> HIDE DEF a
<1>3. ~s.link[l].up => Quiet(s, b)
    BY <1>2, CompleteChangeoverQuiet, QuietOn
<1> HIDE DEF b, f
<1>4. Quiet(s, c) /\ DOMAIN c = Fields
    BY <1>0, LinkQuiet DEF Quiet
<1> HIDE DEF c
<1>5. Quiet(s, d)
    BY <1>4, FailLinkQuiet, QuietOn
<1>6. Quiet(s, e)
    BY <1>0, SendQuiet DEF About, Ordinary
<1> HIDE DEF d, e
<1> QED BY <1>1, <1>3, <1>5, <1>6, QuietLeads

LEMMA ChangeoverAcknowledgementTalks ==
    ASSUME NEW s, Shape(s), NEW l \in Link, NEW fsnc
    PROVE  Talks(s, ChangeoverAcknowledgement(s, l, fsnc))
<1>1. CASE s.link[l].phase = "ChangeoverOrdered"
    BY <1>1, PhasesAre, CompleteChangeoverTalks DEF ChangeoverAcknowledgement
<1>2. CASE s.link[l].phase # "ChangeoverOrdered"
    BY <1>2, QuietItself, QuietLeads DEF ChangeoverAcknowledgement, Shape
<1> QED BY <1>1, <1>2

LEMMA ChangeoverTimeoutTalks ==
    ASSUME NEW s, Shape(s), NEW l \in Link
    PROVE  Talks(s, ChangeoverTimeout(s, l))
<1>1. CASE s.link[l].phase \in Changeover
    BY <1>1, PhasesAre, CompleteChangeoverTalks DEF ChangeoverTimeout
<1>2. CASE s.link[l].phase \notin Changeover
    BY <1>2, QuietItself, QuietLeads DEF ChangeoverTimeout, Shape
<1> QED BY <1>1, <1>2

\* link_down lets no traffic go on.
LEMMA LinkDownTalks ==
    ASSUME NEW s, Shape(s), NEW l \in Link, NEW bsnt \in Fsn
    PROVE  Talks(s, LinkDown(s, l, bsnt))
<1> DEFINE order == s.link[l].ordered
           f == [s.link EXCEPT ![l].up = FALSE, ![l].bsnt = bsnt, ![l].back = FALSE,
                               ![l].ordered = NoOrder]
           down == [s EXCEPT !.link = f]
           acked == AcknowledgeOrder(down, l, order.emergency)
           answered == IF order.out THEN acked ELSE down
           none == {}
           told == [answered EXCEPT !.link[l].declared = none]
           stopped == Stop(told, <<"Changeback", l>>)
           held == Hold(stopped, l)
           phase == s.link[l].phase
           closed == [answered EXCEPT !.link[l].phase = "Closed"]
           n == CASE phase \in Carrying /\ order.out -> CompleteChangeover(held, l, order.fsnc)
                  [] phase \in Carrying /\ ~order.out -> BeginChangeover(stopped, l)
                  [] phase \in Changeover /\ order.out -> CompleteChangeover(answered, l, order.fsnc)
                  [] phase = "AwaitRestart" -> closed
                  [] OTHER -> answered
<1>0. DOMAIN s = Fields /\ s.link \in [Link -> LinkStates]
    BY DEF Shape
<1>1. LinkDown(s, l, bsnt) = AbandonAdjacentRestart(n, LinksetOf[l])
    <2>1. down = [s EXCEPT !.link[l].up = FALSE, !.link[l].bsnt = bsnt, !.link[l].back = FALSE,
                           !.link[l].ordered = NoOrder]
        BY <1>0 DEF Fields
    <2> HIDE DEF down
    <2> QED BY <2>1 DEF LinkDown
<1>2. f \in [Link -> LinkStates] /\ f[l].up = FALSE
    <2> DEFINE k == [s.link[l] EXCEPT !.up = FALSE, !.bsnt = bsnt, !.back = FALSE,
                                      !.ordered = NoOrder]
    <2>1. s.link[l] \in LinkStates
        BY <1>0
    <2>2. k \in LinkStates /\ k.up = FALSE
        BY <2>1 DEF LinkStates, Orders, NoOrder
    <2>3. f = [s.link EXCEPT ![l] = k]
        BY <1>0
    <2> HIDE DEF k, f
    <2> QED BY <1>0, <2>2, <2>3
<1>3. f[l] \in LinkStates
    BY <1>2
<1> HIDE DEF f
<1>4. Quiet(s, down) /\ DOMAIN down = Fields /\ down.link = f
    BY <1>0, LinkQuiet DEF Quiet, Fields
<1> HIDE DEF down
<1>5. Quiet(s, acked) /\ DOMAIN acked = Fields /\ acked.link = f
    BY <1>4, AcknowledgeQuiet, AcknowledgeSame, QuietOn DEF Quiet
<1> HIDE DEF acked
<1>6. Quiet(s, answered) /\ DOMAIN answered = Fields /\ answered.link = f
    BY <1>4, <1>5
<1> HIDE DEF answered, none
<1>7. Quiet(s, told) /\ DOMAIN told = Fields /\ told.link[l].up = FALSE
    <2>1. Quiet(answered, told)
        BY <1>6, LinkQuiet
    <2>2. told.link = [f EXCEPT ![l].declared = none]
        BY <1>6 DEF Fields
    <2> DEFINE r == [f[l] EXCEPT !.declared = none]
    <2>3. r.up = FALSE
        BY <1>2, <1>3 DEF LinkStates
    <2>4. told.link = [f EXCEPT ![l] = r]
        BY <2>2
    <2> HIDE DEF r, told
    <2>5. told.link[l].up = FALSE
        BY <1>2, <2>3, <2>4
    <2> QED BY <1>6, <2>1, <2>5, QuietOn DEF Quiet
<1> HIDE DEF told
<1>8. Quiet(s, stopped) /\ DOMAIN stopped = Fields /\ stopped.link[l].up = FALSE
    BY <1>7, StopQuiet, QuietOn DEF Quiet
<1> HIDE DEF stopped
<1>9. Quiet(s, held) /\ DOMAIN held = Fields /\ held.link[l].up = FALSE
    BY <1>8, HoldQuiet, QuietOn DEF Quiet
<1> HIDE DEF held
<1>10. Quiet(s, closed)
    BY <1>6, LinkQuiet, QuietOn
<1> HIDE DEF closed
<1>11. /\ Quiet(s, CompleteChangeover(held, l, order.fsnc))
       /\ Quiet(s, CompleteChangeover(answered, l, order.fsnc))
       /\ Quiet(s, BeginChangeover(stopped, l))
    <2>1. Quiet(held, CompleteChangeover(held, l, order.fsnc))
        BY <1>9, CompleteChangeoverQuiet
    <2>2. Quiet(answered, CompleteChangeover(answered, l, order.fsnc))
        BY <1>2, <1>6, CompleteChangeoverQuiet
    <2>3. Quiet(stopped, BeginChangeover(stopped, l))
        BY <1>8, BeginChangeoverQuiet
    <2> QED BY <1>6, <1>8, <1>9, <2>1, <2>2, <2>3, QuietOn
<1>12. n \in {CompleteChangeover(held, l, order.fsnc), CompleteChangeover(answered, l, order.fsnc),
              BeginChangeover(stopped, l), closed, answered}
    OBVIOUS
<1>13. Quiet(s, n) /\ DOMAIN n = Fields
    <2> HIDE DEF n
    <2> QED BY <1>6, <1>10, <1>11, <1>12 DEF Quiet
<1> HIDE DEF n
<1>14. Quiet(s, AbandonAdjacentRestart(n, LinksetOf[l]))
    BY <1>13, AbandonQuiet, QuietOn
<1> QED BY <1>1, <1>14, QuietLeads

----------------------------------------------------------------------------
(* Management inhibiting, as it is heard.                                  *)

LEMMA InhibitQuiet ==
    ASSUME NEW s, DOMAIN s = Fields, NEW l
    PROVE  Quiet(s, Inhibit(s, l))
<1> DEFINE f == [s.link EXCEPT ![l].remoteInhibited = TRUE]
           a == [s EXCEPT !.link = f]
           marked == SendAbout(a, l, "LIA")
           none == {}
           g == [marked.link EXCEPT ![l].declared = none]
           h == [g EXCEPT ![l].phase = "ChangeoverTimed"]
           k == [marked.link EXCEPT ![l].phase = "Closed"]
           leaving == [marked EXCEPT !.link = h]
           closed == [marked EXCEPT !.link = k]
           stopped == Stop(leaving, <<"Changeback", l>>)
           held == Hold(stopped, l)
           timed == Start(held, <<"Changeover", l>>)
           left == CASE s.link[l].phase \in Carrying -> timed
                     [] s.link[l].phase = "AwaitRestart" -> closed
                     [] OTHER -> marked
<1>1. Quiet(s, a) /\ DOMAIN a = Fields
    <2> HIDE DEF f
    <2> QED BY LinkQuiet DEF Quiet
<1>2. Quiet(s, marked) /\ DOMAIN marked = Fields
    <2> HIDE DEF a
    <2> QED BY <1>1, SendAboutQuiet, QuietOn DEF Quiet
<1>3. Inhibit(s, l) = Start(left, <<"InhibitTest", l>>)
    <2>1. leaving = [marked EXCEPT !.link[l].declared = {}, !.link[l].phase = "ChangeoverTimed"]
        <3> HIDE DEF marked
        <3> QED BY <1>2 DEF Fields
    <2> HIDE DEF leaving
    <2> QED BY <2>1 DEF Inhibit
<1> HIDE DEF marked, h, k
<1>4. Quiet(s, leaving) /\ DOMAIN leaving = Fields /\ Quiet(s, closed)
    BY <1>2, LinkQuiet, QuietOn DEF Quiet
<1> HIDE DEF leaving, closed
<1>5. Quiet(s, stopped) /\ DOMAIN stopped = Fields
    BY <1>4, StopQuiet, QuietOn DEF Quiet
<1> HIDE DEF stopped
<1>6. Quiet(s, held) /\ DOMAIN held = Fields
    BY <1>5, HoldQuiet, QuietOn DEF Quiet
<1> HIDE DEF held
<1>7. Quiet(s, timed)
    BY <1>6, StartQuiet, QuietOn
<1> HIDE DEF timed
<1>8. Quiet(s, left)
    BY <1>2, <1>4, <1>7
<1> HIDE DEF left
<1>9. Quiet(s, Start(left, <<"InhibitTest", l>>))
    BY <1>8, StartQuiet, QuietOn DEF Quiet
<1> QED BY <1>3, <1>9

LEMMA LinQuiet ==
    ASSUME NEW s, DOMAIN s = Fields, NEW l
    PROVE  Quiet(s, Lin(s, l))
<1>1. Lin(s, l) \in {SendAbout(s, l, "LIA"), SendAbout(s, l, "LID"), Inhibit(s, l)}
    BY DEF Lin
<1> QED BY <1>1, SendAboutQuiet, InhibitQuiet

\* A message about a link, and a timer of it.
LEMMA AttemptQuiet ==
    ASSUME NEW s, NEW a, Quiet(s, a), NEW l, NEW name, name \notin {"TFP", "TFA", "TRA"}, NEW t
    PROVE  Quiet(s, Start(SendAbout(a, l, name), t)) /\ Quiet(s, Stop(a, t))
<1> DEFINE b == SendAbout(a, l, name)
<1>1. Quiet(s, b) /\ DOMAIN b = Fields /\ DOMAIN a = Fields
    BY SendAboutQuiet, QuietOn DEF Quiet
<1> HIDE DEF b
<1>2. Quiet(s, Start(b, t)) /\ Quiet(s, Stop(a, t))
    BY <1>1, StartQuiet, StopQuiet, QuietOn
<1> QED BY <1>2 DEF b

LEMMA AttemptsQuiet ==
    ASSUME NEW s, DOMAIN s = Fields, NEW l
    PROVE  /\ Quiet(s, Lfu(s, l)) /\ Quiet(s, Lua(s, l)) /\ Quiet(s, Llt(s, l)) /\ Quiet(s, Lrt(s, l))
           /\ Quiet(s, RepeatUninhibit(s, l)) /\ Quiet(s, RepeatForceUninhibit(s, l))
           /\ Quiet(s, InhibitTestTimeout(s, l))
<1> DEFINE F(n) == [s EXCEPT !.link[l].forceAttempts = n]
           U(n) == [s EXCEPT !.link[l].uninhibitAttempts = n]
           force == <<"ForceUninhibit", l>>
           un == <<"Uninhibit", l>>
           By(a, name, t) == Start(SendAbout(a, l, name), t)
           test == <<"InhibitTest", l>>
<1>1. /\ Lfu(s, l) = SendAbout(s, l, "LUN")
      /\ Lua(s, l) \in {s, Stop(U(0), un)}
      /\ Llt(s, l) \in {s, By(F(1), "LFU", force)}
      /\ Lrt(s, l) \in {s, By(U(1), "LUN", un)}
      /\ RepeatUninhibit(s, l) \in {s, By(U(2), "LUN", un), U(0)}
      /\ RepeatForceUninhibit(s, l) \in {s, By(F(2), "LFU", force), F(0)}
      /\ InhibitTestTimeout(s, l) \in {s, By(s, "LRT", test)}
    BY DEF Lfu, Lua, Llt, Lrt, RepeatUninhibit, RepeatForceUninhibit, InhibitTestTimeout
<1>2. \A n : Quiet(s, F(n)) /\ Quiet(s, U(n))
    BY SameQuiet DEF Fields
<1>3. Quiet(s, s)
    BY QuietItself
<1> HIDE DEF F, U, force, un, test
<1>4. Quiet(s, SendAbout(s, l, "LUN"))
    BY SendAboutQuiet
<1>5. Quiet(s, Stop(U(0), un))
    BY <1>2, AttemptQuiet
<1>6. Quiet(s, By(F(1), "LFU", force)) /\ Quiet(s, By(F(2), "LFU", force))
    BY <1>2, AttemptQuiet
<1>7. Quiet(s, By(U(1), "LUN", un)) /\ Quiet(s, By(U(2), "LUN", un))
    BY <1>2, AttemptQuiet
<1>8. Quiet(s, By(s, "LRT", test))
    BY <1>3, AttemptQuiet
<1> HIDE DEF By
<1> QED BY <1>1, <1>2, <1>3, <1>4, <1>5, <1>6, <1>7, <1>8

\* inhibit_message, for an uninhibit message.
LEMMA LunTalks ==
    ASSUME NEW s, Shape(s), NEW l \in Link
    PROVE  Talks(s, Lun(s, l))
<1> DEFINE a == SendAbout(s, l, "LUA")
           b == [a EXCEPT !.link[l].forceAttempts = 0]
           answered == Stop(b, <<"ForceUninhibit", l>>)
           c == [answered EXCEPT !.link[l].remoteInhibited = FALSE]
           lifted == Stop(c, <<"InhibitTest", l>>)
           back == [lifted EXCEPT !.link[l].back = TRUE]
<1>1. Lun(s, l) \in {answered, lifted, back, Restore(lifted, l)}
    BY DEF Lun
<1>2. Still(s, a) /\ Shape(a) /\ Quiet(s, a)
    BY SendAboutStill, SendAboutQuiet DEF Still, Shape
<1> HIDE DEF a
<1>3. /\ Quiet(s, b) /\ Shape(b) /\ b.servers = s.servers /\ b.paused = s.paused
      /\ b.status = s.status /\ b.isolated = s.isolated
      /\ \A k \in Link : b.link[k].phase = s.link[k].phase /\ b.link[k].up = s.link[k].up
    <2>1. Quiet(a, b)
        BY <1>2, LinkQuiet DEF Shape
    <2>2. /\ Shape(b) /\ b.servers = a.servers /\ b.paused = a.paused
          /\ b.status = a.status /\ b.isolated = a.isolated
          /\ \A k \in Link : b.link[k].phase = a.link[k].phase /\ b.link[k].up = a.link[k].up
        BY <1>2 DEF Shape, Fields, LinkStates
    <2> HIDE DEF b
    <2> QED BY <1>2, <2>1, <2>2, QuietOn DEF Still
<1> HIDE DEF b
<1>4. /\ Quiet(s, answered) /\ Shape(answered) /\ answered.servers = s.servers
      /\ answered.paused = s.paused /\ answered.status = s.status
      /\ answered.isolated = s.isolated /\ answered.link = b.link
    <2>1. Quiet(b, answered)
        BY <1>3, StopQuiet DEF Shape
    <2>2. /\ Shape(answered) /\ answered.servers = b.servers /\ answered.paused = b.paused
          /\ answered.status = b.status /\ answered.isolated = b.isolated /\ answered.link = b.link
        BY <1>3 DEF Shape, Fields, Stop
    <2> HIDE DEF answered
    <2> QED BY <1>3, <2>1, <2>2, QuietOn
<1> HIDE DEF answered
<1>5. /\ Quiet(s, c) /\ Shape(c) /\ c.servers = s.servers /\ c.paused = s.paused
      /\ c.status = s.status /\ c.isolated = s.isolated
      /\ \A k \in Link : c.link[k].phase = s.link[k].phase /\ c.link[k].up = s.link[k].up
    <2>1. Quiet(answered, c)
        BY <1>4, LinkQuiet DEF Shape
    <2> DEFINE k == [answered.link[l] EXCEPT !.remoteInhibited = FALSE]
               o == [answered EXCEPT !.link = [@ EXCEPT ![l] = k]]
    <2>2. k \in LinkStates /\ k.phase = answered.link[l].phase /\ k.up = answered.link[l].up
        <3>1. answered.link[l] \in LinkStates
            BY <1>4, LinkKnown
        <3> QED BY <3>1 DEF LinkStates
    <2>3. c = o
        OBVIOUS
    <2> HIDE DEF k
    <2>4. Local(answered, o, {l}) /\ o.link[l] = k
        BY <1>4, <2>2, LinkLocal
    <2> HIDE DEF o, c
    <2> QED BY <1>3, <1>4, <2>1, <2>2, <2>3, <2>4, QuietOn DEF Local
<1> HIDE DEF c
<1>6. /\ Quiet(s, lifted) /\ Shape(lifted) /\ lifted.servers = s.servers
      /\ lifted.paused = s.paused /\ lifted.status = s.status
      /\ lifted.isolated = s.isolated /\ lifted.link = c.link
    <2>1. Quiet(c, lifted)
        BY <1>5, StopQuiet DEF Shape
    <2>2. /\ Shape(lifted) /\ lifted.servers = c.servers /\ lifted.paused = c.paused
          /\ lifted.status = c.status /\ lifted.isolated = c.isolated /\ lifted.link = c.link
        BY <1>5 DEF Shape, Fields, Stop
    <2> HIDE DEF lifted
    <2> QED BY <1>5, <2>1, <2>2, QuietOn
<1> HIDE DEF lifted
<1>7. SameWays(s, lifted)
    BY <1>5, <1>6, LinksGiveWays DEF LinkAvailable
<1>8. Talks(s, Restore(lifted, l))
    BY <1>6, <1>7, RestoreTalks, OntoTalks
<1>9. Quiet(s, back)
    BY <1>6, LinkQuiet, QuietOn DEF Shape
<1> HIDE DEF back
<1> QED BY <1>1, <1>4, <1>6, <1>8, <1>9, QuietLeads

----------------------------------------------------------------------------
(* Routes, as they are heard.                                              *)

LEMMA RouteStepsQuiet ==
    ASSUME NEW s, DOMAIN s = Fields, NEW d, NEW r, NEW ls, NEW status, NEW marks
    PROVE  /\ Quiet(s, SetStatus(s, d, r, status)) /\ Quiet(s, SetMarks(s, d, marks))
           /\ Quiet(s, Defer(s, d, ls, status)) /\ Quiet(s, ApplyDeferred(s, d))
           /\ Quiet(s, Release(s, d)) /\ Quiet(s, HoldDestination(s, d))
<1>1. Quiet(s, SetStatus(s, d, r, status))
    BY SameQuiet DEF Fields, SetStatus
<1>2. \A k : Quiet(s, SetMarks(s, d, k))
    BY SameQuiet DEF Fields, SetMarks
<1>3. Quiet(s, Defer(s, d, ls, status))
    BY SameQuiet DEF Fields, Defer
<1>4. Quiet(s, ApplyDeferred(s, d))
    <2> DEFINE deferred == {k \in s.deferred : k[1] = d}
               a == SetMarks(s, d, deferred)
               b == [a EXCEPT !.deferred = @ \ deferred]
    <2>1. ApplyDeferred(s, d) = b
        BY DEF ApplyDeferred
    <2>2. Quiet(s, a)
        BY <1>2
    <2> HIDE DEF a, deferred
    <2>3. DOMAIN a = Fields
        BY <2>2 DEF Quiet
    <2>4. Quiet(a, b)
        BY <2>3, SameQuiet DEF Fields
    <2> QED BY <2>1, <2>2, <2>4, QuietOn
<1>5. Quiet(s, Release(s, d))
    <2> DEFINE action == [do |-> "Release", dest |-> d]
               a == [s EXCEPT !.holding = @ \ {d}]
               b == Stop(a, <<"Rerouting", d>>)
    <2>1. Release(s, d) = Push(b, action)
        BY DEF Release
    <2>2. Unheard(action) /\ Invites(action) = {}
        BY DEF Unheard, Invites
    <2>3. Quiet(s, a) /\ DOMAIN a = Fields
        BY SameQuiet DEF Fields
    <2> HIDE DEF a, action
    <2>4. Quiet(s, b) /\ DOMAIN b = Fields
        BY <2>3, StopQuiet, QuietOn DEF Quiet
    <2> HIDE DEF b
    <2> QED BY <2>1, <2>2, <2>4, PushQuiet, QuietOn
<1>6. Quiet(s, HoldDestination(s, d))
    <2> DEFINE action == [do |-> "HoldDestination", dest |-> d]
               a == [s EXCEPT !.holding = @ \cup {d}]
               b == Push(a, action)
    <2>1. HoldDestination(s, d) = Start(b, <<"Rerouting", d>>)
        BY DEF HoldDestination
    <2>2. Unheard(action) /\ Invites(action) = {}
        BY DEF Unheard, Invites
    <2>3. Quiet(s, a) /\ DOMAIN a = Fields
        BY SameQuiet DEF Fields
    <2> HIDE DEF a, action
    <2>4. Quiet(s, b) /\ DOMAIN b = Fields
        BY <2>2, <2>3, PushQuiet, QuietOn DEF Quiet
    <2> HIDE DEF b
    <2> QED BY <2>1, <2>4, StartQuiet, QuietOn
<1> QED BY <1>1, <1>2, <1>3, <1>4, <1>5, <1>6

\* A transfer message.
LEMMA MarkRouteQuiet ==
    ASSUME NEW s, DOMAIN s = Fields, NEW ls, NEW d, NEW status
    PROVE  Quiet(s, MarkRoute(s, ls, d, status))
<1> DEFINE noted == SetStatus(s, d, FirstRouteThrough(d, ls), status)
           t == <<"RouteSetTest", d, ls>>
           stopped == Stop(noted, t)
           started == Start(noted, t)
           tested == IF status = "Allowed" THEN stopped ELSE started
           deferred == Defer(tested, d, ls, status)
           marks == {<<d, ls, status>>}
           applied == ApplyDeferred(tested, d)
           forced == SetMarks(applied, d, marks)
           released == Release(forced, d)
           held == HoldDestination(deferred, d)
           marked == SetMarks(tested, d, marks)
<1>1. MarkRoute(s, ls, d, status) \in {released, forced, deferred, held, marked}
    BY DEF MarkRoute
<1>2. Quiet(s, noted) /\ DOMAIN noted = Fields
    BY RouteStepsQuiet DEF Quiet
<1> HIDE DEF noted, t, marks
<1>3. Quiet(s, stopped) /\ Quiet(s, started)
    BY <1>2, StopQuiet, StartQuiet, QuietOn
<1> HIDE DEF stopped, started
<1>4. Quiet(s, tested) /\ DOMAIN tested = Fields
    BY <1>3 DEF Quiet
<1> HIDE DEF tested
<1>5. Quiet(s, deferred) /\ Quiet(s, applied) /\ Quiet(s, marked)
    BY <1>4, RouteStepsQuiet, QuietOn
<1>6. DOMAIN deferred = Fields /\ DOMAIN applied = Fields
    BY <1>5 DEF Quiet
<1> HIDE DEF deferred, applied
<1>7. Quiet(s, forced) /\ Quiet(s, held)
    BY <1>5, <1>6, RouteStepsQuiet, QuietOn
<1>8. DOMAIN forced = Fields
    BY <1>7 DEF Quiet
<1> HIDE DEF forced
<1>9. Quiet(s, released)
    BY <1>7, <1>8, RouteStepsQuiet, QuietOn
<1> HIDE DEF held, marked, released
<1> QED BY <1>1, <1>5, <1>7, <1>9

LEMMA RouteMessageQuiet ==
    ASSUME NEW s, DOMAIN s = Fields, NEW ls, NEW d, NEW status
    PROVE  Quiet(s, RouteMessage(s, ls, d, status))
<1>1. RouteMessage(s, ls, d, status) \in {s, MarkRoute(s, ls, d, status)}
    BY DEF RouteMessage
<1> QED BY <1>1, QuietItself, MarkRouteQuiet

LEMMA ReroutingTimeoutQuiet ==
    ASSUME NEW s, DOMAIN s = Fields, NEW d
    PROVE  Quiet(s, ReroutingTimeout(s, d))
<1> DEFINE a == ApplyDeferred(s, d)
<1>1. ReroutingTimeout(s, d) \in {s, Release(a, d)}
    BY DEF ReroutingTimeout
<1>2. Quiet(s, a) /\ DOMAIN a = Fields
    BY RouteStepsQuiet DEF Quiet
<1> HIDE DEF a
<1>3. Quiet(s, Release(a, d))
    BY <1>2, RouteStepsQuiet, QuietOn
<1> QED BY <1>1, <1>3, QuietItself

LEMMA RouteSetTestTimeoutQuiet ==
    ASSUME NEW s, DOMAIN s = Fields, NEW d, NEW ls
    PROVE  Quiet(s, RouteSetTestTimeout(s, d, ls))
<1> DEFINE status == StatusOf(s, d, FirstRouteThrough(d, ls))
           test == AboutDest(d, IF status = "Prohibited" THEN "RST" ELSE "RSR")
           told == Tell(s, ls, test)
           t == <<"RouteSetTest", d, ls>>
<1>1. RouteSetTestTimeout(s, d, ls) \in {s, Start(told, t), Start(s, t)}
    BY DEF RouteSetTestTimeout
<1>2. Ordinary(test)
    BY DEF Ordinary, AboutDest
<1> HIDE DEF test, t
<1>3. Quiet(s, told) /\ DOMAIN told = Fields
    BY <1>2, TellQuiet DEF Quiet
<1> HIDE DEF told
<1>4. Quiet(s, Start(told, t)) /\ Quiet(s, Start(s, t))
    BY <1>3, StartQuiet, QuietOn
<1> QED BY <1>1, <1>4, QuietItself

----------------------------------------------------------------------------
(* Restarts, as they are heard.                                            *)

LEMMA InviteSteady ==
    ASSUME NEW s, DOMAIN s = Fields, NEW linksets
    PROVE  Steady(s, Invite(s, linksets))
<1> DEFINE a == SendAll(s, linksets, Tra, AnyLink)
           timers == {<<"RestartAllowed", ls>> : ls \in linksets}
           n == [a EXCEPT !.traSent = @ \cup linksets, !.guard = @ \cup linksets,
                          !.timers = @ \cup timers]
<1>1. Invite(s, linksets) = n
    BY DEF Invite
<1>2. Steady(s, a) /\ DOMAIN a = Fields
    BY SendAllSteady DEF Tra, Steady
<1> HIDE DEF a, timers
<1>3. Alike(a, n)
    BY <1>2 DEF Alike, Fields
<1> HIDE DEF n
<1>4. Steady(a, n)
    BY <1>3, AlikeWays, SameQuiet, QuietSteady DEF Alike
<1> QED BY <1>1, <1>2, <1>4, SteadyOn

\* The restart of this node goes on, or is over: nobody was told anything yet.
LEMMA EndRestartTalks ==
    ASSUME NEW s, NEW n, DOMAIN n = Fields, n.told = s.told, Plain(s.out, n.out),
           s.restarting \/ s.isolated, n.restarting
    PROVE  Talks(s, EndRestart(n)) /\ Talks(s, RestartProgress(n))
<1> DEFINE opened == {l \in Link : n.link[l].phase = "AwaitRestart"}
           a == Placed(n, opened, "Open")
           none == {}
           over == [a EXCEPT !.restarting = FALSE, !.timers = @ \ {<<"Restart">>, <<"RestartOverall">>},
                             !.synced = none]
           there == {ls \in Linkset : LinksetSignalling(n, ls)}
           b == Settle(over)
           c == OpenAll(b, opened)
           d == Invite(c, there)
<1>1. EndRestart(n) = d
    BY DEF EndRestart
<1>2. DOMAIN a = Fields /\ a.told = n.told /\ a.out = n.out
    BY DEF Placed, Fields
<1> HIDE DEF a, opened, there
<1>3. DOMAIN over = Fields /\ over.told = n.told /\ over.out = n.out /\ over.synced = {}
    BY <1>2 DEF Fields
<1> HIDE DEF over
<1>4. Leads(s, over)
    BY <1>3 DEF Leads
<1>5. DOMAIN b = Fields
    BY <1>3, SettleSpeaks
<1>6. Steady(b, c)
    <2> HIDE DEF b
    <2> QED BY <1>5, OpenAllSteady
<1>7. DOMAIN c = Fields
    BY <1>6 DEF Steady
<1>8. Steady(b, d)
    <2> HIDE DEF b, c
    <2> QED BY <1>6, <1>7, InviteSteady, SteadyOn
<1>9. Talks(s, d)
    BY <1>4, <1>8, QuietTalks
<1>10. Talks(s, n)
    BY DEF Leads, Talks
<1>11. RestartProgress(n) \in {n, EndRestart(n)}
    BY DEF RestartProgress
<1> HIDE DEF d
<1> QED BY <1>1, <1>9, <1>10, <1>11

LEMMA RestoreWhispers ==
    ASSUME NEW s, Shape(s), NEW l \in Link,
           \/ Adjacent[LinksetOf[l]] = NoPc \/ Reachable(s, Adjacent[LinksetOf[l]])
           \/ LinksetOf[l] \notin s.synced
    PROVE  Whispers(s, Restore(s, l))
<1> DEFINE ls == LinksetOf[l]
           carrying == {k \in LinksOf[ls] \ {l} : s.link[k].phase = "Open"}
           f == [s.link EXCEPT ![l].phase = "AwaitRestart"]
           waits == [s EXCEPT !.link = f]
<1>0. DOMAIN s = Fields
    BY DEF Shape
<1>1. \/ Restore(s, l) \in {waits, TimeControlledChangeback(s, l),
                            DeclareChangeback(s, l, carrying), StartTraffic(s, l)}
      \/ /\ Restore(s, l) = BeginAdjacentRestart(s, l, ls)
         /\ ls \notin s.synced /\ ~LinksetAvailable(s, ls)
    BY DEF Restore
<1> HIDE DEF carrying, f
<1>2. /\ Whispers(s, waits) /\ Whispers(s, TimeControlledChangeback(s, l))
      /\ Whispers(s, DeclareChangeback(s, l, carrying))
    BY <1>0, LinkQuiet, TimeControlledQuiet, DeclareQuiet DEF Whispers
<1> HIDE DEF waits
<1> QED BY <1>0, <1>1, <1>2, StartTrafficTalks, BeginAdjacentRestartTalks

\* link_up.
LEMMA LinkUpTalks ==
    ASSUME NEW s, Shape(s), s.restarting \/ Warned(s), NEW l \in Link
    PROVE  Talks(s, LinkUp(s, l))
<1> DEFINE begins == s.restartDue /\ ~s.restarting /\ s.isolated
           begun == IF begins THEN BeginRestart(s) ELSE s
           owed == begun.restartDue /\ s.isolated
           up == [begun EXCEPT !.restartDue = owed, !.link[l].up = TRUE]
           back == [up EXCEPT !.link[l].back = TRUE]
           placed == CASE s.link[l].phase \in Changeover -> back
                       [] s.link[l].phase = "Closed" /\ ~s.link[l].remoteInhibited -> Restore(up, l)
                       [] OTHER -> up
           none == {}
           r == [s EXCEPT !.restarting = TRUE, !.restartDue = FALSE, !.traReceived = none,
                          !.timers = @ \cup {<<"Restart">>, <<"RestartOverall">>}]
<1>0. DOMAIN s = Fields /\ s.restarting \in BOOLEAN
    BY DEF Shape
<1>1. LinkUp(s, l) = IF placed.restarting THEN RestartProgress(placed) ELSE placed
    BY DEF LinkUp
<1>2. placed \in {back, up, Restore(up, l)}
    OBVIOUS
<1>3. begun = s \/ (begun = BeginRestart(s) /\ s.isolated)
    OBVIOUS
<1>4. /\ DOMAIN BeginRestart(s) = Fields /\ BeginRestart(s).told = s.told
      /\ BeginRestart(s).out = s.out /\ BeginRestart(s).restarting = TRUE
    <2>1. /\ DOMAIN r = Fields /\ r.told = s.told /\ r.out = s.out /\ r.restarting = TRUE
        BY <1>0 DEF Fields
    <2>2. BeginRestart(s) = AllowRoutesThrough(r, Linkset)
        BY DEF BeginRestart
    <2> HIDE DEF r
    <2> QED BY <2>1, <2>2 DEF AllowRoutesThrough, Fields
<1>5. CASE begun.restarting
    <2>1. /\ DOMAIN begun = Fields /\ begun.told = s.told /\ begun.out = s.out
          /\ s.restarting \/ s.isolated
        BY <1>0, <1>3, <1>4, <1>5
    <2> HIDE DEF begun, owed
    <2>2. /\ DOMAIN up = Fields /\ up.told = s.told /\ up.out = s.out /\ up.restarting = begun.restarting
        BY <2>1 DEF Fields
    <2> HIDE DEF up
    <2>3. Restore(up, l) = [up EXCEPT !.link[l].phase = "AwaitRestart"]
        BY <1>5, <2>2 DEF Restore
    <2>4. /\ DOMAIN placed = Fields /\ placed.told = s.told /\ placed.out = s.out
          /\ placed.restarting = begun.restarting
        BY <1>2, <2>2, <2>3 DEF Fields
    <2> HIDE DEF placed
    <2>5. Plain(s.out, placed.out)
        BY <2>4, PlainItself
    <2>6. Talks(s, RestartProgress(placed))
        BY <1>5, <2>1, <2>4, <2>5, EndRestartTalks
    <2> QED BY <1>1, <1>5, <2>4, <2>6
<1>6. CASE ~begun.restarting
    <2>1. begun = s /\ ~s.restarting
        BY <1>0, <1>3, <1>4, <1>6
    <2> DEFINE k == [s.link[l] EXCEPT !.up = TRUE]
               f == [s.link EXCEPT ![l] = k]
    <2>2. k \in LinkStates /\ k.phase = s.link[l].phase /\ k.up = TRUE
        <3>1. s.link[l] \in LinkStates
            BY LinkKnown
        <3> QED BY <3>1 DEF LinkStates
    <2>3. /\ f \in [Link -> LinkStates] /\ f[l] = k
          /\ \A j \in Link \ {l} : f[j] = s.link[j]
        <3> HIDE DEF k
        <3> QED BY <2>2 DEF Shape
    <2>4. owed \in BOOLEAN
        BY <2>1 DEF Shape
    <2>5. up = [s EXCEPT !.restartDue = owed, !.link = f]
        BY <2>1
    <2> HIDE DEF owed, f, k, begun
    <2>6. /\ Shape(up) /\ up.told = s.told /\ up.out = s.out /\ up.synced = s.synced
          /\ up.restarting = s.restarting /\ up.isolated = s.isolated /\ up.link = f
          /\ up.servers = s.servers /\ up.paused = s.paused /\ up.status = s.status
        BY <2>3, <2>4, <2>5 DEF Shape, Fields
    <2> HIDE DEF up
    <2>7. Quiet(s, up) /\ Quiet(s, back)
        <3>1. Quiet(s, up)
            BY <2>6, SameQuiet DEF Shape
        <3>2. Quiet(up, back)
            BY <2>6, LinkQuiet DEF Shape
        <3> HIDE DEF back
        <3> QED BY <3>1, <3>2, QuietOn
    <2> DEFINE ls == LinksetOf[l]
    <2>8. ls \in Linkset /\ \A x \in Linkset : \A j \in LinksOf[x] : j \in Link /\ LinksetOf[j] = x
        BY LinksAssumption DEF LinksOf
    <2>9. \A j \in Link : LinkAvailable(up, j) <=> LinkAvailable(s, j)
        BY <2>2, <2>3, <2>6 DEF LinkAvailable
    <2>10. \A d : Reachable(up, d) <=> Reachable(s, d)
        <3>1. SameRoutes(s, up)
            BY <2>6, <2>9 DEF SameRoutes
        <3> QED BY <3>1, SameReach
    <2>11. Talks(s, Restore(up, l))
        <3>1. CASE LinksetSignalling(s, ls)
            <4>1. ASSUME NEW x \in Linkset
                  PROVE  LinksetSignalling(up, x) <=> LinksetSignalling(s, x)
                <5>1. LinksetSignalling(up, ls)
                    BY <2>2, <2>3, <2>6, <2>8, <3>1 DEF LinksetSignalling
                <5>2. x # ls => (LinksetSignalling(up, x) <=> LinksetSignalling(s, x))
                    BY <2>3, <2>6, <2>8 DEF LinksetSignalling
                <5> QED BY <3>1, <5>1, <5>2
            <4>2. \A x \in Linkset : LinksetAvailable(up, x) <=> LinksetAvailable(s, x)
                BY <2>8, <2>9 DEF LinksetAvailable
            <4>3. \A d \in Dest, j \in Nat : StatusOf(up, d, j) = StatusOf(s, d, j)
                BY <2>6 DEF StatusOf
            <4>4. SameWays(s, up)
                BY <2>6, <4>1, <4>2, <4>3, WaysAre
            <4> QED BY <2>6, <2>7, <4>4, RestoreTalks, OntoTalks
        <3>2. CASE ~LinksetSignalling(s, ls)
            <4>1. \/ Adjacent[ls] = NoPc \/ Reachable(up, Adjacent[ls]) \/ ls \notin up.synced
                BY <2>1, <2>6, <2>8, <2>10, <3>2 DEF Warned, Named, CanTell
            <4>2. Whispers(up, Restore(up, l))
                BY <2>6, <4>1, RestoreWhispers
            <4> QED BY <2>7, <4>2, WhispersTalks
        <3> QED BY <3>1, <3>2
    <2>12. Talks(s, placed)
        <3> HIDE DEF placed, back
        <3> QED BY <1>2, <2>7, <2>11, QuietLeads
    <2>13. ~placed.restarting
        <3>1. ~back.restarting /\ ~up.restarting
            BY <2>1, <2>6 DEF Shape, Fields
        <3>2. ~Restore(up, l).restarting
            BY <2>1, <2>6, RestoreTalks
        <3> HIDE DEF back, placed
        <3> QED BY <1>2, <3>1, <3>2
    <2> QED BY <1>1, <2>12, <2>13
<1> QED BY <1>5, <1>6

\* Links that were not carrying traffic do, in a linkset that did already.
LEMMA PlacedSteady ==
    ASSUME NEW s, Shape(s), NEW ls \in Linkset, LinksetAvailable(s, ls),
           NEW links \in SUBSET LinksOf[ls], NEW p \in Carrying
    PROVE  Steady(s, Placed(s, links, p)) /\ Quiet(s, Placed(s, links, p))
<1> DEFINE f == [l \in Link |-> IF l \in links THEN [s.link[l] EXCEPT !.phase = p] ELSE s.link[l]]
           n == [s EXCEPT !.link = f]
<1>1. Placed(s, links, p) = n
    BY DEF Placed
<1>2. ASSUME NEW l \in Link
      PROVE  /\ f[l].up = s.link[l].up
             /\ l \in links => f[l].phase = p
             /\ l \notin links => f[l] = s.link[l]
    <2>1. s.link[l] \in LinkStates
        BY LinkKnown
    <2> QED BY <2>1 DEF LinkStates
<1> HIDE DEF f
<1>3. /\ DOMAIN n = Fields /\ n.link = f /\ n.servers = s.servers /\ n.paused = s.paused
      /\ n.status = s.status /\ Quiet(s, n)
    BY LinkQuiet DEF Shape, Fields
<1> HIDE DEF n
<1>4. \A x \in Linkset : \A l \in LinksOf[x] : l \in Link /\ LinksetOf[l] = x
    BY DEF LinksOf
<1>5. ASSUME NEW x \in Linkset PROVE LinksetAvailable(n, x) <=> LinksetAvailable(s, x)
    <2>1. CASE x = ls
        <3>1. PICK l \in LinksOf[ls] : s.link[l].phase \in Carrying
            BY DEF LinksetAvailable, LinkAvailable
        <3>2. n.link[l].phase \in Carrying
            BY <1>2, <1>3, <1>4, <3>1
        <3> QED BY <2>1, <3>1, <3>2 DEF LinksetAvailable, LinkAvailable
    <2>2. CASE x # ls
        <3>1. \A l \in LinksOf[x] : n.link[l] = s.link[l]
            BY <1>2, <1>3, <1>4, <2>2
        <3> QED BY <3>1 DEF LinksetAvailable, LinkAvailable
    <2> QED BY <2>1, <2>2
<1>6. ASSUME NEW x \in Linkset PROVE LinksetSignalling(n, x) <=> LinksetSignalling(s, x)
    BY <1>2, <1>3, <1>4 DEF LinksetSignalling
<1>7. \A d \in Dest, r \in Nat : StatusOf(n, d, r) = StatusOf(s, d, r)
    BY <1>3 DEF StatusOf
<1>8. SameWays(s, n)
    BY <1>3, <1>5, <1>6, <1>7, WaysAre
<1> QED BY <1>1, <1>3, <1>8, QuietSteady

LEMMA StartOthersTalks ==
    ASSUME NEW s, Shape(s), NEW ls \in Linkset, LinksetAvailable(s, ls),
           NEW links \in SUBSET LinksOf[ls]
    PROVE  LET n == StartOthers(s, ls, links) IN
           Steady(s, n) /\ (Diverted(s, ls) => Quiet(s, n))
<1> DEFINE more == {<<"Changeback", l>> : l \in links}
           a == Placed(s, links, "ChangebackTimed")
           b == [a EXCEPT !.timers = @ \cup more]
           c == HoldAll(b, links)
           d == Placed(s, links, "Open")
           e == OpenAll(d, links)
           n == StartOthers(s, ls, links)
<1>1. n = IF links = {} THEN s ELSE IF Diverted(s, ls) THEN c ELSE e
    BY DEF StartOthers
<1>2. Steady(s, s) /\ Quiet(s, s)
    BY SteadyItself, QuietItself DEF Shape
<1>3. /\ Steady(s, a) /\ Quiet(s, a) /\ Steady(s, d)
      /\ DOMAIN a = Fields /\ DOMAIN d = Fields
    <2>1. "ChangebackTimed" \in Carrying /\ "Open" \in Carrying
        BY PhasesAre
    <2>2. Steady(s, a) /\ Quiet(s, a) /\ Steady(s, d)
        BY <2>1, PlacedSteady
    <2> HIDE DEF a, d
    <2> QED BY <2>2 DEF Steady
<1> HIDE DEF a, d, more
<1>4. Alike(a, b)
    BY <1>3 DEF Alike, Fields
<1> HIDE DEF b
<1>5. Quiet(a, b) /\ Steady(a, b) /\ DOMAIN b = Fields
    BY <1>4, AlikeWays, SameQuiet, QuietSteady DEF Alike
<1>6. Quiet(b, c) /\ Steady(b, c)
    <2>1. Quiet(b, c)
        BY <1>5, HoldAllQuiet
    <2>2. /\ c.link = b.link /\ c.servers = b.servers /\ c.paused = b.paused
          /\ c.status = b.status
        BY <1>5 DEF HoldAll, Push, Fields
    <2> HIDE DEF c
    <2>3. SameWays(b, c)
        BY <2>2, LinksGiveWays DEF LinkAvailable
    <2> QED BY <2>1, <2>3, QuietSteady
<1>7. Steady(s, c) /\ Quiet(s, c)
    BY <1>3, <1>5, <1>6, SteadyOn, QuietOn
<1>8. Steady(s, e)
    BY <1>3, OpenAllSteady, SteadyOn
<1> HIDE DEF c, e, n
<1>9. Steady(s, n) /\ (Diverted(s, ls) => Quiet(s, n))
    BY <1>1, <1>2, <1>7, <1>8
<1> QED BY <1>9 DEF n

\* The first link that start_traffic is called for.
LEMMA StartTrafficLeaves ==
    ASSUME NEW s, Shape(s), NEW l \in Link
    PROVE  LET n == StartTraffic(s, l) IN
           /\ Shape(n) /\ n.link[l].phase \in Carrying
           /\ Diverted(s, LinksetOf[l]) => Diverted(n, LinksetOf[l]) /\ Quiet(s, n)
           /\ ~Diverted(s, LinksetOf[l]) => Settles(s, n)
<1> DEFINE n == StartTraffic(s, l)
           ls == LinksetOf[l]
<1>1. CASE Diverted(s, ls)
    <2> DEFINE a == [s EXCEPT !.link[l].phase = "ChangebackTimed"]
               b == Hold(a, l)
               c == Start(b, <<"Changeback", l>>)
    <2>1. n = c /\ n = TimeControlledChangeback(s, l)
        BY <1>1 DEF StartTraffic, TimeControlledChangeback
    <2>2. /\ Shape(a) /\ a.link[l].phase = "ChangebackTimed" /\ a.accessible = s.accessible
        <3>1. Rephased(s, a, l) /\ a.link[l] = [s.link[l] EXCEPT !.phase = "ChangebackTimed"]
            BY PhasesAre, PhaseRephased
        <3>2. s.link[l] \in LinkStates
            BY LinkKnown
        <3>3. a.accessible = s.accessible
            BY DEF Shape, Fields
        <3> HIDE DEF a
        <3> QED BY <3>1, <3>2, <3>3, RephasedShape DEF LinkStates
    <2> HIDE DEF a
    <2>3. Shape(b) /\ b.link[l] = a.link[l] /\ b.accessible = a.accessible
        <3>1. Rephased(a, b, l) /\ b.link[l] = a.link[l]
            BY <2>2, HoldRephased
        <3>2. b.accessible = a.accessible
            BY <2>2 DEF Hold, HoldAll, Push, Shape, Fields
        <3> HIDE DEF b
        <3> QED BY <3>1, <3>2, RephasedShape
    <2> HIDE DEF b
    <2>4. Shape(c) /\ c.link = b.link /\ c.accessible = b.accessible
        <3>1. Still(b, c)
            BY <2>3, TimersAre, StartStill DEF LinkTimer
        <3>2. c.accessible = b.accessible
            BY <2>3 DEF Start, Shape, Fields
        <3> HIDE DEF c
        <3> QED BY <3>1, <3>2 DEF Still
    <2> HIDE DEF c
    <2>5. Quiet(s, n)
        <3> HIDE DEF n
        <3> QED BY <2>1, TimeControlledQuiet DEF Shape
    <2> HIDE DEF n
    <2>6. /\ Shape(n) /\ n.link[l].phase \in Carrying /\ Diverted(n, ls)
        BY <1>1, <2>1, <2>2, <2>3, <2>4, PhasesAre DEF Diverted
    <2> QED BY <1>1, <2>5, <2>6 DEF n
<1>2. CASE ~Diverted(s, ls)
    <2> DEFINE a == [s EXCEPT !.link[l].phase = "Open"]
               b == Settle(a)
               c == OpenAll(b, {l})
    <2>1. n = c
        BY <1>2 DEF StartTraffic, Open
    <2>2. Shape(a) /\ a.link[l].phase = "Open" /\ Quiet(s, a)
        <3>1. Rephased(s, a, l) /\ a.link[l] = [s.link[l] EXCEPT !.phase = "Open"]
            BY PhasesAre, PhaseRephased
        <3>2. s.link[l] \in LinkStates
            BY LinkKnown
        <3>3. Quiet(s, a)
            BY LinkQuiet DEF Shape
        <3> HIDE DEF a
        <3> QED BY <3>1, <3>2, <3>3, RephasedShape DEF LinkStates
    <2> HIDE DEF a
    <2>3. Shape(b) /\ b.link = a.link
        BY <2>2, SettleStill DEF Still
    <2>4. Steady(b, c) /\ Shape(c) /\ c.link = b.link
        <3> HIDE DEF b
        <3>1. Steady(b, c)
            BY <2>3, OpenAllSteady DEF Shape
        <3>2. Local(b, c, {l}) /\ c.link = b.link
            BY <2>3, OpenLocal
        <3> HIDE DEF c
        <3> QED BY <3>1, <3>2 DEF Local
    <2>5. Settles(s, c)
        <3> HIDE DEF c
        <3> QED BY <2>2, <2>4, QuietLeads DEF Settles
    <2> HIDE DEF b, c, n
    <2>6. Shape(n) /\ n.link[l].phase \in Carrying /\ Settles(s, n)
        BY <2>1, <2>2, <2>3, <2>4, <2>5, PhasesAre
    <2> QED BY <1>2, <2>6 DEF n
<1> QED BY <1>1, <1>2

\* end_adjacent_restart.
LEMMA EndAdjacentRestartTalks ==
    ASSUME NEW s, Shape(s), NEW ls \in Linkset
    PROVE  Talks(s, EndAdjacentRestart(s, ls))
<1> DEFINE t == <<"AdjacentRestart", ls>>
           a == [s EXCEPT !.restartingSets = @ \ {ls}]
           over == Stop(a, t)
           waiting == {l \in LinksOf[ls] : s.link[l].phase = "AwaitRestart"}
           first == CHOOSE l \in waiting : \A k \in waiting : l <= k
           b == StartTraffic(over, first)
           others == waiting \ {first}
           n == StartOthers(b, ls, others)
<1>1. EndAdjacentRestart(s, ls) = IF waiting = {} THEN over ELSE n
    BY DEF EndAdjacentRestart
<1>2. waiting \in SUBSET LinksOf[ls] /\ \A l \in LinksOf[ls] : l \in Link /\ LinksetOf[l] = ls
    BY DEF LinksOf
<1> HIDE DEF waiting
<1>3. waiting # {} => first \in waiting
    <2>1. waiting \in SUBSET Nat
        BY <1>2, LinksAssumption
    <2>2. waiting # {} => \E l \in waiting : \A k \in waiting : l <= k
        BY <2>1, LeastElement
    <2> QED BY <2>2
<1> HIDE DEF first
<1>4. Shape(over) /\ Alike(s, over) /\ over.isolated = s.isolated
    <2> HIDE DEF t
    <2> QED BY DEF Stop, Alike, Shape, Fields
<1> HIDE DEF over
<1>5. Quiet(s, over) /\ SameWays(s, over)
    BY <1>4, AlikeWays, SameQuiet DEF Alike
<1>6. ASSUME waiting # {} PROVE Talks(over, n)
    <2>1. first \in Link /\ LinksetOf[first] = ls /\ first \in LinksOf[ls]
        BY <1>2, <1>3, <1>6
    <2>2. /\ Shape(b) /\ b.link[first].phase \in Carrying
          /\ Diverted(over, ls) => Diverted(b, ls) /\ Quiet(over, b)
          /\ ~Diverted(over, ls) => Settles(over, b)
        BY <1>4, <2>1, StartTrafficLeaves
    <2> HIDE DEF b
    <2>3. LinksetAvailable(b, ls)
        BY <2>1, <2>2 DEF LinksetAvailable, LinkAvailable
    <2>4. others \in SUBSET LinksOf[ls]
        BY <1>2
    <2> HIDE DEF others
    <2>5. Steady(b, n) /\ (Diverted(b, ls) => Quiet(b, n))
        BY <2>2, <2>3, <2>4, StartOthersTalks
    <2> HIDE DEF n
    <2>6. CASE Diverted(over, ls)
        BY <2>2, <2>5, <2>6, QuietOn, QuietLeads
    <2>7. CASE ~Diverted(over, ls)
        BY <2>2, <2>5, <2>7, SteadyOn DEF Settles, Talks
    <2> QED BY <2>6, <2>7
<1> HIDE DEF n
<1> QED BY <1>1, <1>4, <1>5, <1>6, OntoTalks, QuietLeads

----------------------------------------------------------------------------
(* Inputs that tell points, or after which points have forgotten.          *)

\* What the linkset has heard is taken back, when its point has restarted.
LEMMA TrafficRestartAllowedFits ==
    ASSUME NEW s, Shape(s), NEW H, NEW exact, Heeded(s, H, exact), s.out = <<>>,
           NEW ls \in Linkset
    PROVE  LET G == {p \in H : p[1] # ls \/ ~ (~s.restarting /\ ls \notin s.restartingSets \cup s.guard)}
           IN  Fit(TrafficRestartAllowed(s, ls), G, exact)
<1> DEFINE unasked == ~s.restarting /\ ls \notin s.restartingSets \cup s.guard
           G == {p \in H : p[1] # ls \/ ~unasked}
           received == [s EXCEPT !.traReceived = @ \cup {ls}]
           n == TrafficRestartAllowed(s, ls)
<1>0. DOMAIN s = Fields
    BY DEF Shape
<1>1. Shape(received) /\ Alike(s, received) /\ received.isolated = s.isolated
    BY DEF Alike, Shape, Fields
<1>2. CASE ~unasked
    <2>1. G = H
        BY <1>2
    <2>2. CASE s.restarting
        <3>1. n = RestartProgress(received)
            BY <2>2 DEF TrafficRestartAllowed
        <3> HIDE DEF n, received
        <3>2. Talks(s, n)
            BY <1>1, <2>2, <3>1, PlainItself, EndRestartTalks DEF Alike
        <3>3. Fit(n, H, exact)
            BY <3>2, TalksFits
        <3> QED BY <2>1, <3>3 DEF n
    <2>3. CASE ~s.restarting
        <3>1. n \in {EndAdjacentRestart(received, ls), received, s}
            BY <1>2, <2>3 DEF TrafficRestartAllowed
        <3> HIDE DEF n, received
        <3>2. Quiet(s, received) /\ SameWays(s, received)
            BY <1>1, AlikeWays, SameQuiet DEF Alike
        <3>3. Talks(received, EndAdjacentRestart(received, ls))
            BY <1>1, EndAdjacentRestartTalks
        <3>4. Talks(s, n)
            BY <1>0, <1>1, <3>1, <3>2, <3>3, OntoTalks, QuietLeads, QuietItself
        <3>5. Fit(n, H, exact)
            BY <3>4, TalksFits
        <3> QED BY <2>1, <3>5 DEF n
    <2> QED BY <2>2, <2>3
<1>3. CASE unasked
    <2> DEFINE a == [s EXCEPT !.synced = @ \ {ls}]
               b == Settle(a)
               c == SendAll(b, {ls}, Tra, AnyLink)
               d == [c EXCEPT !.guard = @ \cup {ls}]
               e == Start(d, <<"RestartAllowed", ls>>)
    <2>1. n = e
        BY <1>3 DEF TrafficRestartAllowed, Tell, Send
    <2>2. /\ DOMAIN a = Fields /\ a.told = s.told /\ a.synced = s.synced \ {ls}
          /\ a.restarting = s.restarting /\ a.out = <<>> /\ a.link = s.link
          /\ a.servers = s.servers /\ a.paused = s.paused /\ a.status = s.status
        BY <1>0 DEF Fields
    <2> HIDE DEF a
    <2>3. SameWays(s, a)
        BY <2>2, LinksGiveWays DEF LinkAvailable
    <2>4. Spoken(a) = Spoken(s) /\ Barred(a) = Barred(s) /\ Spoken(s) \subseteq Pairs
        BY <2>3, SameTelling DEF Spoken
    <2>5. Fit(a, G, exact)
        <3>1. Listed(a.out) /\ Uninvited(a.out) /\ ~ToldTooLate(a.out) /\ Heard(a.out, G) = G
            BY <2>2, NoneListed, HeardNothing
        <3>2. G \subseteq H /\ \A p \in H : p[1] # ls => p \in G
            OBVIOUS
        <3>3. ~s.restarting
            BY <1>3
        <3> HIDE DEF G
        <3>4. Listened(a, G)
            BY <2>2, <3>2, <3>3 DEF Heeded, Listened
        <3>5. exact => Recorded(a, G)
            BY <2>4, <3>2, <3>3 DEF Heeded, Recorded
        <3>6. G \subseteq Named \X Pc
            BY <3>2 DEF Heeded
        <3> QED BY <2>2, <3>1, <3>3, <3>4, <3>5, <3>6 DEF Fit
    <2>6. Fit(b, G, exact) /\ (b.restarting \/ Warned(b)) /\ DOMAIN b = Fields
        <3>1. a.restarting = FALSE
            BY <1>3, <2>2 DEF Shape
        <3> HIDE DEF G
        <3> QED BY <2>5, <3>1, FitSettles DEF Fit
    <2>7. Steady(b, c) /\ DOMAIN c = Fields
        <3> HIDE DEF b
        <3> QED BY <2>6, SendAllSteady DEF Tra, Steady
    <2> HIDE DEF b, c
    <2>8. Alike(c, e)
        BY <2>7 DEF Alike, Start, Fields
    <2> HIDE DEF e
    <2>9. Steady(b, e)
        <3>1. Steady(c, e)
            BY <2>8, AlikeWays, SameQuiet, QuietSteady DEF Alike
        <3> QED BY <2>7, <3>1, SteadyOn
    <2> HIDE DEF G, n
    <2>10. Fit(n, G, exact)
        BY <2>1, <2>6, <2>9, FitSteady
    <2> QED BY <2>10 DEF G, n
<1> QED BY <1>2, <1>3

\* What a point that asked about one destination has heard, and the record of
\* it, after the answer of tell_about.
Answers(s, H, ls, d, prohibited, n) ==
    /\ DOMAIN n = Fields
    /\ n.synced = s.synced /\ n.restarting = s.restarting /\ n.isolated = s.isolated
    /\ n.link = s.link /\ n.servers = s.servers /\ n.paused = s.paused
    /\ n.status = s.status
    /\ prohibited => s.told \subseteq n.told
    /\ Listed(n.out) /\ Uninvited(n.out)
    /\ Heard(n.out, H) \subseteq Named \X Pc
    /\ Listened(n, Heard(n.out, H))
    /\ ~prohibited /\ Adjacent[ls] # NoPc => <<ls, d>> \notin Heard(n.out, H)

\* tell_about.
LEMMA TellAboutIs ==
    ASSUME NEW s, NEW H, NEW exact, Heeded(s, H, exact), s.out = <<>>, ~s.restarting,
           NEW ls \in Linkset, NEW d \in Pc, NEW prohibited \in BOOLEAN, d \notin Dest => prohibited
    PROVE  Answers(s, H, ls, d, prohibited, TellAbout(s, ls, d, prohibited))
<1> DEFINE n == TellAbout(s, ls, d, prohibited)
           told == IF prohibited THEN s.told \cup {<<ls, d>>} ELSE s.told \ {<<ls, d>>}
           a == IF d \notin Dest THEN s ELSE [s EXCEPT !.told = told]
           message == AboutDest(d, IF prohibited THEN "TFP" ELSE "TFA")
           known == {k \in {ls} : Adjacent[k] # NoPc}
           action == [do |-> "Send", to |-> known, message |-> message, path |-> AnyLink]
           K == IF prohibited THEN H \cup (known \X {d}) ELSE H \ (known \X {d})
<1>0. DOMAIN s = Fields /\ H \subseteq Named \X Pc /\ Listened(s, H)
    BY DEF Heeded
<1>1. n = IF known = {} THEN a ELSE Push(a, action)
    <2>1. a = IF d \notin Dest THEN s
              ELSE [s EXCEPT !.told = IF prohibited THEN @ \cup {<<ls, d>>} ELSE @ \ {<<ls, d>>}]
        OBVIOUS
    <2> HIDE DEF a
    <2> QED BY <2>1 DEF TellAbout, Tell, Send, SendAll
<1>2. /\ message.name = IF prohibited THEN "TFP" ELSE "TFA"
      /\ message.dest = d
    BY DEF AboutDest
<1>3. Invites(action) = {} /\ Hears(H, action) = K
    <2>1. message # Tra
        BY <1>2 DEF Tra
    <2> HIDE DEF message
    <2> QED BY <1>2, <2>1 DEF Invites, Hears
<1>4. known = {} => K = H
    OBVIOUS
<1>5. known = {} \/ known = {ls}
    OBVIOUS
<1>6. known = {ls} <=> Adjacent[ls] # NoPc
    OBVIOUS
<1> HIDE DEF action
<1>7. /\ DOMAIN a = Fields /\ a.synced = s.synced /\ a.restarting = s.restarting
      /\ a.isolated = s.isolated /\ a.link = s.link /\ a.servers = s.servers
      /\ a.paused = s.paused /\ a.status = s.status /\ a.out = <<>>
      /\ a.told = IF d \notin Dest THEN s.told ELSE told
    <2> DEFINE b == [s EXCEPT !.told = told]
    <2>1. /\ DOMAIN b = Fields /\ b.synced = s.synced /\ b.restarting = s.restarting
          /\ b.isolated = s.isolated /\ b.link = s.link /\ b.servers = s.servers
          /\ b.paused = s.paused /\ b.status = s.status /\ b.out = <<>> /\ b.told = told
        BY <1>0 DEF Fields
    <2> HIDE DEF b, told
    <2> QED BY <1>0, <2>1 DEF b
<1> HIDE DEF a
<1>8. /\ DOMAIN n = Fields /\ n.synced = s.synced /\ n.restarting = s.restarting
      /\ n.isolated = s.isolated /\ n.link = s.link /\ n.servers = s.servers
      /\ n.paused = s.paused /\ n.status = s.status /\ n.told = a.told
      /\ (n.out = <<>> /\ known = {}) \/ n.out = Append(<<>>, action)
    <2> DEFINE b == Push(a, action)
    <2>1. /\ DOMAIN b = Fields /\ b.told = a.told /\ b.synced = a.synced
          /\ b.restarting = a.restarting /\ b.link = a.link /\ b.servers = a.servers
          /\ b.paused = a.paused /\ b.status = a.status /\ b.isolated = a.isolated
          /\ b.out = Append(a.out, action)
        BY <1>7, PushIs
    <2> HIDE DEF b, n, known
    <2> QED BY <1>1, <1>7, <2>1 DEF b
<1> HIDE DEF n, message
<1>9. Listed(n.out) /\ Uninvited(n.out) /\ Heard(n.out, H) = K
    <2>1. CASE n.out = <<>> /\ known = {}
        BY <1>4, <2>1, NoneListed, HeardNothing
    <2>2. CASE n.out = Append(<<>>, action)
        <3> DEFINE none == <<>>
        <3>1. Listed(none) /\ Uninvited(none) /\ Heard(none, H) = H
            BY NoneListed, HeardNothing
        <3> HIDE DEF none
        <3>2. Listed(Append(none, action)) /\ Heard(Append(none, action), H) = K
            BY <1>3, <3>1, HeardMore
        <3>3. Uninvited(Append(none, action))
            <4> DEFINE more == Append(none, action)
                       k == Len(none)
            <4>1. /\ k \in Nat /\ DOMAIN none = 1 .. k /\ DOMAIN more = 1 .. k + 1
                  /\ more[k + 1] = action /\ \A j \in 1 .. k : more[j] = none[j]
                BY <3>1, AppendIs
            <4> HIDE DEF more, k
            <4>2. \A j \in 1 .. k + 1 : j \in 1 .. k \/ j = k + 1
                BY <4>1
            <4>3. Uninvited(more)
                BY <1>3, <3>1, <4>1, <4>2 DEF Uninvited
            <4> QED BY <4>3 DEF more
        <3> QED BY <2>2, <3>2, <3>3 DEF none
    <2> QED BY <1>8, <2>1, <2>2
<1>10. K \subseteq Named \X Pc
    <2>1. known \subseteq Named
        BY DEF Named
    <2> HIDE DEF known
    <2> QED BY <1>0, <2>1
<1>11. prohibited => s.told \subseteq n.told
    BY <1>7, <1>8
<1>12. ASSUME NEW p \in Pairs, p[1] \in n.synced, p \in n.told PROVE p \in K
    <2>1. Adjacent[p[1]] # NoPc /\ p = <<p[1], p[2]>> /\ p[2] \in Dest
        BY DEF Pairs
    <2>2. p \in s.told => p \in H
        BY <1>0, <1>8, <1>12 DEF Listened
    <2>3. CASE d \in Dest
        <3>1. CASE p = <<ls, d>>
            <4>1. prohibited
                BY <1>7, <1>8, <1>12, <2>3, <3>1
            <4>2. known = {ls}
                BY <1>6, <2>1, <3>1
            <4> HIDE DEF known
            <4> QED BY <3>1, <4>1, <4>2
        <3>2. CASE p # <<ls, d>>
            <4>1. p \in H
                BY <1>7, <1>8, <1>12, <2>2, <2>3, <3>2
            <4>2. p \notin known \X {d}
                BY <1>5, <2>1, <3>2
            <4> QED BY <4>1, <4>2
        <3> QED BY <3>1, <3>2
    <2>4. CASE d \notin Dest
        <3>1. p \in H
            BY <1>7, <1>8, <1>12, <2>2, <2>4
        <3>2. p \notin known \X {d}
            BY <2>1, <2>4
        <3> QED BY <3>1, <3>2
    <2> QED BY <2>3, <2>4
<1>13. ~prohibited /\ Adjacent[ls] # NoPc => <<ls, d>> \notin K
    BY <1>6
<1> HIDE DEF K, known
<1>14. Answers(s, H, ls, d, prohibited, n)
    BY <1>7, <1>8, <1>9, <1>10, <1>11, <1>12, <1>13 DEF Answers, Listened
<1> QED BY <1>14 DEF n

\* route_set_test.
LEMMA RouteSetTestFits ==
    ASSUME NEW s, NEW H, NEW exact, Heeded(s, H, exact), s.out = <<>>, ~s.restarting,
           NEW ls \in Linkset, NEW d \in Pc, NEW believes
    PROVE  Fit(RouteSetTest(s, ls, d, believes), H, FALSE)
<1> DEFINE prohibited == ProhibitedToward(s, d, ls)
           n == TellAbout(s, ls, d, prohibited)
<1>1. RouteSetTest(s, ls, d, believes) \in {s, n}
    BY DEF RouteSetTest
<1>2. Fit(s, H, FALSE)
    <2>1. Fit(s, H, exact)
        BY HeededFits
    <2> QED BY <2>1 DEF Fit
<1>3. prohibited \in BOOLEAN /\ (d \notin Dest => prohibited)
    BY DEF ProhibitedToward
<1> HIDE DEF prohibited
<1>4. Answers(s, H, ls, d, prohibited, n)
    BY <1>3, TellAboutIs
<1>6. /\ DOMAIN n = Fields /\ n.restarting = s.restarting
      /\ Listed(n.out) /\ Uninvited(n.out)
      /\ Heard(n.out, H) \subseteq Named \X Pc /\ Listened(n, Heard(n.out, H))
    BY <1>4 DEF Answers
<1> HIDE DEF n
<1>5. Fit(n, H, FALSE)
    BY <1>6, UninvitedInTime DEF Fit
<1> QED BY <1>1, <1>2, <1>5

\* timeout, of whichever timer.
LEMMA TimeoutTalks ==
    ASSUME NEW s, Shape(s), NEW t \in Timers
    PROVE  Talks(s, Timeout(s, t))
<1> DEFINE n == Timeout(s, t)
<1>0. DOMAIN s = Fields /\ s.restarting \in BOOLEAN
    BY DEF Shape
<1>1. ASSUME NEW x \in LinkTimer, NEW l \in Link, t = <<x, l>> PROVE Talks(s, n)
    <2>1. t[1] = x /\ t[2] = l
        BY <1>1
    <2>2. CASE x = "Changeover"
        <3>1. n = ChangeoverTimeout(s, l)
            BY <2>1, <2>2 DEF Timeout
        <3> QED BY <3>1, ChangeoverTimeoutTalks
    <2>3. CASE x = "Changeback"
        <3>1. n = ChangebackTimeout(s, l)
            BY <2>1, <2>3 DEF Timeout
        <3> QED BY <3>1, ChangebackTimeoutTalks
    <2>4. CASE x = "InhibitTest"
        <3>1. n = InhibitTestTimeout(s, l)
            BY <2>1, <2>4 DEF Timeout
        <3> QED BY <1>0, <3>1, AttemptsQuiet, QuietLeads
    <2>5. CASE x = "Uninhibit"
        <3>1. n = RepeatUninhibit(s, l)
            BY <2>1, <2>5 DEF Timeout
        <3> QED BY <1>0, <3>1, AttemptsQuiet, QuietLeads
    <2>6. CASE x = "ForceUninhibit"
        <3>1. n = RepeatForceUninhibit(s, l)
            BY <2>1, <2>6 DEF Timeout
        <3> QED BY <1>0, <3>1, AttemptsQuiet, QuietLeads
    <2> QED BY <2>2, <2>3, <2>4, <2>5, <2>6 DEF LinkTimer
<1>2. ASSUME NEW ls \in Linkset, t = <<"AdjacentRestart", ls>> PROVE Talks(s, n)
    <2>1. t[1] = "AdjacentRestart" /\ t[2] = ls
        BY <1>2
    <2>2. n = IF ls \in s.restartingSets THEN EndAdjacentRestart(s, ls) ELSE s
        BY <2>1 DEF Timeout
    <2>3. Talks(s, s)
        BY <1>0, QuietItself, QuietLeads
    <2> HIDE DEF n
    <2> QED BY <2>2, <2>3, EndAdjacentRestartTalks
<1>3. ASSUME NEW ls \in Linkset, t = <<"RestartAllowed", ls>> PROVE Talks(s, n)
    <2> DEFINE left == s.guard \ {ls}
    <2>1. t[1] = "RestartAllowed" /\ t[2] = ls
        BY <1>3
    <2>2. n = [s EXCEPT !.guard = left]
        BY <2>1 DEF Timeout
    <2> HIDE DEF n, left
    <2>3. Alike(s, n)
        BY <1>0, <2>2 DEF Alike, Fields
    <2>4. Quiet(s, n)
        BY <2>3, SameQuiet DEF Alike
    <2> QED BY <2>4, QuietLeads
<1>4. ASSUME NEW d \in Dest, t = <<"Rerouting", d>> PROVE Talks(s, n)
    <2>1. t[1] = "Rerouting" /\ t[2] = d
        BY <1>4
    <2>2. n = ReroutingTimeout(s, d)
        BY <2>1 DEF Timeout
    <2> QED BY <1>0, <2>2, ReroutingTimeoutQuiet, QuietLeads
<1>5. ASSUME NEW d \in Pc, t = <<"Prohibited", d>> PROVE Talks(s, n)
    <2> DEFINE left == s.guarded \ {d}
    <2>1. t[1] = "Prohibited" /\ t[2] = d
        BY <1>5
    <2>2. n = [s EXCEPT !.guarded = left]
        BY <2>1 DEF Timeout
    <2> HIDE DEF n, left
    <2>3. Alike(s, n)
        BY <1>0, <2>2 DEF Alike, Fields
    <2>4. Quiet(s, n)
        BY <2>3, SameQuiet DEF Alike
    <2> QED BY <2>4, QuietLeads
<1>6. ASSUME NEW d \in Dest, NEW ls \in Linkset, t = <<"RouteSetTest", d, ls>> PROVE Talks(s, n)
    <2>1. t[1] = "RouteSetTest" /\ t[2] = d /\ t[3] = ls
        BY <1>6
    <2>2. n = RouteSetTestTimeout(s, d, ls)
        BY <2>1 DEF Timeout
    <2> QED BY <1>0, <2>2, RouteSetTestTimeoutQuiet, QuietLeads
<1>7. ASSUME t \in {<<"Restart">>, <<"RestartOverall">>} PROVE Talks(s, n)
    <2>1. t[1] \in {"Restart", "RestartOverall"}
        BY <1>7
    <2>2. n = EndRestart(s)
        BY <2>1 DEF Timeout
    <2> HIDE DEF n
    <2>3. CASE s.restarting
        BY <1>0, <2>2, <2>3, PlainItself, EndRestartTalks
    <2>4. CASE ~s.restarting
        <3>1. n = s
            BY <2>2, <2>4 DEF EndRestart
        <3> QED BY <1>0, <3>1, QuietItself, QuietLeads
    <2> QED BY <2>3, <2>4
<1>8. ASSUME t = <<"Isolation">> PROVE Talks(s, n)
    <2> DEFINE v == s.restartDue \/ s.isolated
    <2>1. t[1] = "Isolation"
        BY <1>8
    <2>2. n = [s EXCEPT !.restartDue = v]
        BY <2>1 DEF Timeout
    <2> HIDE DEF n, v
    <2>3. Alike(s, n)
        BY <1>0, <2>2 DEF Alike, Fields
    <2>4. Quiet(s, n)
        BY <2>3, SameQuiet DEF Alike
    <2> QED BY <2>4, QuietLeads
<1> HIDE DEF n
<1>9. Talks(s, n)
    BY <1>1, <1>2, <1>3, <1>4, <1>5, <1>6, <1>7, <1>8, TimerIs
<1> QED BY <1>9 DEF n

\* A handler that says nothing to the adjacent points and sets one of the
\* sets that they are not told of.
LEMMA AlikeHeeds ==
    ASSUME NEW s, NEW n, NEW H, NEW exact, Heeded(s, H, exact), Alike(s, n), n.isolated = s.isolated
    PROVE  Heeded(n, H, exact)
<1>1. SameWays(s, n)
    BY AlikeWays
<1>2. /\ \A ls \in Linkset : CanTell(n, ls) <=> CanTell(s, ls)
      /\ Barred(n) = Barred(s)
    BY <1>1, SameTelling
<1>3. Named \subseteq Linkset
    BY DEF Named
<1> QED BY <1>2, <1>3 DEF Heeded, Alike, Warned, Listened

\* The answer to a message that cannot be transferred.
LEMMA UnroutableHeeds ==
    ASSUME NEW s, Shape(s), NEW E, Sound(s, E), NEW H, Heeded(s, H, FALSE), Watched(s),
           s.out = <<>>, \A p \in H : CanTell(s, p[1]),
           NEW d \in Pc, NEW l \in Link,
           NEW o, o = [Unroutable(s, d, l) EXCEPT !.out = <<>>],
           NEW K, K = After(Unroutable(s, d, l), H)
    PROVE  /\ ~ToldTooLate(Unroutable(s, d, l).out)
           /\ Heeded(o, K, FALSE) /\ Watched(o)
           /\ \A p \in K : CanTell(o, p[1])
<1> DEFINE ls == LinksetOf[l]
           a == TellAbout(s, ls, d, TRUE)
           n == Guard(a, {d})
           u == Unroutable(s, d, l)
           none == <<>>
<1>0. DOMAIN s = Fields /\ s.restarting \in BOOLEAN /\ ls \in Linkset
    BY LinksAssumption DEF Shape
<1>1. u = s \/ (~s.restarting /\ u = n)
    BY DEF Unroutable
<1>2. o = [u EXCEPT !.out = none] /\ K = After(u, H)
    OBVIOUS
<1> HIDE DEF u, n, none
<1>3. CASE u = s
    <2>1. K = H
        <3>1. K = {pair \in Heard(s.out, H) : CanTell(s, pair[1])}
            BY <1>2, <1>3, AfterIs
        <3>2. Heard(s.out, H) = H
            BY HeardNothing
        <3> QED BY <3>1, <3>2
    <2>2. Alike(s, o) /\ o.isolated = s.isolated
        BY <1>0, <1>2, <1>3 DEF Alike, Fields, none
    <2>3. Heeded(o, H, FALSE)
        BY <2>2, AlikeHeeds
    <2>4. SameWays(s, o)
        BY <2>2, AlikeWays
    <2>5. \A k \in Linkset : CanTell(o, k) <=> CanTell(s, k)
        BY <2>4, SameTelling
    <2>6. H \subseteq Named \X Pc /\ Named \subseteq Linkset
        BY DEF Heeded, Named
    <2>7. \A p \in H : CanTell(o, p[1])
        BY <2>5, <2>6
    <2>9. Watched(o)
        BY <2>2 DEF Watched, Alike
    <2> QED BY <1>3, <2>1, <2>3, <2>7, <2>9, NoneListed DEF u
<1>4. CASE ~s.restarting /\ u = n
    <2> DEFINE G == Heard(a.out, H)
               guarded == a.guarded \cup {d}
               timers == a.timers \cup {<<"Prohibited", k>> : k \in {d}}
    <2>1. Answers(s, H, ls, d, TRUE, a)
        BY <1>0, <1>4, TellAboutIs
    <2>2. n = [a EXCEPT !.guarded = guarded, !.timers = timers]
        BY DEF n, Guard
    <2> HIDE DEF guarded, timers, a, G
    <2>3. /\ DOMAIN a = Fields /\ a.synced = s.synced /\ a.restarting = s.restarting
          /\ a.isolated = s.isolated /\ a.link = s.link /\ a.servers = s.servers
          /\ a.paused = s.paused /\ a.status = s.status /\ s.told \subseteq a.told
          /\ Listed(a.out) /\ Uninvited(a.out) /\ G \subseteq Named \X Pc /\ Listened(a, G)
        BY <2>1 DEF Answers, G
    <2>4. Alike(a, n) /\ n.isolated = a.isolated
        BY <2>2, <2>3 DEF Alike, Fields
    <2>5. /\ DOMAIN o = Fields /\ o.told = n.told /\ o.synced = n.synced
          /\ o.restarting = n.restarting /\ o.link = n.link /\ o.servers = n.servers
          /\ o.paused = n.paused /\ o.status = n.status /\ o.isolated = n.isolated
        BY <1>2, <1>4, <2>4 DEF Alike, Fields
    <2>6. K = {pair \in G : CanTell(n, pair[1])}
        BY <1>2, <1>4, <2>4, AfterIs DEF Alike, G
    <2>7. ~ToldTooLate(u.out)
        BY <1>4, <2>3, <2>4, UninvitedInTime DEF Alike
    <2>8. /\ DOMAIN o = Fields /\ o.synced = s.synced /\ o.restarting = s.restarting
          /\ o.isolated = s.isolated /\ o.link = s.link /\ o.servers = s.servers
          /\ o.paused = s.paused /\ o.status = s.status /\ o.told = a.told
        BY <2>3, <2>4, <2>5 DEF Alike
    <2>9. SameWays(s, o) /\ SameWays(n, o)
        <3>1. s.link = o.link /\ s.servers = o.servers /\ s.paused = o.paused /\ s.status = o.status
            BY <2>8
        <3>2. n.link = o.link /\ n.servers = o.servers /\ n.paused = o.paused /\ n.status = o.status
            BY <2>5
        <3> QED BY <3>1, <3>2, LinksGiveWays DEF LinkAvailable
    <2>10. /\ \A k \in Linkset : CanTell(o, k) <=> CanTell(s, k)
           /\ \A k \in Linkset : CanTell(o, k) <=> CanTell(n, k)
           /\ Barred(o) = Barred(s)
        BY <2>9, SameTelling
    <2>11. Named \subseteq Linkset
        BY DEF Named
    <2>12. \A p \in K : CanTell(o, p[1])
        BY <2>3, <2>6, <2>10, <2>11
    <2>13. K \subseteq Named \X Pc
        BY <2>3, <2>6
    <2>14. Watched(o)
        BY <2>8 DEF Watched
    <2>15. Warned(s)
        BY <1>4 DEF Heeded
    <2>16. Warned(o)
        BY <2>3, <2>8, <2>10, <2>11, <2>15 DEF Warned
    <2>17. Listened(o, K)
        <3> SUFFICES ASSUME NEW p \in Pairs, p[1] \in o.synced, p \in o.told PROVE p \in K
            BY DEF Listened
        <3>1. p \in G
            BY <2>3, <2>8 DEF Listened
        <3>2. p[1] \in Named
            BY <2>3, <3>1
        <3>3. CanTell(n, p[1])
            BY <2>8, <2>10, <2>11, <2>15, <3>2 DEF Warned
        <3> QED BY <2>6, <3>1, <3>3
    <2>18. o.isolated => K = {}
        <3> SUFFICES ASSUME s.isolated PROVE K = {}
            BY <2>8
        <3>1. \A k \in Linkset : ~CanTell(s, k)
            BY IsolatedIsAlone
        <3> QED BY <2>10, <2>11, <2>12, <2>13, <3>1
    <2> QED BY <1>4, <2>7, <2>8, <2>12, <2>13, <2>14, <2>16, <2>17, <2>18 DEF Heeded, u
<1> QED BY <1>1, <1>3, <1>4 DEF u

----------------------------------------------------------------------------
(* What is heard, along every behaviour.                                   *)

\* Nothing tells an adjacent point what is not recorded.
Exact == episode.messages \cap Unrecorded = {}

\* What was said so far, between two inputs.
TalkInv ==
    /\ Heeded(m, heard, Exact)
    /\ Watched(m) /\ m.out = <<>>
    /\ \A p \in heard : CanTell(m, p[1])
    /\ ~late

\* An input, and settle and watch_isolation after it.
LEMMA SettledHeeds ==
    ASSUME Level3Inv', NEW next, NEW before, Fit(next, before, Exact),
           Becomes(Settled(next), before)
    PROVE  TalkInv'
<1> DEFINE a == Settled(next)
           o == [a EXCEPT !.out = <<>>]
           K == After(a, before)
<1>1. Ends(a, o, K, Exact)
    BY FitEnds
<1>2. /\ ~ToldTooLate(a.out)
      /\ DOMAIN o = Fields /\ Watched(o)
      /\ K \subseteq Named \X Pc
      /\ \A p \in K : CanTell(o, p[1])
      /\ o.restarting => K = {}
      /\ ~o.restarting => /\ Warned(o) /\ Listened(o, K)
                          /\ Exact => K \cap Pairs \subseteq Barred(o)
    <2> HIDE DEF o, K, a
    <2> QED BY <1>1 DEF Ends
<1>3. m' = o /\ heard' = K /\ late' = ToldTooLate(a.out) /\ episode' = episode
    BY DEF Becomes
<1>4. o.out = <<>>
    <2> DEFINE none == <<>>
    <2>1. o = [a EXCEPT !.out = none]
        OBVIOUS
    <2> HIDE DEF o, none, a
    <2>2. o.out = none
        BY <1>2, <2>1 DEF Fields
    <2> QED BY <2>2 DEF none
<1> HIDE DEF o, K, a
<1>5. o.isolated => K = {}
    <2> SUFFICES ASSUME o.isolated PROVE K = {}
        OBVIOUS
    <2>1. Sound(o, due')
        BY <1>3 DEF Level3Inv
    <2>2. \A ls \in Linkset : ~CanTell(o, ls)
        BY <1>2, <2>1, IsolatedIsAlone
    <2>3. \A p \in K : p[1] \in Linkset
        BY <1>2 DEF Named
    <2> QED BY <1>2, <2>2, <2>3
<1>6. Heeded(o, K, Exact)
    BY <1>2, <1>5 DEF Heeded
<1>7. Exact' = Exact
    BY <1>3 DEF Exact
<1> QED BY <1>2, <1>3, <1>4, <1>6, <1>7 DEF TalkInv

\* An input that speaks as the methods of management do.
LEMMA HandlesHeeds ==
    ASSUME Level3Inv', TalkInv, NEW next, Handles(next), Talks(m, next)
    PROVE  TalkInv'
<1>1. Fit(next, heard, Exact)
    BY TalksFits DEF TalkInv
<1> QED BY <1>1, SettledHeeds DEF Handles

\* The inputs about links.
LEMMA LinkInputHeeds ==
    ASSUME Level3Inv, Level3Inv', TalkInv, NEW l \in Link, LinkInput(l)
    PROVE  TalkInv'
<1>1. due = {}
    BY DEF LinkInput, LinkComesUp, LinkGoesDown, Xco, Coo, Eco, Xca, Eca, Cba, Inhibits, Uninhibits,
           ForcesUninhibit, UninhibitAcknowledged, LocalInhibitTest, RemoteInhibitTest, Handles
<1>2. Shape(m) /\ DOMAIN m = Fields
    BY <1>1, Ready DEF Shape
<1>3. m.restarting \/ Warned(m)
    BY DEF TalkInv, Heeded
<1>4. ASSUME LinkComesUp(l) PROVE TalkInv'
    <2>1. Talks(m, LinkUp(m, l))
        BY <1>2, <1>3, LinkUpTalks
    <2> QED BY <1>4, <2>1, HandlesHeeds DEF LinkComesUp
<1>5. ASSUME LinkGoesDown(l) PROVE TalkInv'
    <2>1. PICK bsnt \in Fsn : Handles(LinkDown(m, l, bsnt))
        BY <1>5 DEF LinkGoesDown
    <2> QED BY <1>2, <2>1, LinkDownTalks, HandlesHeeds
<1>6. ASSUME Xco(l) \/ Coo(l) \/ Eco(l) PROVE TalkInv'
    <2>1. PICK fsn, emergency : Handles(ChangeoverOrder(m, l, fsn, emergency))
        BY <1>6 DEF Xco, Coo, Eco
    <2> QED BY <1>2, <2>1, ChangeoverOrderTalks, HandlesHeeds
<1>7. ASSUME Xca(l) \/ Eca(l) PROVE TalkInv'
    <2>1. PICK fsn : Handles(ChangeoverAcknowledgement(m, l, fsn))
        BY <1>7 DEF Xca, Eca
    <2> QED BY <1>2, <2>1, ChangeoverAcknowledgementTalks, HandlesHeeds
<1>8. ASSUME Cba(l) PROVE TalkInv'
    <2>1. PICK k : Handles(ChangebackAcknowledgement(m, l, k))
        BY <1>8 DEF Cba
    <2> QED BY <1>2, <2>1, ChangebackAcknowledgementTalks, HandlesHeeds
<1>9. /\ Talks(m, Lin(m, l)) /\ Talks(m, Lun(m, l))
      /\ Talks(m, Lfu(m, l)) /\ Talks(m, Lua(m, l)) /\ Talks(m, Llt(m, l)) /\ Talks(m, Lrt(m, l))
    BY <1>2, LinQuiet, LunTalks, AttemptsQuiet, QuietLeads
<1>10. ASSUME \/ Inhibits(l) \/ Uninhibits(l) \/ ForcesUninhibit(l)
              \/ UninhibitAcknowledged(l) \/ LocalInhibitTest(l) \/ RemoteInhibitTest(l)
       PROVE  TalkInv'
    BY <1>9, <1>10, HandlesHeeds DEF Inhibits, Uninhibits, ForcesUninhibit, UninhibitAcknowledged,
           LocalInhibitTest, RemoteInhibitTest
<1> QED BY <1>4, <1>5, <1>6, <1>7, <1>8, <1>10 DEF LinkInput

\* The inputs about routes, and the messages of the adjacent points.
LEMMA RouteInputHeeds ==
    ASSUME Level3Inv, Level3Inv', TalkInv, NEW ls \in Linkset, NEW d \in Pc, RouteInput(ls, d)
    PROVE  TalkInv'
<1>1. due = {}
    BY DEF RouteInput, Tfp, Tfr, Tfa, Rst, Rsr, Handles
<1>3. DOMAIN m = Fields
    BY <1>1, Ready DEF Shape
<1>4. {"Prohibited", "Restricted", "Allowed"} \subseteq RouteStatus
    BY DEF RouteStatus
<1>5. ASSUME NEW status \in RouteStatus, Handles(RouteMessage(m, ls, d, status)) PROVE TalkInv'
    <2>1. Talks(m, RouteMessage(m, ls, d, status))
        BY <1>3, RouteMessageQuiet, QuietLeads
    <2> QED BY <1>5, <2>1, HandlesHeeds
<1>6. ASSUME NEW name \in {"RST", "RSR"}, name \in episode.messages, ~m.restarting,
             NEW believes, Handles(RouteSetTest(m, ls, d, believes))
      PROVE  TalkInv'
    <2> DEFINE next == RouteSetTest(m, ls, d, believes)
    <2>1. Exact = FALSE
        BY <1>6 DEF Exact, Unrecorded
    <2>2. Fit(next, heard, FALSE)
        <3>1. Heeded(m, heard, FALSE)
            BY <2>1 DEF TalkInv
        <3>2. m.out = <<>>
            BY DEF TalkInv
        <3> QED BY <1>6, <3>1, <3>2, RouteSetTestFits
    <2>3. Becomes(Settled(next), heard)
        BY <1>6 DEF Handles
    <2> HIDE DEF next
    <2>4. Fit(next, heard, Exact)
        BY <2>1, <2>2
    <2> QED BY <2>3, <2>4, SettledHeeds
<1>7. ASSUME Tfp(ls, d) \/ Tfr(ls, d) \/ Tfa(ls, d) PROVE TalkInv'
    <2>1. \E status \in RouteStatus : Handles(RouteMessage(m, ls, d, status))
        BY <1>4, <1>7 DEF Tfp, Tfr, Tfa
    <2> QED BY <1>5, <2>1
<1>8. ASSUME Rst(ls, d) PROVE TalkInv'
    <2>1. "RST" \in episode.messages /\ ~m.restarting
          /\ Handles(RouteSetTest(m, ls, d, "Prohibited"))
        BY <1>8 DEF Rst, Arrives
    <2> QED BY <1>6, <2>1
<1>9. ASSUME Rsr(ls, d) PROVE TalkInv'
    <2>1. "RSR" \in episode.messages /\ ~m.restarting
          /\ Handles(RouteSetTest(m, ls, d, "Restricted"))
        BY <1>9 DEF Rsr, Arrives
    <2> QED BY <1>6, <2>1
<1> QED BY <1>7, <1>8, <1>9 DEF RouteInput

LEMMA AdjacentInputHeeds ==
    ASSUME Level3Inv, Level3Inv', TalkInv, NEW ls \in Linkset, TraArrives(ls) \/ Cbd(ls)
    PROVE  TalkInv'
<1>1. CASE TraArrives(ls)
    <2> DEFINE next == TrafficRestartAllowed(m, ls)
               before == {pair \in heard : pair[1] # ls \/ ~Restarted(ls)}
               G == {p \in heard : p[1] # ls \/ ~ (~m.restarting /\ ls \notin m.restartingSets \cup m.guard)}
    <2>1. due = {} /\ Becomes(Settled(next), before)
        BY <1>1 DEF TraArrives
    <2>2. Shape(m)
        BY <2>1, Ready
    <2>3. Heeded(m, heard, Exact) /\ m.out = <<>>
        BY DEF TalkInv
    <2>4. Fit(next, G, Exact)
        BY <2>2, <2>3, TrafficRestartAllowedFits
    <2>5. G = before
        BY DEF Restarted
    <2> HIDE DEF next, before, G
    <2>6. Fit(next, before, Exact)
        BY <2>4, <2>5
    <2> QED BY <2>1, <2>6, SettledHeeds
<1>2. CASE Cbd(ls)
    <2> DEFINE message == [name |-> "CBA"]
    <2>1. Handles(Tell(m, ls, message))
        BY <1>2 DEF Cbd
    <2>2. Ordinary(message)
        BY DEF Ordinary
    <2> HIDE DEF message
    <2>3. DOMAIN m = Fields
        BY <2>1, Ready DEF Handles, Shape
    <2>4. Talks(m, Tell(m, ls, message))
        BY <2>2, <2>3, TellQuiet, QuietLeads
    <2> QED BY <2>1, <2>4, HandlesHeeds
<1> QED BY <1>1, <1>2

\* The application servers and the transfer path.
LEMMA ServerHeeds ==
    ASSUME Level3Inv, Level3Inv', TalkInv, NEW x, ServerChanges(x) \/ DestinationPauses(x)
    PROVE  TalkInv'
<1> DEFINE v == IF x \in m.servers THEN m.servers \ {x} ELSE m.servers \cup {x}
           w == IF x \in m.paused THEN m.paused \ {x} ELSE m.paused \cup {x}
           a == [m EXCEPT !.servers = v]
           b == [m EXCEPT !.paused = w]
<1>1. Handles(a) \/ Handles(b)
    BY DEF ServerChanges, DestinationPauses
<1>2. due = {}
    BY <1>1 DEF Handles
<1>3. Shape(m)
    BY <1>2, Ready
<1> HIDE DEF v, w
<1>4. ASSUME NEW n \in {a, b}, Handles(n) PROVE TalkInv'
    <2>1. /\ DOMAIN n = Fields /\ n.told = m.told /\ n.synced = m.synced
          /\ n.restarting = m.restarting /\ n.out = m.out /\ n.isolated = m.isolated
        BY <1>3, <1>4 DEF Shape, Fields
    <2>2. Talks(m, n)
        BY <2>1, SameQuiet, QuietLeads
    <2> QED BY <1>4, <2>2, HandlesHeeds
<1> HIDE DEF a, b
<1> QED BY <1>1, <1>4

LEMMA UnroutableStepHeeds ==
    ASSUME Level3Inv, TalkInv, NEW d \in Pc, NEW l \in Link, CannotTransfer(d, l),
           "Unroutable" \in episode.messages
    PROVE  TalkInv'
<1> DEFINE a == Unroutable(m, d, l)
<1>1. due = {} /\ Becomes(a, heard)
    BY DEF CannotTransfer
<1>2. Sound(m, {}) /\ Shape(m)
    BY <1>1, Ready
<1>3. /\ m' = [a EXCEPT !.out = <<>>] /\ late' = ToldTooLate(a.out)
      /\ heard' = After(a, heard) /\ episode' = episode
    BY <1>1 DEF Becomes
<1>4. Exact' = FALSE
    BY <1>3 DEF Exact, Unrecorded
<1>5. /\ ~ToldTooLate(a.out)
      /\ Heeded(m', heard', FALSE) /\ Watched(m')
      /\ \A p \in heard' : CanTell(m', p[1])
    <2>1. /\ Heeded(m, heard, FALSE) /\ Watched(m) /\ m.out = <<>>
          /\ \A p \in heard : CanTell(m, p[1])
        BY <1>4, <1>3 DEF TalkInv, Exact, Unrecorded
    <2> DEFINE o == [a EXCEPT !.out = <<>>]
               K == After(a, heard)
    <2>2. /\ ~ToldTooLate(a.out)
          /\ Heeded(o, K, FALSE) /\ Watched(o)
          /\ \A p \in K : CanTell(o, p[1])
        BY <1>2, <2>1, UnroutableHeeds
    <2>3. m' = o /\ heard' = K
        BY <1>3
    <2> HIDE DEF o, K, a
    <2> QED BY <2>2, <2>3
<1>6. m'.out = <<>>
    <2> DEFINE none == <<>>
    <2>1. Still(m, a)
        BY <1>2, UnroutableStill
    <2>2. m' = [a EXCEPT !.out = none]
        BY <1>3
    <2> HIDE DEF none, a
    <2>3. DOMAIN a = Fields
        BY <2>1 DEF Still, Shape
    <2>4. m'.out = none
        BY <2>2, <2>3 DEF Fields
    <2> QED BY <2>4 DEF none
<1> HIDE DEF a
<1>7. ~late'
    BY <1>3, <1>5
<1> QED BY <1>4, <1>5, <1>6, <1>7 DEF TalkInv

\* The clock.
LEMMA TimersRunOutHeeds ==
    ASSUME Level3Inv, Level3Inv', TalkInv, NEW t, NEW also, TimersRunOut(t, also), also \subseteq m.timers
    PROVE  TalkInv'
<1> DEFINE left == m.timers \ ({t} \cup also)
           s == [m EXCEPT !.timers = left]
           next == Timeout(s, t)
<1>1. due = {} /\ t \in m.timers /\ Becomes(Settled(next), heard) /\ due' = also
    BY DEF TimersRunOut
<1>2. Sound(m, {}) /\ Shape(m) /\ IsolationOk(m, {})
    BY <1>1, Ready
<1>3. t \in Timers
    BY <1>1, <1>2 DEF Shape
<1> HIDE DEF left
<1>4. left \subseteq m.timers
    BY DEF left
<1>5. Shape(s) /\ Alike(m, s) /\ s.isolated = m.isolated
    BY <1>2, <1>4 DEF Shape, Alike, Fields
<1> HIDE DEF s
<1>6. Heeded(s, heard, Exact)
    BY <1>5, AlikeHeeds DEF TalkInv
<1>7. s.out = <<>>
    BY <1>5 DEF Alike, TalkInv
<1>8. Fit(next, heard, Exact)
    BY <1>3, <1>5, <1>6, <1>7, TimeoutTalks, TalksFits
<1> HIDE DEF next
<1> QED BY <1>1, <1>8, SettledHeeds

LEMMA NextOfDueHeeds ==
    ASSUME Level3Inv, Level3Inv', TalkInv, NextOfDue
    PROVE  TalkInv'
<1>1. PICK t \in due : Becomes(Settled(Timeout(m, t)), heard)
    BY DEF NextOfDue
<1>2. t \in Timers /\ Shape(m)
    BY DEF Level3Inv, Sound, Apart
<1>3. Talks(m, Timeout(m, t))
    BY <1>2, TimeoutTalks
<1>4. Fit(Timeout(m, t), heard, Exact)
    BY <1>3, TalksFits DEF TalkInv
<1> QED BY <1>1, <1>4, SettledHeeds

\* At first no point can be told anything.
LEMMA InitHeeds == Init => TalkInv
<1> SUFFICES ASSUME Init PROVE TalkInv
    OBVIOUS
<1>1. m = NewManagement /\ heard = {} /\ ~late /\ due = {}
    BY DEF Init
<1>2. /\ m.synced = {} /\ m.told = {} /\ m.restarting = FALSE /\ m.isolated = TRUE
      /\ m.servers = {} /\ m.out = <<>>
    BY <1>1 DEF NewManagement
<1>3. \A l \in Link : m.link[l] = NewLink
    BY <1>1 DEF NewManagement
<1>4. \A l \in Link : ~m.link[l].up
    BY <1>3 DEF NewLink
<1>5. Watched(m)
    BY <1>2, <1>4 DEF Watched
<1>6. Sound(m, {})
    BY <1>1, NewManagementInv
<1>7. \A ls \in Linkset : ~CanTell(m, ls)
    BY <1>2, <1>5, <1>6, IsolatedIsAlone
<1>8. Spoken(m) = {}
    BY <1>7 DEF Spoken, Pairs
<1>9. Barred(m) = {}
    BY <1>8 DEF Barred
<1>10. Warned(m)
    BY <1>2, <1>7, <1>9 DEF Warned, Named
<1>11. Listened(m, {})
    BY <1>2 DEF Listened
<1>12. DOMAIN m = Fields
    BY <1>6 DEF Sound, Apart, Shape
<1>13. Heeded(m, heard, Exact)
    BY <1>1, <1>10, <1>11, <1>12 DEF Heeded
<1> QED BY <1>1, <1>2, <1>5, <1>13 DEF TalkInv

LEMMA NextHeeds == Level3Inv /\ TalkInv /\ [Next]_vars => TalkInv'
<1> SUFFICES ASSUME Level3Inv, TalkInv, [Next]_vars PROVE TalkInv'
    OBVIOUS
<1>0. Level3Inv'
    BY NextInv
<1>1. CASE \E l \in Link : LinkInput(l)
    BY <1>0, <1>1, LinkInputHeeds
<1>2. CASE \E ls \in Linkset : TraArrives(ls) \/ Cbd(ls)
    BY <1>0, <1>2, AdjacentInputHeeds
<1>3. CASE \E ls \in Linkset, d \in Pc : RouteInput(ls, d)
    BY <1>0, <1>3, RouteInputHeeds
<1>4. CASE \E s \in episode.serving : ServerChanges(s)
    BY <1>0, <1>4, ServerHeeds
<1>5. CASE \E d \in Dest : "Pause" \in episode.messages /\ DestinationPauses(d)
    BY <1>0, <1>5, ServerHeeds
<1>6. CASE \E d \in Pc, l \in Link : "Unroutable" \in episode.messages /\ CannotTransfer(d, l)
    BY <1>6, UnroutableStepHeeds
<1>7. CASE \E t \in m.timers : TimerRunsOut(t)
    BY <1>0, <1>7, TimersRunOutHeeds DEF TimerRunsOut
<1>8. CASE TwoTimersRunOut
    <2>1. PICK t \in m.timers, u \in m.timers : TimersRunOut(t, {u})
        BY <1>8 DEF TwoTimersRunOut
    <2>2. {u} \subseteq m.timers
        OBVIOUS
    <2> QED BY <1>0, <2>1, <2>2, TimersRunOutHeeds
<1>9. CASE NextOfDue
    BY <1>0, <1>9, NextOfDueHeeds
<1>10. CASE UNCHANGED vars
    <2>1. m' = m /\ heard' = heard /\ late' = late /\ episode' = episode
        BY <1>10 DEF vars
    <2> QED BY <2>1 DEF TalkInv, Exact
<1> QED BY <1>1, <1>2, <1>3, <1>4, <1>5, <1>6, <1>7, <1>8, <1>9, <1>10 DEF Next

----------------------------------------------------------------------------

\* The inductive invariant of what the adjacent points have heard, beside that
\* of the machine: what is recorded of a point that was told is what it heard,
\* every point that can be told was, and one that cannot be has forgotten.
THEOREM TalkInvariant == Spec => [](Level3Inv /\ TalkInv)
<1>1. Level3Inv /\ TalkInv /\ [Next]_vars => Level3Inv' /\ TalkInv'
    BY NextInv, NextHeeds
<1> QED BY <1>1, InitInv, InitHeeds, PTL DEF Spec

\* start_traffic and end_restart: no handler and no timer opens a link, or
\* sends traffic restart allowed, ahead of the broadcast to its adjacent point.
THEOREM TellsBeforeTraffic == Spec => []ToldBeforeTraffic
<1>1. TalkInv => ToldBeforeTraffic
    BY DEF TalkInv, ToldBeforeTraffic
<1> QED BY <1>1, TalkInvariant, PTL

\* What one that can be told is owed is in the record.
LEMMA OwedIsSpoken ==
    ASSUME TalkInv, NEW ls \in Linkset, NEW d \in Dest, Owed(ls, d)
    PROVE  /\ <<ls, d>> \in Pairs /\ <<ls, d>> \in Spoken(m)
           /\ ~m.restarting /\ Warned(m) /\ Listened(m, heard)
           /\ ls \in m.synced
           /\ ProhibitedToward(m, d, ls) <=> <<ls, d>> \in Barred(m)
<1> DEFINE p == <<ls, d>>
<1>1. p \in Pairs /\ p[1] = ls /\ p[2] = d
    BY DEF Owed, Pairs
<1>2. p \in Spoken(m)
    BY <1>1 DEF Owed, Spoken
<1>3. ~m.restarting /\ Warned(m) /\ Listened(m, heard)
    BY DEF Owed, TalkInv, Heeded
<1>4. ls \in m.synced
    BY <1>3 DEF Owed, Warned, Named
<1>5. ProhibitedToward(m, d, ls) <=> p \in Barred(m)
    <2> HIDE DEF p
    <2> QED BY <1>1, <1>2 DEF Barred
<1> QED BY <1>1, <1>2, <1>3, <1>4, <1>5

\* The response method, the route set tests and settle: no adjacent point that
\* can be told takes a destination to be reachable through this node which is not.
THEOREM WarnsEveryPoint == Spec => []EveryPointIsWarned
<1>1. ASSUME TalkInv PROVE EveryPointIsWarned
    <2>1. ASSUME NEW ls \in Linkset, NEW d \in Dest, Owed(ls, d), ProhibitedToward(m, d, ls)
          PROVE  <<ls, d>> \in heard
        <3> DEFINE p == <<ls, d>>
        <3>1. /\ p \in Pairs /\ p[1] \in m.synced /\ p \in Barred(m)
              /\ Warned(m) /\ Listened(m, heard)
            BY <1>1, <2>1, OwedIsSpoken
        <3> HIDE DEF p
        <3>2. p \in heard
            BY <3>1 DEF Warned, Listened
        <3> QED BY <3>2 DEF p
    <2> QED BY <2>1 DEF EveryPointIsWarned
<1> QED BY <1>1, TalkInvariant, PTL

\* settle, with told and synced as its record: what an adjacent point has heard
\* is exactly what must not be sent here, unless a message that could not be
\* transferred or a route set test was answered.
THEOREM BelievesRightly == Spec => []BeliefIsRight
<1>1. ASSUME TalkInv, EveryPointIsWarned PROVE BeliefIsRight
    <2>1. ASSUME Exact, NEW ls \in Linkset, NEW d \in Dest, Owed(ls, d), <<ls, d>> \in heard
          PROVE  ProhibitedToward(m, d, ls)
        <3> DEFINE p == <<ls, d>>
        <3>1. /\ p \in Pairs /\ p \in heard /\ ~m.restarting
              /\ ProhibitedToward(m, d, ls) <=> p \in Barred(m)
            BY <1>1, <2>1, OwedIsSpoken
        <3> HIDE DEF p
        <3>2. heard \cap Pairs \subseteq Barred(m)
            BY <1>1, <2>1, <3>1 DEF TalkInv, Heeded
        <3> QED BY <3>1, <3>2
    <2> QED BY <1>1, <2>1 DEF BeliefIsRight, EveryPointIsWarned, Exact
<1>2. TalkInv /\ EveryPointIsWarned => BeliefIsRight
    BY <1>1
<1> QED BY <1>2, TalkInvariant, WarnsEveryPoint, PTL

\* What answering a route set test leaves of the belief of its sender.
LEMMA AnswerRepairs ==
    ASSUME NEW s, NEW H, NEW exact, Heeded(s, H, exact), s.out = <<>>, ~s.restarting,
           NEW ls \in Linkset, Adjacent[ls] # NoPc, NEW d \in Pc, ~ProhibitedToward(s, d, ls)
    PROVE  <<ls, d>> \notin After(Settled(RouteSetTest(s, ls, d, "Prohibited")), H)
<1> DEFINE n == TellAbout(s, ls, d, FALSE)
           a == Settle(n)
           b == WatchIsolation(a)
           G == Heard(n.out, H)
           p == <<ls, d>>
<1>1. d \in Dest
    BY DEF ProhibitedToward
<1>2. RouteSetTest(s, ls, d, "Prohibited") = n
    <2> DEFINE v == ProhibitedToward(s, d, ls)
    <2>1. v = FALSE
        BY DEF ProhibitedToward
    <2>2. RouteSetTest(s, ls, d, "Prohibited") =
              IF "Prohibited" = (IF v THEN "Prohibited" ELSE "Allowed") THEN s
              ELSE TellAbout(s, ls, d, v)
        BY DEF RouteSetTest
    <2> HIDE DEF v
    <2> QED BY <2>1, <2>2
<1>3. Answers(s, H, ls, d, FALSE, n)
    BY <1>1, TellAboutIs
<1> HIDE DEF n
<1>4. /\ DOMAIN n = Fields /\ n.restarting = s.restarting
      /\ n.link = s.link /\ n.servers = s.servers /\ n.paused = s.paused /\ n.status = s.status
      /\ Listed(n.out) /\ Listened(n, G) /\ p \notin G
    BY <1>3 DEF Answers
<1>5. SameWays(s, n)
    BY <1>4, LinksGiveWays DEF LinkAvailable
<1>6. Speaks(n, a) /\ DOMAIN a = Fields
    BY <1>4, SettleSpeaks
<1>7. SameWays(n, a)
    BY <1>4, SettleWays
<1> HIDE DEF a
<1>8. Heard(a.out, H) \subseteq G \cup Barred(a)
    BY <1>4, <1>6, <1>7, SpokenIsHeard
<1>9. ~ProhibitedToward(a, d, ls)
    BY <1>5, <1>7, SameTelling
<1>10. p \notin Barred(a)
    <2>1. p[1] = ls /\ p[2] = d
        OBVIOUS
    <2> HIDE DEF p
    <2> QED BY <1>9, <2>1 DEF Barred
<1>11. Alike(a, b)
    BY <1>6, WatchIsAlike
<1>12. Settled(n) = b
    BY DEF Settled, a
<1> HIDE DEF b, G, p
<1>13. b.out = a.out
    BY <1>11 DEF Alike
<1>14. p \notin After(b, H)
    BY <1>4, <1>8, <1>10, <1>13, AfterIs
<1> QED BY <1>2, <1>12, <1>14 DEF p

\* route_set_test answers from what its sender believes: it would end a wrong
\* belief, also one that the record of this node has nothing of.
THEOREM RouteSetTestsRepair == Spec => []RouteSetTestRepairs
<1>1. ASSUME TalkInv PROVE RouteSetTestRepairs
    <2>1. ASSUME NEW pair \in heard, Owed(pair[1], pair[2]), ~ProhibitedToward(m, pair[2], pair[1])
          PROVE  pair \notin After(Settled(RouteSetTest(m, pair[1], pair[2], "Prohibited")), heard)
        <3> DEFINE ls == pair[1]
                   d == pair[2]
        <3>1. ls \in Linkset /\ Adjacent[ls] # NoPc /\ d \in Pc /\ pair = <<ls, d>>
            BY <1>1, <2>1 DEF TalkInv, Heeded, Named
        <3>2. ~m.restarting /\ ~ProhibitedToward(m, d, ls)
            BY <2>1 DEF Owed
        <3>3. Heeded(m, heard, Exact) /\ m.out = <<>>
            BY <1>1 DEF TalkInv
        <3> HIDE DEF ls, d
        <3>4. <<ls, d>> \notin After(Settled(RouteSetTest(m, ls, d, "Prohibited")), heard)
            BY <3>1, <3>2, <3>3, AnswerRepairs
        <3> QED BY <3>1, <3>4 DEF ls, d
    <2> QED BY <2>1 DEF RouteSetTestRepairs
<1> QED BY <1>1, TalkInvariant, PTL

=============================================================================
