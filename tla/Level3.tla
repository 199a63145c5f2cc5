------------------------------- MODULE Level3 -------------------------------
(***************************************************************************)
(* The task that runs signalling network management (run in                *)
(* src/transport/management.rs): it takes one input at a time, from the    *)
(* links, the transfer path, the application servers and the clock, and    *)
(* carries out what the machine asks for before it takes the next.         *)
(*                                                                         *)
(* The far ends may send anything at any time.  A message is known by its  *)
(* name and the linkset whose adjacent point sent it (linkset_of), or the  *)
(* link of that linkset it is about; messages of other points, and         *)
(* messages that are only counted, change nothing and are left out.        *)
(*                                                                         *)
(* Timers that have run out together are taken from the deadlines at once  *)
(* and fed one after the other (due), so one of them may find that an      *)
(* earlier one has stopped or started it.                                  *)
(***************************************************************************)
EXTENDS Mtp3Management

CONSTANT Episodes   \* bound: what may happen in one behaviour, one of these

\* messages: the names of the messages that arrive; fails: the links that fail
\* once they are up; managed: the links that inhibition messages are about;
\* serving: the application servers that come and go; together: whether two
\* timers run out together, or only ever one.
ASSUME EpisodesAssumption ==
    \A e \in Episodes :
        /\ {e.fails, e.managed} \subseteq SUBSET Link
        /\ e.serving \subseteq Server /\ e.together \in BOOLEAN

VARIABLES
    episode,    \* which of the episodes this behaviour is
    m,      \* the machine, between two inputs
    due,    \* timers taken from the deadlines and not yet fed
    late,   \* whether the actions of the last input were in the wrong order
    heard   \* what the adjacent points have been told not to send here

vars == <<episode, m, due, late, heard>>

\* The linksets that an action lets traffic, or the restart of it, go to.
Invites(action) ==
    CASE action.do = "Open" -> {LinksetOf[l] : l \in action.links}
      [] action.do = "Send" -> IF action.message = Tra THEN action.to ELSE {}
      [] OTHER -> {}

\* An adjacent point was told what not to send only after it was invited to
\* send.
ToldTooLate(out) ==
    \E i, j \in DOMAIN out :
        /\ i < j /\ out[j].do = "Broadcast"
        /\ \E pair \in out[j].tfp : pair[1] \in Invites(out[i])

\* What the adjacent points make of one action, kept apart from the record
\* (told) that this node has of it.
Hears(pairs, action) ==
    CASE action.do = "Broadcast" -> (pairs \union action.tfp) \ action.tfa
      [] action.do = "Send" /\ action.message.name = "TFP" ->
             pairs \union (action.to \X {action.message.dest})
      [] action.do = "Send" /\ action.message.name = "TFA" ->
             pairs \ (action.to \X {action.message.dest})
      [] OTHER -> pairs

\* A point that cannot be reached any more takes every route through this node
\* to be allowed when it can be again.
After(next, before) ==
    LET heardOf[n \in 0 .. Len(next.out)] ==
            IF n = 0 THEN before ELSE Hears(heardOf[n - 1], next.out[n])
    IN  {pair \in heardOf[Len(next.out)] : CanTell(next, pair[1])}

Becomes(next, before) ==
    /\ m' = [next EXCEPT !.out = <<>>]
    /\ late' = ToldTooLate(next.out)
    /\ heard' = After(next, before)
    /\ UNCHANGED episode

\* One input: the method it calls, then settle and watch_isolation.
Handles(next) == due = {} /\ Becomes(Settled(next), heard) /\ UNCHANGED due

Init ==
    /\ episode \in Episodes
    /\ m = NewManagement /\ due = {} /\ late = FALSE /\ heard = {}

----------------------------------------------------------------------------
(* The links, the application servers and the transfer path.               *)

LinkComesUp(l) == ~m.link[l].up /\ Handles(LinkUp(m, l))

LinkGoesDown(l) ==
    /\ l \in episode.fails /\ m.link[l].up
    /\ \E bsnt \in Fsn : Handles(LinkDown(m, l, bsnt))

ServerChanges(s) ==
    Handles([m EXCEPT !.servers = IF s \in m.servers THEN @ \ {s} ELSE @ \union {s}])

DestinationPauses(d) == Handles([m EXCEPT !.paused = IF d \in m.paused THEN @ \ {d} ELSE @ \union {d}])

\* Nothing is settled after this one.
CannotTransfer(d, l) == due = {} /\ Becomes(Unroutable(m, d, l), heard) /\ UNCHANGED due

----------------------------------------------------------------------------
(* Management messages.  Of these a restarting node takes only those of    *)
(* the restart procedure.                                                  *)

Arrives(name, ls) == name \in episode.messages /\ Adjacent[ls] # NoPc

ArrivesAbout(name, l) == Arrives(name, LinksetOf[l]) /\ ~m.restarting

Tfp(ls, d) == Arrives("TFP", ls) /\ Handles(RouteMessage(m, ls, d, "Prohibited"))
Tfr(ls, d) == Arrives("TFR", ls) /\ Handles(RouteMessage(m, ls, d, "Restricted"))
Tfa(ls, d) == Arrives("TFA", ls) /\ Handles(RouteMessage(m, ls, d, "Allowed"))

\* One that nothing here calls for says that the adjacent point has restarted
\* and has forgotten what it heard.  The others answer this node.
Restarted(ls) == ~m.restarting /\ ls \notin m.restartingSets \union m.guard

TraArrives(ls) ==
    /\ Arrives("TRA", ls) /\ due = {}
    /\ Becomes(Settled(TrafficRestartAllowed(m, ls)),
               {pair \in heard : pair[1] # ls \/ ~Restarted(ls)})
    /\ UNCHANGED due

Rst(ls, d) ==
    /\ Arrives("RST", ls) /\ ~m.restarting
    /\ Handles(RouteSetTest(m, ls, d, "Prohibited"))

Rsr(ls, d) ==
    /\ Arrives("RSR", ls) /\ ~m.restarting
    /\ Handles(RouteSetTest(m, ls, d, "Restricted"))

Cbd(ls) ==
    /\ Arrives("CBD", ls) /\ ~m.restarting
    /\ Handles(Tell(m, ls, [name |-> "CBA"]))

Xco(l) == ArrivesAbout("XCO", l) /\ \E fsn \in Fsn : Handles(ChangeoverOrder(m, l, fsn, FALSE))
Coo(l) == ArrivesAbout("COO", l) /\ Handles(ChangeoverOrder(m, l, NoFsn, TRUE))
Eco(l) == ArrivesAbout("ECO", l) /\ Handles(ChangeoverOrder(m, l, NoFsn, FALSE))

Xca(l) == ArrivesAbout("XCA", l) /\ \E fsn \in Fsn : Handles(ChangeoverAcknowledgement(m, l, fsn))
Eca(l) == ArrivesAbout("ECA", l) /\ Handles(ChangeoverAcknowledgement(m, l, NoFsn))

Cba(l) ==
    /\ ArrivesAbout("CBA", l)
    /\ \E k \in LinksOf[LinksetOf[l]] : Handles(ChangebackAcknowledgement(m, l, k))

InhibitionArrives(name, l) == l \in episode.managed /\ ArrivesAbout(name, l)

Inhibits(l) == InhibitionArrives("LIN", l) /\ Handles(Lin(m, l))
Uninhibits(l) == InhibitionArrives("LUN", l) /\ Handles(Lun(m, l))
ForcesUninhibit(l) == InhibitionArrives("LFU", l) /\ Handles(Lfu(m, l))
UninhibitAcknowledged(l) == InhibitionArrives("LUA", l) /\ Handles(Lua(m, l))
LocalInhibitTest(l) == InhibitionArrives("LLT", l) /\ Handles(Llt(m, l))
RemoteInhibitTest(l) == InhibitionArrives("LRT", l) /\ Handles(Lrt(m, l))

----------------------------------------------------------------------------
(* The clock.                                                              *)

\* t runs out, and with it the timers of also, which are fed next.
TimersRunOut(t, also) ==
    /\ due = {} /\ t \in m.timers
    /\ Becomes(Settled(Timeout([m EXCEPT !.timers = @ \ ({t} \union also)], t)), heard)
    /\ due' = also

TimerRunsOut(t) == TimersRunOut(t, {})

TwoTimersRunOut ==
    episode.together /\ \E t \in m.timers : \E u \in m.timers \ {t} : TimersRunOut(t, {u})

NextOfDue ==
    \E t \in due :
        /\ Becomes(Settled(Timeout(m, t)), heard)
        /\ due' = due \ {t}

----------------------------------------------------------------------------

LinkInput(l) ==
    \/ LinkComesUp(l) \/ LinkGoesDown(l)
    \/ Xco(l) \/ Coo(l) \/ Eco(l) \/ Xca(l) \/ Eca(l) \/ Cba(l)
    \/ Inhibits(l) \/ Uninhibits(l) \/ ForcesUninhibit(l) \/ UninhibitAcknowledged(l)
    \/ LocalInhibitTest(l) \/ RemoteInhibitTest(l)

RouteInput(ls, d) == Tfp(ls, d) \/ Tfr(ls, d) \/ Tfa(ls, d) \/ Rst(ls, d) \/ Rsr(ls, d)

Next ==
    \/ \E l \in Link : LinkInput(l)
    \/ \E ls \in Linkset : TraArrives(ls) \/ Cbd(ls)
    \/ \E ls \in Linkset, d \in Pc : RouteInput(ls, d)
    \/ \E s \in episode.serving : ServerChanges(s)
    \/ \E d \in Dest : "Pause" \in episode.messages /\ DestinationPauses(d)
    \/ \E d \in Pc, l \in Link : "Unroutable" \in episode.messages /\ CannotTransfer(d, l)
    \/ \E t \in m.timers : TimerRunsOut(t)
    \/ TwoTimersRunOut
    \/ NextOfDue

Spec == Init /\ [][Next]_vars

\* The timers that a link may wait for.
LinkTimers ==
    {"Changeover", "Changeback"} \X Link \union {"AdjacentRestart"} \X Linkset
        \union {<<"Restart">>, <<"RestartOverall">>}

\* The task sleeps until the earliest deadline, so a timer that is not stopped
\* runs out and is fed.  None of these is started again for ever by running out: it is
\* the same to say that it does not run for ever.
FairSpec == Spec /\ []<>(due = {}) /\ \A t \in LinkTimers : []<>(t \notin m.timers)

----------------------------------------------------------------------------
(* Properties.                                                             *)

Running == m.timers \union due

\* Whatever the machine waits for is also timed: no phase of a link, restart,
\* hold or attempt is left when its timer is stopped or has run out.  Every
\* handler that starts or stops a timer has a part in this.
EveryWaitIsTimed ==
    /\ \A l \in Link :
          /\ m.link[l].phase \in Changeover => <<"Changeover", l>> \in Running
          /\ m.link[l].phase \in Declared \union {"ChangebackTimed"} => <<"Changeback", l>> \in Running
          /\ m.link[l].remoteInhibited => <<"InhibitTest", l>> \in Running
          /\ m.link[l].uninhibitAttempts > 0 => <<"Uninhibit", l>> \in Running
          /\ m.link[l].forceAttempts > 0 => <<"ForceUninhibit", l>> \in Running
    /\ \A ls \in Linkset :
          /\ ls \in m.restartingSets => <<"AdjacentRestart", ls>> \in Running
          /\ ls \in m.guard => <<"RestartAllowed", ls>> \in Running
    /\ \A d \in m.holding : <<"Rerouting", d>> \in Running
    /\ \A s \in m.status : <<"RouteSetTest", s[1], Routes[s[1]][s[2]].via>> \in Running
    /\ \A d \in m.guarded : <<"Prohibited", d>> \in Running
    /\ m.restarting => <<"Restart">> \in Running \/ <<"RestartOverall">> \in Running
    /\ m.isolated => m.restartDue \/ <<"Isolation">> \in Running

\* A link that is up and not inhibited carries traffic or is on its way to,
\* and no other link is; and its task was last told to do with its traffic what
\* its phase says, so that the buffer that Hold filled is always emptied by
\* Divert or Open.  Whatever order failure, restoration, inhibition, changeover
\* and restart come in, link_up, link_down, complete_changeover and
\* inhibit_message leave no link in between.
NoLinkIsForgotten ==
    \A l \in Link :
        LET k == m.link[l] IN
        /\ k.up /\ ~k.remoteInhibited => k.phase # "Closed" /\ (k.phase \in Changeover => k.back)
        /\ k.phase \in Carrying \union {"AwaitRestart"} => k.up /\ ~k.remoteInhibited
        /\ k.phase = "AwaitRestart" => m.restarting \/ LinksetOf[l] \in m.restartingSets
        /\ k.ordered.out => k.up
        /\ l \in m.openLinks <=> k.phase = "Open"
        /\ l \in m.heldLinks <=> k.phase \in Changeover \union Declared \union {"ChangebackTimed"}

\* The adjacent points that are to know which destinations not to send here.
Owed(ls, d) == ~m.restarting /\ Adjacent[ls] \notin {NoPc, d} /\ CanTell(m, ls)

\* Every adjacent point that can be reached has heard exactly the destinations
\* it must not send here, also one that was out of reach or has restarted: the
\* record of it that settle goes by, told, is never mistaken.  Only the answer
\* to a message that cannot be transferred, or to a route set test, tells a
\* point what is not recorded.
Unrecorded == {"Unroutable", "RST", "RSR"}

BeliefIsRight ==
    episode.messages \intersect Unrecorded = {} => \A ls \in Linkset, d \in Dest :
        Owed(ls, d) => (<<ls, d>> \in heard <=> ProhibitedToward(m, d, ls))

\* No adjacent point takes a destination to be reachable through this node
\* that is not, whatever the response method, the route set tests and settle
\* told it, in any order.
EveryPointIsWarned ==
    \A ls \in Linkset, d \in Dest :
        Owed(ls, d) /\ ProhibitedToward(m, d, ls) => <<ls, d>> \in heard

\* A route set test would end the belief of its sender that a destination is
\* prohibited which is not, also one that this node's record knows nothing of:
\* route_set_test compares what the sender believes, not what it was told.
RouteSetTestRepairs ==
    \A pair \in heard :
        Owed(pair[1], pair[2]) /\ ~ProhibitedToward(m, pair[2], pair[1]) =>
            pair \notin After(Settled(RouteSetTest(m, pair[1], pair[2], "Prohibited")), heard)

\* No adjacent point is invited to send (a link is opened, or traffic restart
\* allowed is sent) before it was told what not to send: 9.3.2, and the order
\* of settle and Open in start_traffic and end_restart.
ToldBeforeTraffic == ~late

\* The routing table has the routes through a linkset prohibited exactly when
\* its adjacent point said so: at once when it says so, and until T6 is over when
\* it takes that back.  A message is about the first route through the linkset.
TableIsRight ==
    \A d \in Dest, ls \in Linkset :
        RoutesThrough(d, ls) # {} =>
            LET said == <<d, FirstRouteThrough(d, ls), "Prohibited">> \in m.status
                marked == <<d, ls, "Prohibited">> \in m.mark
            IN  (said => marked) /\ (marked => said \/ d \in m.holding)

\* Granting an inhibition takes no destination away: would_isolate foresees
\* what the changeover that follows does to every destination.
InhibitionIsolatesNobody ==
    [][\A l \in Link : ~m.link[l].remoteInhibited /\ m'.link[l].remoteInhibited =>
          m.accessible \subseteq m'.accessible]_vars

\* A link that stays up, and that the far end neither inhibits nor orders a
\* changeover from, ends up carrying traffic for good: no sequence of
\* changeovers, restarts and lost acknowledgements keeps it out.
EveryLinkServes ==
    \A l \in Link :
        <>[](m.link[l].up /\ ~m.link[l].remoteInhibited /\ ~m.link[l].ordered.out)
            => <>[](m.link[l].phase = "Open")
=============================================================================
