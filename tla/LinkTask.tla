------------------------------ MODULE LinkTask ------------------------------
(***************************************************************************)
(* The task of one M2PA link (run_link and idle_link of                    *)
(* src/transport/m2pa.rs), against a peer that may send anything and a     *)
(* level 3 that may ask for anything: associations come and go, timers     *)
(* expire one by one or several at once, commands and MSUs arrive in any   *)
(* order.  Level3 models what level 3 really asks for.                     *)
(***************************************************************************)
EXTENDS M2paRunner

CONSTANTS
    HasTest,    \* whether the link runs the signalling link test
    PeerStates, \* the Link Status states the peer sends (Level2 has them all)
    PeerMsu,    \* the MSUs the peer sends
    Window,     \* bound: MSUs the link holds at once
    MaxOut,     \* bound: MSUs the link numbers in one alignment
    MaxIn       \* bound: MSUs the peer delivers in one alignment

ASSUME PeerAssumption ==
    HasTest \in BOOLEAN /\ PeerStates \subseteq Status /\ PeerMsu \subseteq Msu

VARIABLE runner

vars == <<runner>>

\* The sequence numbers wrap in Level2; here their start is enough.
RoomFor(n) ==
    /\ Len(runner.link.unacked) + Len(runner.link.unsent) + n <= Window
    /\ SeqDistance(SeqMask, runner.link.fsnOut) + Len(runner.link.unsent) + n <= MaxOut

Room == RoomFor(1)

\* The runner between two events.  What went to the association and to level
\* 3 is no part of its state.
Now == Clean(runner)

Becomes(r) == runner' = [r EXCEPT !.link.out = <<>>, !.told = <<>>, !.delivered = <<>>,
                                 !.abandoned = <<>>]

Init == runner = NewRunner(HasTest)

----------------------------------------------------------------------------

AssociationUp ==
    /\ ~runner.attached
    /\ Becomes(Attach(Now))

AssociationGone == \E reason \in {"Association", "Stopped"} :
    /\ runner.attached
    /\ Becomes(EndTask(Now, reason))

\* BSNs that acknowledge nothing, one, everything, and something never sent.
PeerBsn == {runner.link.acked, SeqAdd(runner.link.acked, 1), runner.link.fsnOut,
            SeqAdd(runner.link.fsnOut, 1)}

PeerStatus == \E s \in PeerStates, bsn \in PeerBsn :
    /\ runner.attached
    /\ Becomes(ReceiveStatusMsg(Now, s, bsn))

\* In sequence, or one that was accepted before.
PeerData == \E bsn \in PeerBsn, k \in {0, 1}, m \in PeerMsu \cup {NoMsu} :
    /\ runner.attached
    /\ m \in {Sltm, BadSlta} => Room
    /\ SeqDistance(SeqMask, runner.link.fsnIn) + k <= MaxIn
    /\ Becomes(ReceiveDataMsg(Now, bsn, SeqAdd(runner.link.fsnIn, k), m))

TimersExpire ==
    \E due \in SUBSET runner.link.timers, dueTest \in SUBSET runner.test.timers,
       dueRestart \in {FALSE, runner.restart} :
        /\ due # {} \/ dueTest # {} \/ dueRestart
        /\ dueTest # {} => Room
        /\ Becomes(Fire(Now, due, dueTest, dueRestart))

CarryMsu == \E m \in Data : Room /\ Becomes(Carry(Now, m))

HoldIt == Becomes(CommandHold(Now))

\* With the number the far end accepted last, or without any.
DivertIt ==
    \/ \E fsnc \in SeqNum : Becomes(CommandDivert(Now, TRUE, fsnc))
    \/ Becomes(CommandDivert(Now, FALSE, 0))

OpenIt ==
    /\ RoomFor(Len(runner.traffic.held))
    /\ Becomes(CommandOpen(Now))

FailIt == Becomes(CommandFail(Now))

DirectIt == Room /\ Becomes(CommandDirect(Now, Slta))

Next == \/ AssociationUp
        \/ AssociationGone
        \/ PeerStatus
        \/ PeerData
        \/ TimersExpire
        \/ CarryMsu
        \/ HoldIt
        \/ DivertIt
        \/ OpenIt
        \/ FailIt
        \/ DirectIt

Spec == Init /\ [][Next]_vars

\* Level 3 opens no link but one it was told is up, and the command arrives
\* while that still holds.
Opens == runner'.traffic.state = "Open" /\ runner.traffic.state # "Open"

OrderlySpec == Init /\ [][Next /\ (Opens => runner.available)]_vars

----------------------------------------------------------------------------
(* Properties.                                                             *)

\* A link with an association that is out of service always has the T17 of
\* apply_one(OutOfService) running, whichever of its many ways out of service
\* it took, and no restart outlives the failure: it is never given up, and
\* never restarted while it aligns.
RestartIsPending ==
    runner.restart <=> runner.attached /\ runner.link.state = "OutOfService"

\* Level 3 is told of every change: what it was told last is what the link is,
\* and a link it may use was tested and has its association.
AvailableIsTrue ==
    runner.available <=>
        /\ runner.attached
        /\ runner.link.state = "InService"
        /\ HasTest => runner.test.state # "Idle" /\ runner.test.available

DataIn(msus) == Len(Traffic(msus))

DataHeldBy(r) == DataIn(Msus(r.unacked)) + DataIn(r.unsent)

\* The messages of level 3 inside the runner.
DataInside(r) ==
    DataHeldBy(r.link) + DataHeldBy(r.link.retrievable) + DataHeldBy(r.traffic.kept)
        + Len(r.traffic.held)

\* No message of level 3, one that just came included, disappears between the
\* link, what it left for the changeover, the changeover buffer and the
\* alternative route: it leaves the runner acknowledged, confirmed by the far
\* end, rerouted, or counted in the same event.
NoSilentLoss ==
    [][ LET acknowledged == IF IsAligned(runner.link) /\ runner'.link.state # "NotAligned"
                               /\ runner'.attached
                            THEN SeqDistance(runner.link.acked, runner'.link.acked) ELSE 0
            arrived == IF CarryMsu THEN 1 ELSE 0
        IN  DataInside(runner') + acknowledged + runner'.confirmed + Len(runner'.rerouted)
                + runner'.counted >= DataInside(runner) + arrived
      ]_vars

\* slt.rs: a test is Idle while "the link is not in service at level 2", and
\* begin is called when "the link came into service at level 2".
InServiceIsTested ==
    HasTest /\ runner.link.state = "InService" => runner.test.state # "Idle"
=============================================================================
