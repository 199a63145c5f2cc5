------------------------------- MODULE Level2 -------------------------------
(***************************************************************************)
(* One M2PA link against a peer that may send anything: any Link Status    *)
(* with any BSN, any User Data with any BSN and FSN, in any state, while   *)
(* its own timers expire at any time and level 3 sends, fails and restarts *)
(* the link when it likes.  Each action is one event the runner of         *)
(* src/transport/m2pa.rs hands to the link, the method of Link it calls    *)
(* and the flush_ack that apply ends with.  out is the vector of Actions   *)
(* of the last event.                                                      *)
(***************************************************************************)
EXTENDS M2paLink

CONSTANTS
    Window     \* bound: MSUs the link holds at once

\* The release test of acknowledge looks half the circle ahead, so it is only
\* right while no more than half of the numbers are out.  The code sets no
\* such limit: 2^23 - 1 MSUs would have to wait for one acknowledgement.
ASSUME WindowAssumption == Window \in Nat /\ Window <= SeqMask \div 2

VARIABLE link

vars == <<link>>

\* The link at the start of an event, with an empty vector of actions.
Quiet == [link EXCEPT !.out = <<>>]

Init == link = Start(Established(NewLink))

----------------------------------------------------------------------------

\* Level 3 hands an MSU over.
SendMsu == \E m \in Msu :
    /\ Len(link.unacked) + Len(link.unsent) < Window
    /\ link' = FlushAck(Send(Quiet, m))

TimerExpires == \E t \in link.timers :
    link' = FlushAck(Timeout(Expired(Quiet, t), t))

ReceiveStatus == \E s \in Status, bsn \in SeqNum :
    link' = FlushAck(OnStatus(Quiet, s, bsn))

ReceiveData == \E bsn, fsn \in SeqNum, m \in Msu \cup {NoMsu} :
    link' = FlushAck(OnData(Quiet, bsn, fsn, m))

\* The link test failed twice, the far end ordered a changeover, the
\* association went, or the process stops.
FailLink == \E reason \in {"LinkTest", "Stopped", "Association"} :
    link' = FlushAck(Fail(Quiet, reason))

\* Q.704 12.2.2: T17 ran out, and alignment is tried again.
Restart == link' = FlushAck(Start(Quiet))

\* Level 3 takes what the failed link holds.
DetachLink == link' = Detach(Quiet)

Next == \/ SendMsu
        \/ TimerExpires
        \/ ReceiveStatus
        \/ ReceiveData
        \/ FailLink
        \/ Restart
        \/ DetachLink

Spec == Init /\ [][Next]_vars

----------------------------------------------------------------------------
(* Properties.  Each invariant is a predicate on a link, so that it can be *)
(* stated of the link between two methods too.                             *)

IsWindow(l) ==
    /\ Len(l.unacked) + Len(l.unsent) <= Window
    /\ l.state # "OutOfService" => Len(l.unacked) = SeqDistance(l.acked, l.fsnOut)
    /\ \A i \in 1 .. Len(l.unacked) : l.unacked[i].fsn = SeqAdd(l.acked, i)

T7IsRight(l) ==
    /\ "T7" \in l.timers <=> l.state = "InService" /\ ~l.remoteBusy /\ l.unacked # <<>>
    /\ "T7" \in l.timers => l.t7For = l.unacked[1].fsn

IsSupervised(l) ==
    /\ "T2" \in l.timers <=> l.state = "NotAligned"
    /\ "T3" \in l.timers <=> l.state = "Aligned"
    /\ "T4" \in l.timers <=> l.state = "Proving"
    /\ "Proving" \in l.timers <=> l.state = "Proving"
    /\ "T1" \in l.timers <=> l.state = "AlignedReady"
    /\ "T6" \in l.timers => IsAligned(l) /\ l.remoteBusy

WaitsForAReason(l) ==
    /\ l.unsent # <<>> => l.state = "ProcessorOutage" \/ l.remoteBusy
    /\ ~IsAligned(l) => l.unacked = <<>> /\ l.unsent = <<>> /\ ~l.remoteBusy

\* Every field of Link holds a value its Rust type and its use allow, and every
\* Action is well formed.
TypeOK == link \in Link

\* unacked is exactly the numbers after acked up to fsnOut, in order, whatever
\* was acknowledged, flushed by a recovering peer or numbered anew: the loop of
\* acknowledge that pops the buffer, on_status(ProcessorRecovered) and transmit
\* keep the buffer and the three counters in step.
BufferIsTheWindow == IsWindow(link)

\* T7 of transmit, arm_t7, restart_t7, Busy, BusyEnded and the two processor
\* outage statuses: it runs exactly while the link may send and something is
\* not acknowledged, and it is the deadline of the oldest such message.
T7WatchesTheOldest == T7IsRight(link)

\* Q.703 Figures 8 and 9: a link that is aligning is never without the timer
\* that ends the state it is in, and no timer outlives its state.
AlignmentIsSupervised == IsSupervised(link)

\* What waits in unsent waits for a reason: as soon as the peer may be sent to
\* again, flush_unsent has numbered all of it, whichever of BusyEnded and
\* ProcessorRecovered came last.  A link that is not aligned holds nothing:
\* fail moved it to what can be retrieved.
NothingWaitsInVain == WaitsForAReason(link)

TxDiscard == {"TxCongestion", "TxNotInService", "TxLostOnFailure", "TxFlushedByPeer"}

\* The count of the Discarded actions of one event about MSUs of this end.
TxDiscardedCount(out) ==
    LET Counted(i) == IF out[i].action = "Discarded" /\ out[i].reason \in TxDiscard
                      THEN out[i].count ELSE 0
        Sum[i \in 0 .. Len(out)] == IF i = 0 THEN 0 ELSE Sum[i - 1] + Counted(i)
    IN  Sum[Len(out)]

InHand(l) == Len(l.unacked) + Len(l.unsent) + Held(l.retrievable)

\* An MSU that is handed over, and one in the buffers of the link, leaves only
\* acknowledged, taken by level 3 (detach), or counted in a Discarded action of
\* the same event: no order of outage, congestion, failure and restart makes
\* one vanish unseen.
NothingVanishes ==
    [][ LET acknowledged == IF IsAligned(link) THEN SeqDistance(link.acked, link'.acked) ELSE 0
            taken   == IF DetachLink THEN Held(link.retrievable) ELSE 0
            arrived == IF SendMsu THEN 1 ELSE 0
        IN  InHand(link') + acknowledged + taken + TxDiscardedCount(link'.out)
                >= InHand(link) + arrived
      ]_vars
=============================================================================
