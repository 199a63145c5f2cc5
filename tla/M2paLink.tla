------------------------------ MODULE M2paLink ------------------------------
(***************************************************************************)
(* Level 2 of one M2PA signalling link: src/transport/m2pa/link.rs.        *)
(*                                                                         *)
(* The code is a state machine without I/O: every method of Link changes   *)
(* the link and appends Actions to a vector.  Here a link is a record, and *)
(* every method an operator from a link to the link after the call; the    *)
(* vector is the field out.  The runner (M2paRunner) and the pair of ends  *)
(* (LinkPair) are built from these operators.                              *)
(*                                                                         *)
(* Time is abstract.  The field timers is the set of timers that have a    *)
(* deadline (Deadlines::link in src/transport/m2pa.rs); Start and Stop     *)
(* actions change it at once, since the runner applies them before it      *)
(* waits for the next event.  T7 expires at the deadline of the message it *)
(* was started for, which t7For remembers in place of sent_at.             *)
(***************************************************************************)
EXTENDS Integers, Sequences

CONSTANTS
    SeqMask,     \* the largest sequence number: 2^24 - 1 in the code
    TxQueue,     \* tx_queue: how many MSUs wait while the peer is not sent to
    Proving,     \* "Normal" or "Emergency": what this end asks for
    Msu,         \* the MSUs that level 3 and the peer may send
    NoMsu        \* the payload of a message that carries none

ASSUME SeqMaskAssumption == SeqMask \in Nat /\ SeqMask >= 3
ASSUME TxQueueAssumption == TxQueue \in Nat
ASSUME ProvingAssumption == Proving \in {"Normal", "Emergency"}
ASSUME MsuAssumption == NoMsu \notin Msu

State == {"OutOfService", "NotAligned", "Aligned", "Proving",
          "AlignedReady", "InService", "ProcessorOutage"}

Timer == {"T1", "T2", "T3", "T4", "T6", "T7", "Proving"}

Status == {"Alignment", "ProvingNormal", "ProvingEmergency", "Ready",
           "ProcessorOutage", "ProcessorRecovered", "Busy", "BusyEnded",
           "OutOfService"}

Failure == {"T1", "T2", "T3", "T6", "T7", "PeerStatus", "AbnormalBsn",
            "LinkTest", "Association", "Stopped"}

Discard == {"TxNotInService", "TxCongestion", "TxLostOnFailure", "TxFlushedByPeer",
            "RxOutOfSequence", "RxNotInService", "RxAbnormalBsn"}

StatusStream == 0
DataStream == 1

----------------------------------------------------------------------------
(* Sequence numbers: the circle 0 .. SeqMask.                              *)

SeqNum == 0 .. SeqMask

\* A mistake: the number is not masked.
SeqAddUnmasked(n, k) == n + k

\* k steps forward from n, for k in 0 .. SeqMask + 1.
SeqAdd(n, k) == IF n + k > SeqMask THEN n + k - SeqMask - 1 ELSE n + k

SeqDistance(from, to) == IF to >= from THEN to - from ELSE to - from + SeqMask + 1

----------------------------------------------------------------------------
(* The types of link.rs.                                                   *)

Kept == [fsn : SeqNum, msu : Msu]

Retrievable ==
    [some : BOOLEAN, bsnt : SeqNum, acked : SeqNum, unacked : Seq(Kept), unsent : Seq(Msu)]

Action ==
    [action : {"Send"}, stream : {StatusStream, DataStream}, kind : {"LinkStatus", "UserData"},
     status : Status, bsn : SeqNum, fsn : SeqNum, msu : Msu \cup {NoMsu}]
    \cup [action : {"Deliver"}, msu : Msu]
    \cup [action : {"Discarded"}, reason : Discard, count : Nat]
    \cup [action : {"InService"}]
    \cup [action : {"OutOfService"}, reason : Failure]
    \cup [action : {"RemoteProcessorOutage"}, on : BOOLEAN]

Link ==
    [state : State, useEmergency : BOOLEAN, peerReady : BOOLEAN,
     fsnOut : SeqNum, fsnIn : SeqNum, acked : SeqNum, bsnWatch : 0 .. 2,
     remoteBusy : BOOLEAN, ackDue : BOOLEAN,
     unacked : Seq(Kept), unsent : Seq(Msu), retrievable : Retrievable,
     timers : SUBSET Timer, t7For : SeqNum, out : Seq(Action)]

----------------------------------------------------------------------------
(* What a failed link leaves for changeover.                               *)

NothingRetrievable ==
    [some |-> FALSE, bsnt |-> SeqMask, acked |-> SeqMask, unacked |-> <<>>, unsent |-> <<>>]

Msus(unacked) == [i \in 1 .. Len(unacked) |-> unacked[i].msu]

\* A mistake: the message the far end accepted last is resent.
RetrieveInclusive(r, has, fsnc) ==
    LET Lacks(u) == SeqDistance(r.acked, u.fsn) >= SeqDistance(r.acked, fsnc)
    IN  [resend      |-> Msus(SelectSeq(r.unacked, Lacks)) \o r.unsent,
         confirmed   |-> 0,
         unconfirmed |-> <<>>]

\* Retrievable::retrieve.  has says whether the far end named a number at all.
Retrieve(r, has, fsnc) ==
    LET n        == Len(r.unacked)
        lastSent == IF n = 0 THEN r.acked ELSE r.unacked[n].fsn
        accepted == SeqDistance(r.acked, fsnc)
        valid    == has /\ accepted <= SeqDistance(r.acked, lastSent)
        Lacks(u) == SeqDistance(r.acked, u.fsn) > accepted
        lacked   == SelectSeq(r.unacked, Lacks)
    IN  IF valid
        THEN [resend      |-> Msus(lacked) \o r.unsent,
              confirmed   |-> n - Len(lacked),
              unconfirmed |-> <<>>]
        ELSE [resend      |-> r.unsent,
              confirmed   |-> 0,
              unconfirmed |-> Msus(r.unacked)]

----------------------------------------------------------------------------
(* The link, and what its methods append to the vector of actions.         *)

NewLink ==
    [state        |-> "OutOfService",
     useEmergency |-> Proving = "Emergency",
     peerReady    |-> FALSE,
     fsnOut       |-> SeqMask,
     fsnIn        |-> SeqMask,
     acked        |-> SeqMask,
     bsnWatch     |-> 0,
     remoteBusy   |-> FALSE,
     ackDue       |-> FALSE,
     unacked      |-> <<>>,
     unsent       |-> <<>>,
     retrievable  |-> NothingRetrievable,
     timers       |-> {},
     t7For        |-> SeqMask,
     out          |-> <<>>]

IsAligned(l) == l.state \in {"InService", "ProcessorOutage"}

Bsnt(l) == IF l.retrievable.some THEN l.retrievable.bsnt ELSE l.fsnIn

Detach(l) == [l EXCEPT !.retrievable = NothingRetrievable]

Held(r) == Len(r.unacked) + Len(r.unsent)

SendAction(stream, kind, status, bsn, fsn, msu) ==
    [action |-> "Send", stream |-> stream, kind |-> kind, status |-> status,
     bsn |-> bsn, fsn |-> fsn, msu |-> msu]

DataAction(l, fsn, msu) == SendAction(DataStream, "UserData", "Ready", l.fsnIn, fsn, msu)

Push(l, a) == [l EXCEPT !.out = Append(@, a)]

Deliver(l, msu) == Push(l, [action |-> "Deliver", msu |-> msu])

Discarded(l, reason, count) ==
    IF count = 0 THEN l
    ELSE Push(l, [action |-> "Discarded", reason |-> reason, count |-> count])

SendStatus(l, status, stream) ==
    Push(l, SendAction(stream, "LinkStatus", status, l.fsnIn, l.fsnOut, NoMsu))

ProvingStatus == IF Proving = "Normal" THEN "ProvingNormal" ELSE "ProvingEmergency"

----------------------------------------------------------------------------
(* Failure, start, service.                                                *)

Established(l) == SendStatus(l, "OutOfService", StatusStream)

Fail(l, reason) ==
    IF l.state = "OutOfService" THEN l
    ELSE LET told == IF reason = "Association" THEN l
                     ELSE SendStatus(l, "OutOfService", StatusStream)
         IN  Push([told EXCEPT
                     !.state       = "OutOfService",
                     !.retrievable = [some |-> TRUE, bsnt |-> l.fsnIn, acked |-> l.acked,
                                      unacked |-> l.unacked, unsent |-> l.unsent],
                     !.unacked     = <<>>,
                     !.unsent      = <<>>,
                     !.remoteBusy  = FALSE,
                     !.ackDue      = FALSE,
                     !.peerReady   = FALSE,
                     !.timers      = {}],
                  [action |-> "OutOfService", reason |-> reason])

Start(l) ==
    IF l.state # "OutOfService" THEN l
    ELSE LET left == Discarded(l, "TxLostOnFailure", Held(l.retrievable))
         IN  SendStatus([left EXCEPT
                           !.retrievable  = NothingRetrievable,
                           !.fsnOut       = SeqMask,
                           !.fsnIn        = SeqMask,
                           !.acked        = SeqMask,
                           !.bsnWatch     = 0,
                           !.remoteBusy   = FALSE,
                           !.ackDue       = FALSE,
                           !.peerReady    = FALSE,
                           !.useEmergency = (Proving = "Emergency"),
                           !.state        = "NotAligned",
                           !.timers       = @ \cup {"T2"}],
                         "Alignment", StatusStream)

EnterService(l) ==
    Push([l EXCEPT !.timers = @ \ {"T1"}, !.state = "InService", !.peerReady = FALSE],
         [action |-> "InService"])

----------------------------------------------------------------------------
(* Sending and acknowledgement.                                            *)

\* Number, send and keep a sequence of MSUs: transmit, once for each of them.
TransmitAll(l, msus) ==
    LET n      == Len(msus)
        kept   == [i \in 1 .. n |-> [fsn |-> SeqAdd(l.fsnOut, i), msu |-> msus[i]]]
        frames == [i \in 1 .. n |-> DataAction(l, SeqAdd(l.fsnOut, i), msus[i])]
        first  == l.unacked = <<>>
    IN  IF n = 0 THEN l
        ELSE [l EXCEPT !.fsnOut  = SeqAdd(@, n),
                       !.ackDue  = FALSE,
                       !.unacked = @ \o kept,
                       !.out     = @ \o frames,
                       !.timers  = IF first THEN @ \cup {"T7"} ELSE @,
                       !.t7For   = IF first THEN SeqAdd(l.fsnOut, 1) ELSE @]

Transmit(l, msu) == TransmitAll(l, <<msu>>)

FlushUnsent(l) == TransmitAll([l EXCEPT !.unsent = <<>>], l.unsent)

\* A mistake: what does not fit is dropped and not counted.
SendUncounted(l, msu) ==
    CASE l.state = "InService" /\ ~l.remoteBusy -> Transmit(l, msu)
      [] IsAligned(l) /\ (l.state = "ProcessorOutage" \/ l.remoteBusy) ->
            IF Len(l.unsent) >= TxQueue THEN l ELSE [l EXCEPT !.unsent = Append(@, msu)]
      [] OTHER -> Discarded(l, "TxNotInService", 1)

Send(l, msu) ==
    CASE l.state = "InService" /\ ~l.remoteBusy -> Transmit(l, msu)
      [] IsAligned(l) /\ (l.state = "ProcessorOutage" \/ l.remoteBusy) ->
            IF Len(l.unsent) >= TxQueue
            THEN Discarded(l, "TxCongestion", 1)
            ELSE [l EXCEPT !.unsent = Append(@, msu)]
      [] OTHER -> Discarded(l, "TxNotInService", 1)

\* T7 for the oldest message that is not acknowledged, or stopped.
ArmT7(l) ==
    IF l.unacked = <<>> THEN [l EXCEPT !.timers = @ \ {"T7"}]
    ELSE [l EXCEPT !.timers = @ \cup {"T7"}, !.t7For = l.unacked[1].fsn]

RestartT7(l) == IF l.unacked = <<>> THEN l ELSE ArmT7(l)

\* How many messages at the front of the buffer a BSN releases.
Released(unacked, bsn) ==
    LET Covers(i) == SeqDistance(unacked[i].fsn, bsn) < SeqMask \div 2
    IN  CHOOSE k \in 0 .. Len(unacked) :
            /\ \A i \in 1 .. k : Covers(i)
            /\ k < Len(unacked) => ~Covers(k + 1)

\* A BSN that names nothing this end sent and still holds.
Abnormal(l, bsn) == SeqDistance(l.acked, bsn) > SeqDistance(l.acked, l.fsnOut)

Release(l, bsn) ==
    IF bsn = l.acked THEN l
    ELSE LET k    == Released(l.unacked, bsn)
             kept == [l EXCEPT !.acked   = bsn,
                               !.unacked = SubSeq(@, k + 1, Len(@))]
         IN  IF l.state = "InService" /\ ~l.remoteBusy THEN ArmT7(kept) ELSE kept

\* acknowledge(strict = false): a Link Status that acknowledges nothing is
\* just not an acknowledgement.
AcknowledgeStatus(l, bsn) == IF Abnormal(l, bsn) THEN l ELSE Release(l, bsn)

\* acknowledge(strict = true), for User Data.
AcknowledgeData(l, bsn) ==
    IF Abnormal(l, bsn)
    THEN LET d == Discarded(l, "RxAbnormalBsn", 1)
         IN  IF l.bsnWatch > 0 THEN Fail(d, "AbnormalBsn") ELSE [d EXCEPT !.bsnWatch = 2]
    ELSE Release([l EXCEPT !.bsnWatch = IF @ > 0 THEN @ - 1 ELSE 0], bsn)

FlushAck(l) ==
    LET cleared == [l EXCEPT !.ackDue = FALSE]
    IN  IF l.ackDue /\ IsAligned(l) THEN Push(cleared, DataAction(l, l.fsnOut, NoMsu))
        ELSE cleared

----------------------------------------------------------------------------
(* Events: a timer, a Link Status, a User Data message.                    *)

\* The runner clears a deadline before it reports it (Runner::fire).
Expired(l, t) == [l EXCEPT !.timers = @ \ {t}]

Timeout(l, t) ==
    CASE t = "T2" /\ l.state = "NotAligned"   -> Fail(l, "T2")
      [] t = "T3" /\ l.state = "Aligned"      -> Fail(l, "T3")
      [] t = "T4" /\ l.state = "Proving"      ->
            LET said == SendStatus([l EXCEPT !.timers = @ \ {"Proving"}], "Ready", StatusStream)
            IN  IF l.peerReady THEN EnterService(said)
                ELSE [said EXCEPT !.state = "AlignedReady", !.timers = @ \cup {"T1"}]
      [] t = "Proving" /\ l.state = "Proving" ->
            SendStatus([l EXCEPT !.timers = @ \cup {"Proving"}], ProvingStatus, StatusStream)
      [] t = "T1" /\ l.state = "AlignedReady" -> Fail(l, "T1")
      [] t = "T6" /\ IsAligned(l) /\ l.remoteBusy -> Fail(l, "T6")
      [] t = "T7" /\ l.state = "InService" /\ l.unacked # <<>> ->
            IF l.unacked[1].fsn = l.t7For THEN Fail(l, "T7") ELSE ArmT7(l)
      [] OTHER -> l

\* Q.703 Figure 9, the three initial alignment states.
OnStatusNotAligned(l, s) ==
    IF s \notin {"Alignment", "ProvingNormal", "ProvingEmergency"} THEN l
    ELSE SendStatus([l EXCEPT !.useEmergency = @ \/ s = "ProvingEmergency",
                              !.state        = "Aligned",
                              !.timers       = (@ \ {"T2"}) \cup {"T3"}],
                    ProvingStatus, StatusStream)

OnStatusAligned(l, s) ==
    CASE s \in {"ProvingNormal", "ProvingEmergency"} ->
            [l EXCEPT !.useEmergency = @ \/ s = "ProvingEmergency",
                      !.state        = "Proving",
                      !.timers       = (@ \ {"T3"}) \cup {"T4", "Proving"}]
      [] s = "OutOfService" -> Fail(l, "PeerStatus")
      [] OTHER -> l

\* A mistake: back in Aligned, nothing ends the wait for the peer's proving.
OnStatusProvingUnsupervised(l, s) ==
    CASE s = "OutOfService" -> Fail(l, "PeerStatus")
      [] s = "Alignment" -> [l EXCEPT !.state = "Aligned", !.timers = @ \ {"T4", "Proving"}]
      [] s = "Ready" -> [l EXCEPT !.peerReady = TRUE]
      [] OTHER -> l

OnStatusProving(l, s) ==
    CASE s = "OutOfService" -> Fail(l, "PeerStatus")
      [] s = "Alignment" ->
            [l EXCEPT !.state = "Aligned", !.timers = (@ \ {"T4", "Proving"}) \cup {"T3"}]
      [] s = "ProvingEmergency" ->
            [l EXCEPT !.useEmergency = TRUE,
                      !.timers = IF l.useEmergency THEN @ ELSE @ \cup {"T4"}]
      [] s = "Ready" -> [l EXCEPT !.peerReady = TRUE]
      [] OTHER -> l

\* A mistake: T7 runs on while the peer's processor is out.
BeginOutageT7Runs(l) ==
    Push([l EXCEPT !.timers = @ \ {"T1"}, !.state = "ProcessorOutage"],
         [action |-> "RemoteProcessorOutage", on |-> TRUE])

BeginOutage(l) ==
    Push([l EXCEPT !.timers = @ \ {"T1", "T7"}, !.state = "ProcessorOutage"],
         [action |-> "RemoteProcessorOutage", on |-> TRUE])

OnStatusAlignedReady(l, s) ==
    CASE s = "Ready" -> EnterService(SendStatus(l, "Ready", StatusStream))
      [] s = "ProcessorOutage" -> BeginOutage(l)
      [] s \in {"Alignment", "OutOfService"} -> Fail(l, "PeerStatus")
      [] OTHER -> l

OnBusy(l) ==
    IF l.remoteBusy THEN l
    ELSE [l EXCEPT !.remoteBusy = TRUE,
                   !.timers = (@ \ {"T7"}) \cup (IF l.unacked = <<>> THEN {} ELSE {"T6"})]

\* A mistake: what waited while the peer was busy waits on.
OnBusyEndedUnflushed(l) ==
    IF ~l.remoteBusy THEN l
    ELSE RestartT7([l EXCEPT !.remoteBusy = FALSE, !.timers = @ \ {"T6"}])

OnBusyEnded(l) ==
    IF ~l.remoteBusy THEN l
    ELSE LET free == [l EXCEPT !.remoteBusy = FALSE, !.timers = @ \ {"T6"}]
         IN  IF l.state = "InService" THEN FlushUnsent(RestartT7(free)) ELSE free

\* A mistake: what the peer discarded keeps its numbers.
OnRecoveredNumbersKept(l, bsn) ==
    LET a     == AcknowledgeStatus(l, bsn)
        ready == SendStatus([a EXCEPT !.unacked = <<>>, !.state = "InService"], "Ready", DataStream)
    IN  IF l.remoteBusy THEN ready ELSE FlushUnsent(ready)

\* The peer recovered: what it discarded is gone, and numbering resumes after
\* the last message it kept.
OnRecovered(l, bsn) ==
    LET a     == AcknowledgeStatus(l, bsn)
        gone  == Discarded(a, "TxFlushedByPeer", Len(a.unacked))
        ready == SendStatus([gone EXCEPT !.unacked = <<>>, !.fsnOut = a.acked,
                                         !.state = "InService"],
                            "Ready", DataStream)
        ended == Push(ready, [action |-> "RemoteProcessorOutage", on |-> FALSE])
    IN  IF l.remoteBusy THEN ended ELSE FlushUnsent(ended)

OnStatusInService(l, s, bsn) ==
    CASE s \in {"Alignment", "ProvingNormal", "ProvingEmergency", "OutOfService"} ->
            Fail(l, "PeerStatus")
      [] s = "Busy" -> OnBusy(l)
      [] s = "BusyEnded" -> OnBusyEnded(l)
      [] s = "Ready" /\ l.state = "InService" -> AcknowledgeStatus(l, bsn)
      [] s = "ProcessorOutage" /\ l.state = "InService" -> BeginOutage(l)
      [] s = "ProcessorRecovered" /\ l.state = "ProcessorOutage" -> OnRecovered(l, bsn)
      [] OTHER -> l

OnStatus(l, s, bsn) ==
    CASE l.state = "OutOfService" -> l
      [] l.state = "NotAligned"   -> OnStatusNotAligned(l, s)
      [] l.state = "Aligned"      -> OnStatusAligned(l, s)
      [] l.state = "Proving"      -> OnStatusProving(l, s)
      [] l.state = "AlignedReady" -> OnStatusAlignedReady(l, s)
      [] IsAligned(l)             -> OnStatusInService(l, s, bsn)

\* The body of on_data once the link is known to be in service.
Accept(l, bsn, fsn, msu) ==
    LET a == AcknowledgeData(l, bsn)
    IN  CASE Abnormal(l, bsn) \/ msu = NoMsu -> a
          [] fsn # SeqAdd(a.fsnIn, 1) -> Discarded(a, "RxOutOfSequence", 1)
          [] OTHER -> Deliver([a EXCEPT !.fsnIn = fsn, !.ackDue = TRUE], msu)

OnData(l, bsn, fsn, msu) ==
    CASE l.state = "AlignedReady" -> Accept(EnterService(l), bsn, fsn, msu)
      [] IsAligned(l) -> Accept(l, bsn, fsn, msu)
      [] OTHER -> IF msu = NoMsu THEN l ELSE Discarded(l, "RxNotInService", 1)
=============================================================================
