---------------------------- MODULE Level2Proofs ----------------------------
(***************************************************************************)
(* The invariants of Level2 hold for every SeqMask, TxQueue, Msu and every *)
(* Window of at most half the circle of sequence numbers.                  *)
(*                                                                         *)
(* LinkInv is the inductive invariant.  Every method of Link gets a lemma: *)
(* it takes a link that satisfies LinkInv to one that does.                *)
(***************************************************************************)
EXTENDS Level2, SequenceTheorems, TLAPS

LinkInv(l) ==
    /\ l \in Link
    /\ IsWindow(l)
    /\ T7IsRight(l)
    /\ IsSupervised(l)
    /\ WaitsForAReason(l)

USE SeqMaskAssumption

----------------------------------------------------------------------------
(* The circle of sequence numbers.                                         *)

\* Going forward from a number stays on the circle.
LEMMA SeqAddType ==
    ASSUME NEW n \in SeqNum, NEW k \in 0 .. SeqMask + 1
    PROVE  SeqAdd(n, k) \in SeqNum
  BY DEF SeqAdd, SeqNum

\* Distances are numbers of the circle too.
LEMMA SeqDistanceType ==
    ASSUME NEW m \in SeqNum, NEW n \in SeqNum
    PROVE  SeqDistance(m, n) \in 0 .. SeqMask
  BY DEF SeqDistance, SeqNum

\* SeqDistance measures what SeqAdd added, between any two points of a run.
LEMMA SeqDistanceAdd ==
    ASSUME NEW n \in SeqNum, NEW i \in 0 .. SeqMask, NEW j \in i .. SeqMask
    PROVE  SeqDistance(SeqAdd(n, i), SeqAdd(n, j)) = j - i
  BY DEF SeqDistance, SeqAdd, SeqNum

\* One past a number is the whole circle away from it.
LEMMA SeqDistanceBack ==
    ASSUME NEW n \in SeqNum, NEW i \in 0 .. SeqMask - 1
    PROVE  SeqDistance(SeqAdd(n, i + 1), SeqAdd(n, i)) = SeqMask
  BY DEF SeqDistance, SeqAdd, SeqNum

\* Steps add up.
LEMMA SeqAddAdd ==
    ASSUME NEW n \in SeqNum, NEW i \in 0 .. SeqMask, NEW j \in 0 .. SeqMask - i
    PROVE  SeqAdd(SeqAdd(n, i), j) = SeqAdd(n, i + j)
  BY DEF SeqAdd, SeqNum

\* Going the distance gets there.
LEMMA SeqAddDistance ==
    ASSUME NEW m \in SeqNum, NEW n \in SeqNum
    PROVE  SeqAdd(m, SeqDistance(m, n)) = n
  BY DEF SeqAdd, SeqDistance, SeqNum

\* The distance to a number is what was added to get there.
LEMMA SeqDistanceFrom ==
    ASSUME NEW n \in SeqNum, NEW k \in 0 .. SeqMask
    PROVE  SeqDistance(n, SeqAdd(n, k)) = k
  BY DEF SeqAdd, SeqDistance, SeqNum

----------------------------------------------------------------------------
(* The release test.                                                       *)

\* The loop of acknowledge pops exactly the messages a valid BSN covers: as
\* many as the BSN is ahead of the last one.  This is where Window matters.
LEMMA ReleasedIsTheDistance ==
    ASSUME NEW l \in Link, IsWindow(l), NEW bsn \in SeqNum,
           SeqDistance(l.acked, bsn) <= Len(l.unacked)
    PROVE  Released(l.unacked, bsn) = SeqDistance(l.acked, bsn)
  <1> DEFINE half == SeqMask \div 2
             d == SeqDistance(l.acked, bsn)
             n == Len(l.unacked)
             Covers(i) == SeqDistance(l.unacked[i].fsn, bsn) < half
             P(k) == /\ \A i \in 1 .. k : Covers(i)
                     /\ k < n => ~Covers(k + 1)
  <1>a. /\ l.acked \in SeqNum
        /\ n \in Nat
        /\ Len(l.unsent) \in Nat
    <2>1. l.acked \in SeqNum /\ l.unacked \in Seq(Kept) /\ l.unsent \in Seq(Msu)
      BY DEF Link
    <2> QED BY <2>1
  <1>b. half \in Nat /\ half < SeqMask
    OBVIOUS
  <1>c. Window \in Nat /\ Window <= half
    BY WindowAssumption
  <1>d. n + Len(l.unsent) <= Window
    BY DEF IsWindow
  <1>e. d \in 0 .. SeqMask /\ d <= n
    BY <1>a, SeqDistanceType
  <1> HIDE DEF half, d, n
  <1>1. n <= half /\ d \in 0 .. n
    BY <1>a, <1>b, <1>c, <1>d, <1>e
  <1>2. bsn = SeqAdd(l.acked, d)
    BY <1>a, SeqAddDistance DEF d
  <1>3. \A i \in 1 .. n : l.unacked[i].fsn = SeqAdd(l.acked, i)
    BY DEF IsWindow, n
  <1>4. ASSUME NEW i \in 1 .. d PROVE Covers(i)
    <2>1. SeqDistance(SeqAdd(l.acked, i), SeqAdd(l.acked, d)) = d - i
      <3>1. i \in 0 .. SeqMask /\ d \in i .. SeqMask
        BY <1>a, <1>b, <1>1
      <3> QED BY <3>1, <1>a, SeqDistanceAdd
    <2>2. d - i < half /\ i \in 1 .. n
      BY <1>a, <1>b, <1>1
    <2> QED BY <1>2, <1>3, <2>1, <2>2
  <1>5. d < n => ~Covers(d + 1)
    <2> SUFFICES ASSUME d < n PROVE ~Covers(d + 1)
      OBVIOUS
    <2>1. d \in 0 .. SeqMask - 1 /\ d + 1 \in 1 .. n
      BY <1>a, <1>b, <1>1
    <2>2. SeqDistance(SeqAdd(l.acked, d + 1), SeqAdd(l.acked, d)) = SeqMask
      BY <1>a, <2>1, SeqDistanceBack
    <2> QED BY <1>b, <1>2, <1>3, <2>1, <2>2
  <1>6. Released(l.unacked, bsn) = CHOOSE k \in 0 .. n : P(k)
    BY DEF Released, n, half
  <1> HIDE DEF Covers
  <1>7. \A k \in 0 .. n : P(k) <=> k = d
    BY <1>a, <1>1, <1>4, <1>5
  <1>8. (CHOOSE k \in 0 .. n : P(k)) = d
    <2> HIDE DEF P
    <2> QED BY <1>1, <1>7
  <1> QED BY <1>6, <1>8 DEF d

----------------------------------------------------------------------------
(* Actions: pushing one changes nothing but out.                           *)

\* A link stays one when an action is pushed, and only out has changed.
LEMMA PushLink ==
    ASSUME NEW l \in Link, NEW a \in Action
    PROVE  Push(l, a) \in Link
  <1>1. Append(l.out, a) \in Seq(Action)
    BY DEF Link
  <1> QED BY <1>1 DEF Push, Link

\* Appending an action to the vector of Actions leaves the link itself alone.
LEMMA PushInv ==
    ASSUME NEW l, LinkInv(l), NEW a \in Action
    PROVE  LinkInv(Push(l, a))
  <1>1. l \in Link /\ Push(l, a) \in Link
    BY PushLink DEF LinkInv
  <1> QED BY <1>1 DEF LinkInv, Push, Link, IsWindow, T7IsRight, IsSupervised, WaitsForAReason, IsAligned

\* A Link Status handed to the association is an action of the vector.
LEMMA StatusAction ==
    ASSUME NEW l \in Link, NEW s \in Status, NEW stream \in {StatusStream, DataStream}
    PROVE  SendAction(stream, "LinkStatus", s, l.fsnIn, l.fsnOut, NoMsu) \in Action
  BY DEF SendAction, Action, Link

\* A discarded MSU reported to level 3 is an action of the vector.
LEMMA DiscardAction ==
    ASSUME NEW reason \in Discard, NEW count \in Nat
    PROVE  [action |-> "Discarded", reason |-> reason, count |-> count] \in Action
  BY DEF Action

\* Reporting a refused MSU (Action::Discarded) keeps the invariant.
LEMMA DiscardedInv ==
    ASSUME NEW l, LinkInv(l), NEW reason \in Discard, NEW count \in Nat
    PROVE  LinkInv(Discarded(l, reason, count))
  BY DiscardAction, PushInv DEF Discarded

\* send_status keeps the invariant: it numbers nothing and stops no timer.
LEMMA SendStatusInv ==
    ASSUME NEW l, LinkInv(l), NEW s \in Status, NEW stream \in {StatusStream, DataStream}
    PROVE  LinkInv(SendStatus(l, s, stream))
  <1>1. l \in Link
    BY DEF LinkInv
  <1> QED BY <1>1, StatusAction, PushInv DEF SendStatus

\* Whatever state a failure finds the link in, it leaves nothing behind but
\* what can be retrieved.
LEMMA FailFrom ==
    ASSUME NEW l \in Link, l.state # "OutOfService", NEW reason \in Failure
    PROVE  LinkInv(Fail(l, reason))
  <1> DEFINE told == IF reason = "Association" THEN l
                     ELSE SendStatus(l, "OutOfService", StatusStream)
             kept == [some |-> TRUE, bsnt |-> l.fsnIn, acked |-> l.acked,
                      unacked |-> l.unacked, unsent |-> l.unsent]
             down == [told EXCEPT
                        !.state       = "OutOfService",
                        !.retrievable = kept,
                        !.unacked     = <<>>,
                        !.unsent      = <<>>,
                        !.remoteBusy  = FALSE,
                        !.ackDue      = FALSE,
                        !.peerReady   = FALSE,
                        !.timers      = {}]
  <1>1. told \in Link
    BY StatusAction, PushLink DEF SendStatus, Status
  <1>2. kept \in Retrievable
    BY DEF Link, Retrievable
  <1> HIDE DEF told, kept
  <1>3. down \in Link
    <2>1. /\ <<>> \in Seq(Kept)
          /\ <<>> \in Seq(Msu)
          /\ {} \in SUBSET Timer
          /\ "OutOfService" \in State
      BY DEF State
    <2> QED BY <1>1, <1>2, <2>1 DEF Link
  <1>4. LinkInv(down)
    BY <1>1, <1>3, WindowAssumption DEF LinkInv, Link, IsWindow, T7IsRight, IsSupervised,
        WaitsForAReason, IsAligned
  <1>5. [action |-> "OutOfService", reason |-> reason] \in Action
    BY DEF Action
  <1>6. Fail(l, reason) = Push(down, [action |-> "OutOfService", reason |-> reason])
    BY DEF Fail, told, kept
  <1> QED BY <1>4, <1>5, <1>6, PushInv

\* fail() keeps the invariant from every state: it stops every timer, turns
\* what was unsent over to the retrieval buffer, and leaves the link out of service.
LEMMA FailInv ==
    ASSUME NEW l, LinkInv(l), NEW reason \in Failure
    PROVE  LinkInv(Fail(l, reason))
  BY FailFrom DEF Fail, LinkInv

\* What the link holds is counted by a natural number.
LEMMA HeldIsNat ==
    ASSUME NEW r \in Retrievable
    PROVE  Held(r) \in Nat
  <1>1. r.unacked \in Seq(Kept) /\ r.unsent \in Seq(Msu)
    BY DEF Retrievable
  <1>2. Len(r.unacked) \in Nat /\ Len(r.unsent) \in Nat
    BY <1>1
  <1>3. \A m, n \in Nat : m + n \in Nat
    OBVIOUS
  <1> QED BY <1>2, <1>3, Zenon DEF Held

\* The empty retrieval buffer is of its type.
LEMMA NothingRetrievableType == NothingRetrievable \in Retrievable
  <1>1. <<>> \in Seq(Kept) /\ <<>> \in Seq(Msu)
    OBVIOUS
  <1>2. SeqMask \in SeqNum
    BY DEF SeqNum
  <1> QED BY <1>1, <1>2 DEF NothingRetrievable, Retrievable

\* A link that fails to be aligned and holds nothing is as good as a new one.
LEMMA StartInv ==
    ASSUME NEW l, LinkInv(l)
    PROVE  LinkInv(Start(l))
  <1> SUFFICES ASSUME l.state = "OutOfService" PROVE LinkInv(Start(l))
    BY DEF Start
  <1> DEFINE urgent == (Proving = "Emergency")
             left  == Discarded(l, "TxLostOnFailure", Held(l.retrievable))
             begun == [left EXCEPT
                           !.retrievable  = NothingRetrievable,
                           !.fsnOut       = SeqMask,
                           !.fsnIn        = SeqMask,
                           !.acked        = SeqMask,
                           !.bsnWatch     = 0,
                           !.remoteBusy   = FALSE,
                           !.ackDue       = FALSE,
                           !.peerReady    = FALSE,
                           !.useEmergency = urgent,
                           !.state        = "NotAligned",
                           !.timers       = @ \cup {"T2"}]
  <1>1. LinkInv(left)
    <2>1. l.retrievable \in Retrievable
      BY DEF LinkInv, Link
    <2> QED BY <2>1, HeldIsNat, DiscardedInv DEF Discard
  <1>2. left.state = "OutOfService"
    BY DEF LinkInv, Link, Discarded, Push
  <1>u. urgent \in BOOLEAN
    OBVIOUS
  <1> HIDE DEF left, urgent
  <1>3. begun \in Link
    <2>1. left \in Link
      BY <1>1 DEF LinkInv
    <2>2. /\ SeqMask \in SeqNum
          /\ left.timers \cup {"T2"} \in SUBSET Timer
          /\ "NotAligned" \in State
          /\ 0 \in 0 .. 2
      BY <2>1 DEF State, SeqNum, Link, Timer
    <2> QED BY <1>u, <2>1, <2>2, NothingRetrievableType DEF Link
  <1>4. LinkInv(begun)
    <2>1. SeqDistance(SeqMask, SeqMask) = 0
      BY DEF SeqDistance
    <2>2. left.unacked = <<>> /\ left.unsent = <<>>
      BY <1>1, <1>2 DEF LinkInv, WaitsForAReason, IsAligned
    <2>3. begun.unacked = <<>> /\ begun.unsent = <<>>
      BY <1>1, <2>2 DEF LinkInv, Link
    <2>4. IsWindow(begun)
      <3>1. begun.acked = SeqMask /\ begun.fsnOut = SeqMask
        BY <1>1 DEF LinkInv, Link
      <3> HIDE DEF begun
      <3> QED BY <2>1, <2>3, <3>1, WindowAssumption DEF IsWindow
    <2>5. T7IsRight(begun) /\ IsSupervised(begun) /\ WaitsForAReason(begun)
      BY <1>1, <1>2, <2>3 DEF LinkInv, Link, T7IsRight, IsSupervised, WaitsForAReason, IsAligned
    <2> QED BY <1>3, <2>4, <2>5 DEF LinkInv
  <1>5. Start(l) = SendStatus(begun, "Alignment", StatusStream)
    BY DEF Start, left, urgent
  <1> QED BY <1>4, <1>5, SendStatusInv DEF Status

\* A link enters service with an empty buffer and no timer but T1 to stop.
LEMMA EnterServiceInv ==
    ASSUME NEW l \in Link, IsWindow(l), WaitsForAReason(l), l.timers \subseteq {"T1"},
           l.state # "OutOfService", ~IsAligned(l)
    PROVE  /\ LinkInv(EnterService(l))
           /\ EnterService(l).state = "InService"
           /\ EnterService(l).acked = l.acked
           /\ EnterService(l).fsnOut = l.fsnOut
  <1> DEFINE up == [l EXCEPT !.timers = @ \ {"T1"}, !.state = "InService", !.peerReady = FALSE]
  <1>1. up \in Link
    <2>1. "InService" \in State /\ l.timers \ {"T1"} \in SUBSET Timer
      BY DEF State, Link
    <2> QED BY <2>1 DEF Link
  <1>2. up.unacked = <<>> /\ up.unsent = <<>> /\ ~up.remoteBusy /\ up.timers = {}
    BY DEF Link, WaitsForAReason
  <1>3. IsWindow(up)
    BY <1>1 DEF Link, IsWindow
  <1>4. LinkInv(up)
    BY <1>1, <1>2, <1>3 DEF LinkInv, Link, T7IsRight, IsSupervised, WaitsForAReason, IsAligned
  <1>5. [action |-> "InService"] \in Action
    BY DEF Action
  <1>6. EnterService(l) = Push(up, [action |-> "InService"])
    BY DEF EnterService
  <1>7. /\ Push(up, [action |-> "InService"]).state = "InService"
        /\ Push(up, [action |-> "InService"]).acked = l.acked
        /\ Push(up, [action |-> "InService"]).fsnOut = l.fsnOut
    BY <1>1 DEF Push, Link
  <1> QED BY <1>4, <1>5, <1>6, <1>7, PushInv

----------------------------------------------------------------------------
(* Sending.                                                                *)

\* Numbering and keeping MSUs extends the window at its upper end.
LEMMA TransmitInv ==
    ASSUME NEW l, LinkInv(l), l.state = "InService", ~l.remoteBusy,
           NEW msus \in Seq(Msu), Len(l.unacked) + Len(msus) <= Window
    PROVE  LinkInv(TransmitAll(l, msus))
  <1> DEFINE n      == Len(msus)
             kept   == [i \in 1 .. n |-> [fsn |-> SeqAdd(l.fsnOut, i), msu |-> msus[i]]]
             frames == [i \in 1 .. n |-> DataAction(l, SeqAdd(l.fsnOut, i), msus[i])]
             first  == l.unacked = <<>>
             timers == IF first THEN l.timers \cup {"T7"} ELSE l.timers
             t7     == IF first THEN SeqAdd(l.fsnOut, 1) ELSE l.t7For
             buffer == l.unacked \o kept
             sent   == [l EXCEPT !.fsnOut  = SeqAdd(@, n),
                                 !.ackDue  = FALSE,
                                 !.unacked = buffer,
                                 !.out     = @ \o frames,
                                 !.timers  = timers,
                                 !.t7For   = t7]
  <1> SUFFICES ASSUME n # 0 PROVE LinkInv(sent)
    BY DEF TransmitAll
  <1>1. /\ l \in Link
        /\ l.fsnOut \in SeqNum
        /\ l.fsnIn \in SeqNum
        /\ l.acked \in SeqNum
        /\ l.unacked \in Seq(Kept)
        /\ l.out \in Seq(Action)
        /\ l.timers \in SUBSET Timer
        /\ l.t7For \in SeqNum
    BY DEF LinkInv, Link
  <1>w. Window \in Nat /\ Window < SeqMask
    BY WindowAssumption
  <1>2. n \in Nat /\ Len(l.unacked) \in Nat /\ n <= SeqMask
    <2>1. n \in Nat /\ Len(l.unacked) \in Nat
      BY <1>1
    <2> QED BY <2>1, <1>w
  <1>3. \A i \in 1 .. n : SeqAdd(l.fsnOut, i) \in SeqNum /\ msus[i] \in Msu
    <2> SUFFICES ASSUME NEW i \in 1 .. n
                 PROVE  SeqAdd(l.fsnOut, i) \in SeqNum /\ msus[i] \in Msu
      OBVIOUS
    <2>1. i \in 0 .. SeqMask + 1
      BY <1>2
    <2> QED BY <1>1, <2>1, SeqAddType
  <1>4. kept \in Seq(Kept) /\ Len(kept) = n
    BY <1>2, <1>3 DEF Kept
  <1>5. frames \in Seq(Action)
    <2>1. \A i \in 1 .. n : DataAction(l, SeqAdd(l.fsnOut, i), msus[i]) \in Action
      BY <1>1, <1>3 DEF DataAction, SendAction, Action, Status
    <2> QED BY <1>2, <2>1
  <1>6. /\ buffer \in Seq(Kept)
        /\ Len(buffer) = Len(l.unacked) + n
        /\ \A i \in 1 .. Len(l.unacked) : buffer[i] = l.unacked[i]
        /\ \A i \in Len(l.unacked) + 1 .. Len(l.unacked) + n :
              buffer[i] = kept[i - Len(l.unacked)]
    BY <1>1, <1>2, <1>4
  <1>7. \A i \in 1 .. n : kept[i].fsn = SeqAdd(l.fsnOut, i)
    OBVIOUS
  <1>8. l.out \o frames \in Seq(Action)
    BY <1>1, <1>5
  <1>9. SeqAdd(l.fsnOut, n) \in SeqNum /\ t7 \in SeqNum /\ timers \in SUBSET Timer
    <2>1. SeqAdd(l.fsnOut, n) \in SeqNum /\ SeqAdd(l.fsnOut, 1) \in SeqNum
      BY <1>2, <1>3
    <2> QED BY <1>1, <2>1 DEF Timer
  <1> HIDE DEF kept, frames, buffer
  <1>10. sent \in Link
    <2> HIDE DEF timers, t7
    <2> QED BY <1>1, <1>6, <1>8, <1>9 DEF Link
  <1>11. l.fsnOut = SeqAdd(l.acked, Len(l.unacked))
    <2>1. Len(l.unacked) = SeqDistance(l.acked, l.fsnOut)
      BY DEF LinkInv, IsWindow
    <2> QED BY <1>1, <2>1, SeqAddDistance
  <1>12. \A i \in 1 .. Len(buffer) : buffer[i].fsn = SeqAdd(l.acked, i)
    <2> SUFFICES ASSUME NEW i \in 1 .. Len(buffer) PROVE buffer[i].fsn = SeqAdd(l.acked, i)
      OBVIOUS
    <2>1. CASE i \in 1 .. Len(l.unacked)
      BY <1>6, <2>1 DEF LinkInv, IsWindow
    <2>2. CASE i \in Len(l.unacked) + 1 .. Len(l.unacked) + n
      <3> DEFINE j == i - Len(l.unacked)
      <3>1. j \in 1 .. n /\ j \in 0 .. SeqMask - Len(l.unacked) /\ Len(l.unacked) + j = i
            /\ Len(l.unacked) \in 0 .. SeqMask
        BY <1>2, <1>w, <2>2
      <3>2. buffer[i].fsn = SeqAdd(l.fsnOut, j)
        BY <1>6, <1>7, <2>2, <3>1
      <3> HIDE DEF j
      <3> QED BY <1>1, <1>11, <3>1, <3>2, SeqAddAdd
    <2> QED BY <1>2, <1>6, <2>1, <2>2
  <1>13. Len(buffer) = SeqDistance(l.acked, SeqAdd(l.fsnOut, n))
    <2>1. Len(l.unacked) \in 0 .. SeqMask /\ n \in 0 .. SeqMask - Len(l.unacked)
          /\ Len(l.unacked) + n \in 0 .. SeqMask
      BY <1>2, <1>w
    <2>2. SeqAdd(l.fsnOut, n) = SeqAdd(l.acked, Len(l.unacked) + n)
      BY <1>1, <1>11, <2>1, SeqAddAdd
    <2>3. SeqDistance(l.acked, SeqAdd(l.acked, Len(l.unacked) + n)) = Len(l.unacked) + n
      BY <1>1, <2>1, SeqDistanceFrom
    <2> QED BY <1>6, <2>2, <2>3
  <1>14. l.unsent = <<>>
    BY DEF LinkInv, WaitsForAReason
  <1>15. IsWindow(sent)
    <2>1. sent.unacked = buffer /\ sent.unsent = <<>> /\ sent.acked = l.acked
          /\ sent.fsnOut = SeqAdd(l.fsnOut, n)
      BY <1>1, <1>14 DEF Link
    <2>2. Len(buffer) + Len(<<>>) <= Window
      BY <1>2, <1>6, <1>w
    <2> QED BY <1>12, <1>13, <2>1, <2>2 DEF IsWindow
  <1>16. T7IsRight(sent)
    <2>1. buffer # <<>> /\ 1 \in 1 .. Len(buffer)
      BY <1>2, <1>6
    <2>2. /\ sent.unacked = buffer
          /\ sent.timers = timers
          /\ sent.t7For = t7
          /\ sent.state = "InService"
          /\ ~sent.remoteBusy
      BY <1>1 DEF Link
    <2>3. CASE first
      <3>1. buffer[1].fsn = SeqAdd(l.fsnOut, 1)
        <4>1. Len(l.unacked) = 0
          BY <2>3
        <4> QED BY <1>2, <1>6, <1>7, <4>1
      <3> QED BY <2>1, <2>2, <2>3, <3>1 DEF T7IsRight
    <2>4. CASE ~first
      <3>1. "T7" \in l.timers /\ l.t7For = l.unacked[1].fsn
        BY <2>4 DEF LinkInv, T7IsRight
      <3>2. buffer[1] = l.unacked[1]
        BY <1>1, <1>2, <1>6, <2>4
      <3> QED BY <2>1, <2>2, <2>4, <3>1, <3>2 DEF T7IsRight
    <2> QED BY <2>3, <2>4
  <1>17. IsSupervised(sent) /\ WaitsForAReason(sent)
    BY <1>1, <1>14 DEF LinkInv, Link, IsSupervised, WaitsForAReason, IsAligned
  <1> QED BY <1>10, <1>15, <1>16, <1>17 DEF LinkInv

\* FlushUnsent leaves nothing waiting.
LEMMA FlushUnsentInv ==
    ASSUME NEW l \in Link, LinkInv([l EXCEPT !.unsent = <<>>]), l.state = "InService",
           ~l.remoteBusy, Len(l.unacked) + Len(l.unsent) <= Window
    PROVE  LinkInv(FlushUnsent(l))
  <1> DEFINE k == [l EXCEPT !.unsent = <<>>]
  <1>1. /\ k.state = "InService"
        /\ ~k.remoteBusy
        /\ k.unacked = l.unacked
        /\ l.unsent \in Seq(Msu)
    BY DEF Link
  <1>2. FlushUnsent(l) = TransmitAll(k, l.unsent)
    BY DEF FlushUnsent
  <1> HIDE DEF k
  <1>3. LinkInv(k)
    BY DEF k
  <1> QED BY <1>1, <1>2, <1>3, TransmitInv

\* Room for one more.
LEMMA Room ==
    ASSUME NEW m \in Nat, NEW n \in Nat, NEW w \in Nat, m + n < w
    PROVE  m + 1 <= w /\ m + (n + 1) <= w
  OBVIOUS

\* send, for a link with room in its window.
LEMMA SendInv ==
    ASSUME NEW l, LinkInv(l), NEW m \in Msu, Len(l.unacked) + Len(l.unsent) < Window
    PROVE  LinkInv(Send(l, m))
  <1>1. l \in Link /\ l.unacked \in Seq(Kept) /\ l.unsent \in Seq(Msu)
    BY DEF LinkInv, Link
  <1>2. Len(l.unacked) \in Nat /\ Len(l.unsent) \in Nat /\ Window \in Nat
    BY <1>1, WindowAssumption
  <1>3. CASE l.state = "InService" /\ ~l.remoteBusy
    <2>1. <<m>> \in Seq(Msu) /\ Len(<<m>>) = 1
      OBVIOUS
    <2>2. Len(l.unacked) + Len(<<m>>) <= Window
      BY <1>2, <2>1, Room
    <2> QED BY <1>3, <2>1, <2>2, TransmitInv DEF Send, Transmit
  <1>4. CASE IsAligned(l) /\ (l.state = "ProcessorOutage" \/ l.remoteBusy)
    <2>1. CASE Len(l.unsent) >= TxQueue
      <3>1. Send(l, m) = Discarded(l, "TxCongestion", 1)
        BY <1>4, <2>1 DEF Send
      <3> QED BY <3>1, DiscardedInv DEF Discard
    <2>2. CASE ~(Len(l.unsent) >= TxQueue)
      <3> DEFINE wait == Append(l.unsent, m)
                 k    == [l EXCEPT !.unsent = wait]
      <3>1. Send(l, m) = k
        BY <1>4, <2>2 DEF Send
      <3>2. wait \in Seq(Msu) /\ Len(wait) = Len(l.unsent) + 1
        BY <1>1
      <3> HIDE DEF wait
      <3>3. k \in Link
        BY <1>1, <3>2 DEF Link
      <3>4. k.unsent = wait /\ k.unacked = l.unacked /\ k.acked = l.acked
            /\ k.fsnOut = l.fsnOut /\ k.state = l.state /\ k.remoteBusy = l.remoteBusy
            /\ k.timers = l.timers /\ k.t7For = l.t7For
        BY <1>1 DEF Link
      <3>5. Len(l.unacked) + Len(wait) <= Window
        BY <1>2, <3>2, Room
      <3> HIDE DEF k
      <3>6. IsWindow(k)
        BY <3>4, <3>5 DEF LinkInv, IsWindow
      <3>7. T7IsRight(k) /\ IsSupervised(k) /\ WaitsForAReason(k)
        BY <1>4, <3>4 DEF LinkInv, T7IsRight, IsSupervised, WaitsForAReason, IsAligned
      <3> QED BY <3>1, <3>3, <3>6, <3>7 DEF LinkInv
    <2> QED BY <2>1, <2>2
  <1>5. CASE ~IsAligned(l)
    <2>1. Send(l, m) = Discarded(l, "TxNotInService", 1)
      BY <1>5 DEF Send, IsAligned
    <2> QED BY <2>1, DiscardedInv DEF Discard
  <1> QED BY <1>3, <1>4, <1>5 DEF IsAligned

----------------------------------------------------------------------------
(* Acknowledgement.                                                        *)

\* What is left of a sequence when its first d elements are taken.
LEMMA DropFront ==
    ASSUME NEW S, NEW s \in Seq(S), NEW d \in 0 .. Len(s)
    PROVE  /\ SubSeq(s, d + 1, Len(s)) \in Seq(S)
           /\ Len(SubSeq(s, d + 1, Len(s))) = Len(s) - d
           /\ \A i \in 1 .. Len(s) - d : SubSeq(s, d + 1, Len(s))[i] = s[d + i]
  <1> DEFINE n == Len(s)
             r == SubSeq(s, d + 1, n)
  <1>1. n \in Nat /\ d + 1 \in Int /\ n \in Int
    OBVIOUS
  <1>2. \A i \in d + 1 .. n : s[i] \in S
    OBVIOUS
  <1> HIDE DEF n
  <1>3. /\ r \in Seq(S)
        /\ Len(r) = IF d + 1 <= n THEN n - (d + 1) + 1 ELSE 0
        /\ \A i \in 1 .. n - (d + 1) + 1 : r[i] = s[(d + 1) + i - 1]
    BY <1>1, <1>2, SubSeqProperties
  <1> HIDE DEF r
  <1>4. Len(r) = n - d /\ \A i \in 1 .. n - d : r[i] = s[d + i]
    <2>1. d \in 0 .. n
      BY DEF n
    <2> QED BY <1>1, <1>3, <2>1
  <1> QED BY <1>3, <1>4 DEF r, n

\* A BSN that names a message of this end releases it and those before it.
LEMMA ReleaseInv ==
    ASSUME NEW l, LinkInv(l), IsAligned(l), NEW bsn \in SeqNum, ~Abnormal(l, bsn)
    PROVE  /\ LinkInv(Release(l, bsn))
           /\ Release(l, bsn).state = l.state
           /\ Release(l, bsn).remoteBusy = l.remoteBusy
           /\ Release(l, bsn).unsent = l.unsent
  <1>1. /\ l \in Link
        /\ l.unacked \in Seq(Kept)
        /\ l.acked \in SeqNum
        /\ l.fsnOut \in SeqNum
        /\ l.unsent \in Seq(Msu)
        /\ l.timers \in SUBSET Timer
    BY DEF LinkInv, Link
  <1> SUFFICES ASSUME bsn # l.acked
               PROVE  /\ LinkInv(Release(l, bsn))
                      /\ Release(l, bsn).state = l.state
                      /\ Release(l, bsn).remoteBusy = l.remoteBusy
                      /\ Release(l, bsn).unsent = l.unsent
    BY DEF Release
  <1> DEFINE n    == Len(l.unacked)
             d    == SeqDistance(l.acked, bsn)
             rest == SubSeq(l.unacked, d + 1, n)
             kept == [l EXCEPT !.acked = bsn, !.unacked = rest]
  <1>2. /\ n \in Nat
        /\ d \in 0 .. SeqMask
        /\ d <= n
        /\ n = SeqDistance(l.acked, l.fsnOut)
        /\ n <= SeqMask
        /\ Len(l.unsent) \in Nat
        /\ Window \in Nat
    <2>1. n = SeqDistance(l.acked, l.fsnOut)
      BY DEF LinkInv, IsWindow, IsAligned
    <2>2. d \in 0 .. SeqMask /\ n \in 0 .. SeqMask
      BY <1>1, <2>1, SeqDistanceType
    <2>3. d <= n
      BY <2>1, <2>2 DEF Abnormal
    <2>4. Len(l.unsent) \in Nat
      BY <1>1
    <2> QED BY <2>1, <2>2, <2>3, <2>4, WindowAssumption
  <1>3. Released(l.unacked, bsn) = d
    BY <1>1, <1>2, ReleasedIsTheDistance DEF LinkInv
  <1>4. Release(l, bsn) = IF l.state = "InService" /\ ~l.remoteBusy THEN ArmT7(kept) ELSE kept
    BY <1>3 DEF Release
  <1>5. /\ rest \in Seq(Kept)
        /\ Len(rest) = n - d
        /\ \A i \in 1 .. n - d : rest[i] = l.unacked[d + i]
    <2>1. d \in 0 .. Len(l.unacked)
      BY <1>2
    <2> HIDE DEF d
    <2> QED BY <1>1, <2>1, DropFront
  <1>6. \A i \in 1 .. Len(rest) : rest[i].fsn = SeqAdd(bsn, i)
    <2> SUFFICES ASSUME NEW i \in 1 .. n - d PROVE l.unacked[d + i].fsn = SeqAdd(bsn, i)
      BY <1>5
    <2>1. d + i \in 1 .. n /\ i \in 0 .. SeqMask - d
      BY <1>2
    <2>2. l.unacked[d + i].fsn = SeqAdd(l.acked, d + i)
      BY <2>1 DEF LinkInv, IsWindow
    <2>3. bsn = SeqAdd(l.acked, d)
      BY <1>1, SeqAddDistance
    <2> HIDE DEF d
    <2> QED BY <1>1, <1>2, <2>1, <2>2, <2>3, SeqAddAdd
  <1>7. Len(rest) = SeqDistance(bsn, l.fsnOut)
    <2>1. bsn = SeqAdd(l.acked, d) /\ l.fsnOut = SeqAdd(l.acked, n)
      BY <1>1, <1>2, SeqAddDistance
    <2> HIDE DEF d
    <2>2. d \in 0 .. SeqMask /\ n \in d .. SeqMask
      BY <1>2
    <2> HIDE DEF n
    <2>3. SeqDistance(SeqAdd(l.acked, d), SeqAdd(l.acked, n)) = n - d
      BY <1>1, <2>2, SeqDistanceAdd
    <2> QED BY <1>5, <2>1, <2>3
  <1> HIDE DEF d, rest
  <1>8. kept \in Link
    BY <1>1, <1>5 DEF Link
  <1>9. /\ kept.unacked = rest
        /\ kept.acked = bsn
        /\ kept.fsnOut = l.fsnOut
        /\ kept.unsent = l.unsent
        /\ kept.state = l.state
        /\ kept.remoteBusy = l.remoteBusy
        /\ kept.timers = l.timers
    BY <1>1 DEF Link
  <1> HIDE DEF kept
  <1>10. Len(rest) + Len(l.unsent) <= Window
    <2>1. n + Len(l.unsent) <= Window
      BY DEF LinkInv, IsWindow
    <2> QED BY <1>2, <1>5, <2>1
  <1>11. IsWindow(kept) /\ IsSupervised(kept) /\ WaitsForAReason(kept)
    BY <1>6, <1>7, <1>9, <1>10 DEF LinkInv, IsWindow, IsSupervised, WaitsForAReason, IsAligned
  <1>12. CASE ~(l.state = "InService" /\ ~l.remoteBusy)
    <2>1. T7IsRight(kept)
      BY <1>9, <1>12 DEF LinkInv, T7IsRight
    <2> QED BY <1>4, <1>8, <1>9, <1>11, <1>12, <2>1 DEF LinkInv
  <1>13. CASE l.state = "InService" /\ ~l.remoteBusy
    <2>1. CASE rest = <<>>
      <3> DEFINE a == [kept EXCEPT !.timers = @ \ {"T7"}]
      <3>1. Release(l, bsn) = a
        BY <1>4, <1>9, <1>13, <2>1 DEF ArmT7
      <3>2. a \in Link
        BY <1>8 DEF Link
      <3>3. a.unacked = <<>> /\ "T7" \notin a.timers /\ a.unsent = kept.unsent
            /\ a.state = l.state /\ a.remoteBusy = l.remoteBusy
            /\ a.acked = kept.acked /\ a.fsnOut = kept.fsnOut
            /\ a.timers = kept.timers \ {"T7"}
        BY <1>8, <1>9, <2>1 DEF Link
      <3> HIDE DEF a
      <3>4. IsWindow(a)
        BY <1>9, <1>11, <2>1, <3>3 DEF IsWindow
      <3>5. T7IsRight(a) /\ IsSupervised(a) /\ WaitsForAReason(a)
        BY <1>9, <1>11, <2>1, <3>3 DEF T7IsRight, IsSupervised, WaitsForAReason, IsAligned
      <3> QED BY <1>9, <3>1, <3>2, <3>3, <3>4, <3>5 DEF LinkInv
    <2>2. CASE rest # <<>>
      <3> DEFINE a == [kept EXCEPT !.timers = @ \cup {"T7"}, !.t7For = rest[1].fsn]
      <3>1. Release(l, bsn) = a
        BY <1>4, <1>9, <1>13, <2>2 DEF ArmT7
      <3>2. rest[1].fsn \in SeqNum
        <4>1. rest[1] \in Kept
          BY <1>5, <2>2
        <4> QED BY <4>1 DEF Kept
      <3>3. kept.timers \cup {"T7"} \in SUBSET Timer
        BY <1>1, <1>9 DEF Timer
      <3>4. a \in Link
        BY <1>8, <3>2, <3>3 DEF Link
      <3> QED BY <1>8, <1>9, <1>11, <1>13, <2>2, <3>1, <3>4
              DEF LinkInv, Link, IsWindow, T7IsRight, IsSupervised, WaitsForAReason, IsAligned
    <2> QED BY <2>1, <2>2
  <1> QED BY <1>12, <1>13

\* acknowledge(), called for a Link Status, keeps the invariant: the window
\* loses a prefix and T7 moves to the oldest message that remains.
LEMMA AcknowledgeStatusInv ==
    ASSUME NEW l, LinkInv(l), IsAligned(l), NEW bsn \in SeqNum
    PROVE  /\ LinkInv(AcknowledgeStatus(l, bsn))
           /\ AcknowledgeStatus(l, bsn).state = l.state
           /\ AcknowledgeStatus(l, bsn).remoteBusy = l.remoteBusy
           /\ AcknowledgeStatus(l, bsn).unsent = l.unsent
  BY ReleaseInv DEF AcknowledgeStatus

\* A change of bsn_watch, fsn_in or ack_due is no concern of the invariant.
LEMMA IncidentalInv ==
    ASSUME NEW l, LinkInv(l), NEW w \in 0 .. 2, NEW f \in SeqNum, NEW a \in BOOLEAN
    PROVE  LinkInv([l EXCEPT !.bsnWatch = w, !.fsnIn = f, !.ackDue = a])
  <1> DEFINE k == [l EXCEPT !.bsnWatch = w, !.fsnIn = f, !.ackDue = a]
  <1>1. l \in Link
    BY DEF LinkInv
  <1>2. k \in Link
    BY <1>1 DEF Link
  <1> QED BY <1>1, <1>2 DEF LinkInv, Link, IsWindow, T7IsRight, IsSupervised, WaitsForAReason, IsAligned

\* acknowledge(), called for a User Data message, keeps the invariant.
LEMMA AcknowledgeDataInv ==
    ASSUME NEW l, LinkInv(l), IsAligned(l), NEW bsn \in SeqNum
    PROVE  LinkInv(AcknowledgeData(l, bsn))
  <1>1. l \in Link /\ l.bsnWatch \in 0 .. 2 /\ l.fsnIn \in SeqNum /\ l.ackDue \in BOOLEAN
    BY DEF LinkInv, Link
  <1>2. CASE Abnormal(l, bsn)
    <2> DEFINE d == Discarded(l, "RxAbnormalBsn", 1)
    <2>1. LinkInv(d)
      BY DiscardedInv DEF Discard
    <2>2. LinkInv(Fail(d, "AbnormalBsn"))
      BY <2>1, FailInv DEF Failure
    <2>3. LinkInv([d EXCEPT !.bsnWatch = 2])
      <3> HIDE DEF d
      <3>1. d \in Link /\ d.fsnIn \in SeqNum /\ d.ackDue \in BOOLEAN
        BY <2>1 DEF LinkInv, Link
      <3>2. [d EXCEPT !.bsnWatch = 2] = [d EXCEPT !.bsnWatch = 2, !.fsnIn = d.fsnIn, !.ackDue = d.ackDue]
        BY <3>1 DEF Link
      <3>3. LinkInv([d EXCEPT !.bsnWatch = 2, !.fsnIn = d.fsnIn, !.ackDue = d.ackDue])
        <4>1. 2 \in 0 .. 2
          OBVIOUS
        <4> QED BY <2>1, <3>1, <4>1, IncidentalInv
      <3> QED BY <3>2, <3>3, Zenon
    <2> QED BY <1>2, <2>2, <2>3 DEF AcknowledgeData
  <1>3. CASE ~Abnormal(l, bsn)
    <2> DEFINE w == IF l.bsnWatch > 0 THEN l.bsnWatch - 1 ELSE 0
               k == [l EXCEPT !.bsnWatch = w]
    <2>1. w \in 0 .. 2
      BY <1>1
    <2>2. AcknowledgeData(l, bsn) = Release(k, bsn)
      BY <1>3 DEF AcknowledgeData
    <2> HIDE DEF w
    <2>3. k = [l EXCEPT !.bsnWatch = w, !.fsnIn = l.fsnIn, !.ackDue = l.ackDue]
      BY <1>1 DEF Link
    <2>4. LinkInv(k)
      <3>1. LinkInv([l EXCEPT !.bsnWatch = w, !.fsnIn = l.fsnIn, !.ackDue = l.ackDue])
        BY <1>1, <2>1, IncidentalInv
      <3> QED BY <2>3, <3>1, Zenon
    <2>5. IsAligned(k) /\ ~Abnormal(k, bsn)
      BY <1>1, <1>3 DEF Link, IsAligned, Abnormal
    <2> QED BY <2>2, <2>4, <2>5, ReleaseInv
  <1> QED BY <1>2, <1>3

\* The acknowledgement that ends every event.
LEMMA FlushAckInv ==
    ASSUME NEW l, LinkInv(l)
    PROVE  LinkInv(FlushAck(l))
  <1>1. l \in Link /\ l.bsnWatch \in 0 .. 2 /\ l.fsnIn \in SeqNum /\ l.fsnOut \in SeqNum
    BY DEF LinkInv, Link
  <1> DEFINE k == [l EXCEPT !.ackDue = FALSE]
  <1>2. k = [l EXCEPT !.bsnWatch = l.bsnWatch, !.fsnIn = l.fsnIn, !.ackDue = FALSE]
    BY <1>1 DEF Link
  <1>3. LinkInv(k)
    <2>1. LinkInv([l EXCEPT !.bsnWatch = l.bsnWatch, !.fsnIn = l.fsnIn, !.ackDue = FALSE])
      BY <1>1, IncidentalInv
    <2> QED BY <1>2, <2>1, Zenon
  <1>4. DataAction(l, l.fsnOut, NoMsu) \in Action
    BY <1>1 DEF DataAction, SendAction, Action, Status
  <1>5. LinkInv(Push(k, DataAction(l, l.fsnOut, NoMsu)))
    BY <1>3, <1>4, PushInv
  <1> QED BY <1>3, <1>5 DEF FlushAck

----------------------------------------------------------------------------
(* Events.  Each lemma is one state of on_status, or one timer.            *)

\* Moving between the states of alignment: the new state's timers run, and the
\* link still holds nothing.
LEMMA AligningFrom ==
    ASSUME NEW l \in Link, IsWindow(l), WaitsForAReason(l),
           l.state \in {"NotAligned", "Aligned", "Proving"},
           NEW e \in BOOLEAN, NEW p \in BOOLEAN, NEW s \in State, NEW t \in SUBSET Timer,
           \/ s = "Aligned" /\ t = {"T3"}
           \/ s = "Proving" /\ t = {"T4", "Proving"}
           \/ s = "AlignedReady" /\ t = {"T1"}
    PROVE  LinkInv([l EXCEPT !.useEmergency = e, !.peerReady = p, !.state = s, !.timers = t])
  <1> DEFINE k == [l EXCEPT !.useEmergency = e, !.peerReady = p, !.state = s, !.timers = t]
  <1>2. k \in Link
    BY DEF Link
  <1>3. k.state = s /\ k.timers = t /\ k.unacked = l.unacked /\ k.unsent = l.unsent
        /\ k.acked = l.acked /\ k.fsnOut = l.fsnOut /\ k.remoteBusy = l.remoteBusy
    BY DEF Link
  <1> HIDE DEF k
  <1>4. l.unacked = <<>> /\ l.unsent = <<>> /\ ~l.remoteBusy
    BY DEF WaitsForAReason, IsAligned
  <1>5. IsWindow(k)
    BY <1>3 DEF IsWindow
  <1>6. T7IsRight(k) /\ WaitsForAReason(k)
    BY <1>3, <1>4 DEF T7IsRight, WaitsForAReason, IsAligned
  <1>7. IsSupervised(k)
    BY <1>3 DEF IsSupervised
  <1> QED BY <1>2, <1>5, <1>6, <1>7 DEF LinkInv, k

\* start() and restart keep the invariant: alignment begins with T2 running.
LEMMA AligningInv ==
    ASSUME NEW l, LinkInv(l),
           l.state \in {"NotAligned", "Aligned", "Proving"},
           NEW e \in BOOLEAN, NEW p \in BOOLEAN, NEW s \in State, NEW t \in SUBSET Timer,
           \/ s = "Aligned" /\ t = {"T3"}
           \/ s = "Proving" /\ t = {"T4", "Proving"}
           \/ s = "AlignedReady" /\ t = {"T1"}
    PROVE  LinkInv([l EXCEPT !.useEmergency = e, !.peerReady = p, !.state = s, !.timers = t])
  BY AligningFrom DEF LinkInv

\* The timers of an aligning link are those of its state, and no others.
LEMMA AligningTimers ==
    ASSUME NEW l, LinkInv(l)
    PROVE  /\ l.state = "NotAligned" => l.timers = {"T2"}
           /\ l.state = "Aligned" => l.timers = {"T3"}
           /\ l.state = "Proving" => l.timers = {"T4", "Proving"}
           /\ l.state = "AlignedReady" => l.timers = {"T1"}
           /\ l.state = "OutOfService" => l.timers = {}
  <1>1. l.timers \in SUBSET Timer
    BY DEF LinkInv, Link
  <1>2. \A t \in l.timers : t \in {"T1", "T2", "T3", "T4", "T6", "T7", "Proving"}
    BY <1>1 DEF Timer
  <1> QED BY <1>2 DEF LinkInv, IsSupervised, T7IsRight, IsAligned

\* The status this end proves with is one of the two proving statuses.
LEMMA ProvingStatusType == ProvingStatus \in Status
  BY DEF ProvingStatus, Status

\* A Link Status received in NotAligned keeps the invariant.
LEMMA NotAlignedInv ==
    ASSUME NEW l, LinkInv(l), l.state = "NotAligned", NEW s \in Status
    PROVE  LinkInv(OnStatusNotAligned(l, s))
  <1> DEFINE e == l.useEmergency \/ s = "ProvingEmergency"
             k == [l EXCEPT !.useEmergency = e, !.state = "Aligned",
                            !.timers = (@ \ {"T2"}) \cup {"T3"}]
  <1>1. l \in Link /\ l.peerReady \in BOOLEAN /\ e \in BOOLEAN
    BY DEF LinkInv, Link
  <1> HIDE DEF e
  <1>2. (l.timers \ {"T2"}) \cup {"T3"} = {"T3"}
    BY AligningTimers
  <1>3. k = [l EXCEPT !.useEmergency = e, !.peerReady = l.peerReady, !.state = "Aligned", !.timers = {"T3"}]
    BY <1>1, <1>2 DEF Link
  <1>4. LinkInv([l EXCEPT !.useEmergency = e, !.peerReady = l.peerReady, !.state = "Aligned", !.timers = {"T3"}])
    <2>1. "Aligned" \in State /\ {"T3"} \in SUBSET Timer
      BY DEF State, Timer
    <2> QED BY <1>1, <2>1, AligningInv
  <1>5. LinkInv(k)
    BY <1>3, <1>4, Zenon
  <1>6. LinkInv(SendStatus(k, ProvingStatus, StatusStream))
    BY <1>5, ProvingStatusType, SendStatusInv
  <1> QED BY <1>6 DEF OnStatusNotAligned, e

\* A Link Status received in Aligned keeps the invariant.
LEMMA AlignedInv ==
    ASSUME NEW l, LinkInv(l), l.state = "Aligned", NEW s \in Status
    PROVE  LinkInv(OnStatusAligned(l, s))
  <1> DEFINE e == l.useEmergency \/ s = "ProvingEmergency"
             k == [l EXCEPT !.useEmergency = e, !.state = "Proving",
                            !.timers = (@ \ {"T3"}) \cup {"T4", "Proving"}]
  <1>1. l \in Link /\ l.peerReady \in BOOLEAN /\ e \in BOOLEAN
    BY DEF LinkInv, Link
  <1> HIDE DEF e
  <1>2. (l.timers \ {"T3"}) \cup {"T4", "Proving"} = {"T4", "Proving"}
    BY AligningTimers
  <1>3. k = [l EXCEPT !.useEmergency = e, !.peerReady = l.peerReady, !.state = "Proving",
                      !.timers = {"T4", "Proving"}]
    BY <1>1, <1>2 DEF Link
  <1>4. LinkInv([l EXCEPT !.useEmergency = e, !.peerReady = l.peerReady, !.state = "Proving",
                          !.timers = {"T4", "Proving"}])
    <2>1. "Proving" \in State /\ {"T4", "Proving"} \in SUBSET Timer
      BY DEF State, Timer
    <2> QED BY <1>1, <2>1, AligningInv
  <1>5. LinkInv(k)
    BY <1>3, <1>4, Zenon
  <1>6. LinkInv(Fail(l, "PeerStatus"))
    BY FailInv DEF Failure
  <1> QED BY <1>5, <1>6 DEF OnStatusAligned, e

\* A Link Status received while proving keeps the invariant.
LEMMA ProvingInv ==
    ASSUME NEW l, LinkInv(l), l.state = "Proving", NEW s \in Status
    PROVE  LinkInv(OnStatusProving(l, s))
  <1>1. l \in Link /\ l.peerReady \in BOOLEAN /\ l.useEmergency \in BOOLEAN
    BY DEF LinkInv, Link
  <1>2. l.timers = {"T4", "Proving"}
    BY AligningTimers
  <1>3. {"T4", "Proving"} \in SUBSET Timer /\ {"T3"} \in SUBSET Timer
        /\ "Aligned" \in State /\ "Proving" \in State
    BY DEF State, Timer
  <1>4. LinkInv([l EXCEPT !.state = "Aligned", !.timers = (@ \ {"T4", "Proving"}) \cup {"T3"}])
    <2>1. LinkInv([l EXCEPT !.useEmergency = l.useEmergency, !.peerReady = l.peerReady,
                            !.state = "Aligned", !.timers = {"T3"}])
      BY <1>1, <1>3, AligningInv
    <2>2. (l.timers \ {"T4", "Proving"}) \cup {"T3"} = {"T3"}
      BY <1>2
    <2>3. [l EXCEPT !.state = "Aligned", !.timers = (@ \ {"T4", "Proving"}) \cup {"T3"}]
            = [l EXCEPT !.useEmergency = l.useEmergency, !.peerReady = l.peerReady,
                        !.state = "Aligned", !.timers = {"T3"}]
      BY <1>1, <2>2 DEF Link
    <2> QED BY <2>1, <2>3, Zenon
  <1>5. LinkInv([l EXCEPT !.useEmergency = TRUE,
                          !.timers = IF l.useEmergency THEN @ ELSE @ \cup {"T4"}])
    <2>1. LinkInv([l EXCEPT !.useEmergency = TRUE, !.peerReady = l.peerReady,
                            !.state = "Proving", !.timers = {"T4", "Proving"}])
      BY <1>1, <1>3, AligningInv
    <2>2. l.timers \cup {"T4"} = {"T4", "Proving"}
      BY <1>2
    <2>3. [l EXCEPT !.useEmergency = TRUE,
                    !.timers = IF l.useEmergency THEN @ ELSE @ \cup {"T4"}]
            = [l EXCEPT !.useEmergency = TRUE, !.peerReady = l.peerReady,
                        !.state = "Proving", !.timers = {"T4", "Proving"}]
      BY <1>1, <1>2, <2>2 DEF Link
    <2> QED BY <2>1, <2>3, Zenon
  <1>6. LinkInv([l EXCEPT !.peerReady = TRUE])
    <2>1. LinkInv([l EXCEPT !.useEmergency = l.useEmergency, !.peerReady = TRUE,
                            !.state = "Proving", !.timers = {"T4", "Proving"}])
      BY <1>1, <1>3, AligningInv
    <2>2. [l EXCEPT !.peerReady = TRUE]
            = [l EXCEPT !.useEmergency = l.useEmergency, !.peerReady = TRUE,
                        !.state = "Proving", !.timers = {"T4", "Proving"}]
      BY <1>1, <1>2 DEF Link
    <2> QED BY <2>1, <2>2, Zenon
  <1>7. LinkInv(Fail(l, "PeerStatus"))
    BY FailInv DEF Failure
  <1> QED BY <1>4, <1>5, <1>6, <1>7 DEF OnStatusProving

\* A processor outage stops T1 and T7 and keeps everything else.
LEMMA BeginOutageInv ==
    ASSUME NEW l, LinkInv(l), l.state \in {"AlignedReady", "InService"}
    PROVE  LinkInv(BeginOutage(l))
  <1> DEFINE k == [l EXCEPT !.timers = @ \ {"T1", "T7"}, !.state = "ProcessorOutage"]
  <1>1. l \in Link
    BY DEF LinkInv
  <1>2. k \in Link
    <2>1. "ProcessorOutage" \in State /\ l.timers \ {"T1", "T7"} \in SUBSET Timer
      BY <1>1 DEF State, Link
    <2> QED BY <1>1, <2>1 DEF Link
  <1>3. k.state = "ProcessorOutage" /\ k.timers = l.timers \ {"T1", "T7"}
        /\ k.unacked = l.unacked /\ k.unsent = l.unsent
        /\ k.acked = l.acked /\ k.fsnOut = l.fsnOut /\ k.remoteBusy = l.remoteBusy
    BY <1>1 DEF Link
  <1> HIDE DEF k
  <1>4. IsWindow(k)
    BY <1>3 DEF LinkInv, IsWindow
  <1>5. T7IsRight(k) /\ WaitsForAReason(k) /\ IsSupervised(k)
    BY <1>3 DEF LinkInv, T7IsRight, WaitsForAReason, IsSupervised, IsAligned
  <1>6. LinkInv(k)
    BY <1>2, <1>4, <1>5 DEF LinkInv
  <1>7. [action |-> "RemoteProcessorOutage", on |-> TRUE] \in Action
    BY DEF Action
  <1> QED BY <1>6, <1>7, PushInv DEF BeginOutage, k

\* A Link Status received in AlignedReady keeps the invariant.
LEMMA AlignedReadyInv ==
    ASSUME NEW l, LinkInv(l), l.state = "AlignedReady", NEW s \in Status
    PROVE  LinkInv(OnStatusAlignedReady(l, s))
  <1>1. LinkInv(EnterService(SendStatus(l, "Ready", StatusStream)))
    <2> DEFINE k == SendStatus(l, "Ready", StatusStream)
    <2>1. LinkInv(k)
      BY SendStatusInv DEF Status
    <2>2. k.state = "AlignedReady"
      BY DEF LinkInv, Link, SendStatus, Push
    <2> HIDE DEF k
    <2>3. k.timers \subseteq {"T1"}
      BY <2>1, <2>2, AligningTimers
    <2>4. LinkInv(EnterService(k))
      BY <2>1, <2>2, <2>3, EnterServiceInv DEF LinkInv, IsAligned
    <2> QED BY <2>4 DEF k
  <1>2. LinkInv(BeginOutage(l))
    BY BeginOutageInv
  <1>3. LinkInv(Fail(l, "PeerStatus"))
    BY FailInv DEF Failure
  <1> QED BY <1>1, <1>2, <1>3 DEF OnStatusAlignedReady

\* Busy from the peer keeps the invariant: T6 starts and T7 is stopped.
LEMMA BusyInv ==
    ASSUME NEW l, LinkInv(l), IsAligned(l)
    PROVE  LinkInv(OnBusy(l))
  <1> SUFFICES ASSUME ~l.remoteBusy PROVE LinkInv(OnBusy(l))
    BY DEF OnBusy
  <1> DEFINE t == (l.timers \ {"T7"}) \cup (IF l.unacked = <<>> THEN {} ELSE {"T6"})
             k == [l EXCEPT !.remoteBusy = TRUE, !.timers = t]
  <1>1. l \in Link
    BY DEF LinkInv
  <1>2. t \in SUBSET Timer /\ "T7" \notin t
        /\ \A x \in {"T1", "T2", "T3", "T4", "Proving"} : x \in t <=> x \in l.timers
    BY <1>1 DEF Timer, Link
  <1>3. OnBusy(l) = k
    BY DEF OnBusy
  <1> HIDE DEF t
  <1>4. k \in Link
    BY <1>1, <1>2 DEF Link
  <1>5. k.state = l.state /\ k.timers = t
        /\ k.unacked = l.unacked /\ k.unsent = l.unsent
        /\ k.acked = l.acked /\ k.fsnOut = l.fsnOut /\ k.remoteBusy
    BY <1>1 DEF Link
  <1> HIDE DEF k
  <1>6. IsWindow(k)
    BY <1>5 DEF LinkInv, IsWindow
  <1>7. T7IsRight(k) /\ WaitsForAReason(k) /\ IsSupervised(k)
    BY <1>2, <1>5 DEF LinkInv, T7IsRight, WaitsForAReason, IsSupervised, IsAligned
  <1> QED BY <1>3, <1>4, <1>6, <1>7 DEF LinkInv

\* BusyEnded keeps the invariant: T6 stops, what waited is flushed and T7
\* watches the window again.
LEMMA BusyEndedInv ==
    ASSUME NEW l, LinkInv(l), IsAligned(l)
    PROVE  LinkInv(OnBusyEnded(l))
  <1> SUFFICES ASSUME l.remoteBusy PROVE LinkInv(OnBusyEnded(l))
    BY DEF OnBusyEnded
  <1> DEFINE free == [l EXCEPT !.remoteBusy = FALSE, !.timers = @ \ {"T6"}]
  <1>1. l \in Link /\ l.unacked \in Seq(Kept) /\ l.unsent \in Seq(Msu)
        /\ l.timers \in SUBSET Timer
    BY DEF LinkInv, Link
  <1>2. free \in Link
    BY <1>1 DEF Link
  <1>3. free.state = l.state /\ free.timers = l.timers \ {"T6"}
        /\ free.unacked = l.unacked /\ free.unsent = l.unsent
        /\ free.acked = l.acked /\ free.fsnOut = l.fsnOut /\ ~free.remoteBusy
    BY <1>1 DEF Link
  <1>4. OnBusyEnded(l) = IF l.state = "InService" THEN FlushUnsent(RestartT7(free)) ELSE free
    BY DEF OnBusyEnded
  <1> HIDE DEF free
  <1>5. CASE l.state # "InService"
    <2>1. IsWindow(free)
      BY <1>3 DEF LinkInv, IsWindow
    <2>2. T7IsRight(free) /\ WaitsForAReason(free) /\ IsSupervised(free)
      BY <1>3, <1>5 DEF LinkInv, T7IsRight, WaitsForAReason, IsSupervised, IsAligned
    <2> QED BY <1>2, <1>4, <1>5, <2>1, <2>2 DEF LinkInv
  <1>6. CASE l.state = "InService"
    <2> DEFINE a == RestartT7(free)
               k == [a EXCEPT !.unsent = <<>>]
    <2>1. a \in Link
          /\ a.state = "InService" /\ ~a.remoteBusy
          /\ a.unacked = l.unacked /\ a.unsent = l.unsent
          /\ a.acked = l.acked /\ a.fsnOut = l.fsnOut
          /\ IF l.unacked = <<>> THEN a.timers = l.timers \ {"T6"}
             ELSE a.timers = (l.timers \ {"T6"}) \cup {"T7"} /\ a.t7For = l.unacked[1].fsn
      <3>1. CASE l.unacked = <<>>
        <4>1. a = free
          BY <1>3, <3>1 DEF RestartT7
        <4> HIDE DEF a
        <4> QED BY <1>2, <1>3, <1>6, <3>1, <4>1
      <3>2. CASE l.unacked # <<>>
        <4>1. a = [free EXCEPT !.timers = @ \cup {"T7"}, !.t7For = l.unacked[1].fsn]
          BY <1>3, <3>2 DEF RestartT7, ArmT7
        <4>2. l.unacked[1].fsn \in SeqNum
          <5>1. l.unacked[1] \in Kept
            BY <1>1, <3>2
          <5> QED BY <5>1 DEF Kept
        <4>3. free.timers \cup {"T7"} \in SUBSET Timer
          BY <1>1, <1>3 DEF Timer
        <4> HIDE DEF a
        <4>4. a \in Link
          BY <1>2, <4>1, <4>2, <4>3 DEF Link
        <4> QED BY <1>2, <1>3, <1>6, <3>2, <4>1, <4>4 DEF Link
      <3> QED BY <3>1, <3>2
    <2> HIDE DEF a
    <2>2. /\ <<>> \in Seq(Msu)
          /\ k.state = "InService" /\ ~k.remoteBusy
          /\ k.unacked = l.unacked /\ k.unsent = <<>>
          /\ k.acked = l.acked /\ k.fsnOut = l.fsnOut
          /\ k.timers = a.timers /\ k.t7For = a.t7For
      BY <2>1 DEF Link
    <2>3. k \in Link
      BY <2>1, <2>2 DEF Link
    <2>4. Len(l.unacked) + Len(l.unsent) <= Window
      BY DEF LinkInv, IsWindow
    <2>5. Len(l.unacked) + Len(<<>>) <= Window
      <3>1. Len(l.unacked) \in Nat /\ Len(l.unsent) \in Nat /\ Window \in Nat /\ Len(<<>>) = 0
        BY <1>1, WindowAssumption
      <3>2. \A x, y, w \in Nat : x + y <= w => x + 0 <= w
        OBVIOUS
      <3> QED BY <2>4, <3>1, <3>2
    <2> HIDE DEF k
    <2>6. IsWindow(k)
      BY <1>6, <2>2, <2>5 DEF LinkInv, IsWindow
    <2>7. T7IsRight(k)
      BY <1>6, <2>1, <2>2 DEF LinkInv, T7IsRight
    <2>8. WaitsForAReason(k) /\ IsSupervised(k)
      BY <1>6, <2>1, <2>2 DEF LinkInv, WaitsForAReason, IsSupervised, IsAligned
    <2>9. LinkInv(k)
      BY <2>3, <2>6, <2>7, <2>8 DEF LinkInv
    <2>10. LinkInv(FlushUnsent(a))
      BY <2>1, <2>4, <2>9, FlushUnsentInv DEF k
    <2> QED BY <1>4, <1>6, <2>10 DEF a
  <1> QED BY <1>5, <1>6

\* The peer recovered: the window closes at what it kept, and what waited for
\* the outage to end opens a new one behind it.
LEMMA RecoveredInv ==
    ASSUME NEW l, LinkInv(l), l.state = "ProcessorOutage", NEW bsn \in SeqNum
    PROVE  LinkInv(OnRecovered(l, bsn))
  <1> DEFINE a     == AcknowledgeStatus(l, bsn)
             gone  == Discarded(a, "TxFlushedByPeer", Len(a.unacked))
             base  == [gone EXCEPT !.unacked = <<>>, !.fsnOut = a.acked, !.state = "InService"]
             ready == SendStatus(base, "Ready", DataStream)
             ended == Push(ready, [action |-> "RemoteProcessorOutage", on |-> FALSE])
  <1>1. LinkInv(a) /\ a.state = "ProcessorOutage" /\ a.remoteBusy = l.remoteBusy
    BY AcknowledgeStatusInv DEF IsAligned
  <1>2. OnRecovered(l, bsn) = IF l.remoteBusy THEN ended ELSE FlushUnsent(ended)
    BY DEF OnRecovered
  <1> HIDE DEF a
  <1>3. a \in Link /\ a.acked \in SeqNum /\ a.unacked \in Seq(Kept) /\ a.unsent \in Seq(Msu)
    BY <1>1 DEF LinkInv, Link
  <1>4. Len(a.unacked) \in Nat /\ Len(a.unsent) \in Nat /\ Window \in Nat
    BY <1>3, WindowAssumption
  <1>5. LinkInv(gone)
    BY <1>1, <1>4, DiscardedInv DEF Discard
  <1>6. gone.state = a.state /\ gone.timers = a.timers /\ gone.unsent = a.unsent
        /\ gone.acked = a.acked /\ gone.remoteBusy = a.remoteBusy
    BY <1>3 DEF Discarded, Push, Link
  <1> HIDE DEF gone
  <1>7. gone \in Link
    BY <1>5 DEF LinkInv
  <1>8. base \in Link
    <2>1. <<>> \in Seq(Kept) /\ "InService" \in State
      BY DEF State
    <2> QED BY <1>3, <1>7, <2>1 DEF Link
  <1>9. base.state = "InService" /\ base.timers = a.timers /\ base.unsent = a.unsent
        /\ base.acked = a.acked /\ base.fsnOut = a.acked /\ base.unacked = <<>>
        /\ base.remoteBusy = l.remoteBusy
    BY <1>1, <1>6, <1>7 DEF Link
  <1> HIDE DEF base
  <1>10. ready \in Link /\ ready.state = "InService" /\ ready.timers = a.timers
         /\ ready.unsent = a.unsent /\ ready.acked = a.acked /\ ready.fsnOut = a.acked
         /\ ready.unacked = <<>> /\ ready.remoteBusy = l.remoteBusy
    <2>1. SendAction(DataStream, "LinkStatus", "Ready", base.fsnIn, base.fsnOut, NoMsu) \in Action
      BY <1>8, StatusAction DEF Status
    <2>2. ready \in Link
      BY <1>8, <2>1, PushLink DEF SendStatus
    <2>3. ready = [base EXCEPT !.out = Append(@, SendAction(DataStream, "LinkStatus", "Ready",
                                                            base.fsnIn, base.fsnOut, NoMsu))]
      BY DEF SendStatus, Push
    <2> HIDE DEF ready
    <2> QED BY <1>8, <1>9, <2>2, <2>3 DEF Link
  <1> HIDE DEF ready
  <1>11. ended \in Link /\ ended.state = "InService" /\ ended.timers = a.timers
         /\ ended.unsent = a.unsent /\ ended.acked = a.acked /\ ended.fsnOut = a.acked
         /\ ended.unacked = <<>> /\ ended.remoteBusy = l.remoteBusy
    <2>1. [action |-> "RemoteProcessorOutage", on |-> FALSE] \in Action
      BY DEF Action
    <2>2. ended \in Link
      BY <1>10, <2>1, PushLink
    <2>3. ended = [ready EXCEPT !.out = Append(@, [action |-> "RemoteProcessorOutage", on |-> FALSE])]
      BY DEF Push
    <2> HIDE DEF ended
    <2> QED BY <1>10, <2>2, <2>3 DEF Link
  <1> HIDE DEF ended
  <1>12. Len(a.unacked) + Len(a.unsent) <= Window
    BY <1>1 DEF LinkInv, IsWindow
  <1>13. Len(<<>>) + Len(a.unsent) <= Window /\ Len(<<>>) = 0
    <2>1. \A x, y, w \in Nat : x + y <= w => 0 + y <= w
      OBVIOUS
    <2> QED BY <1>4, <1>12, <2>1
  <1>14. SeqDistance(a.acked, a.acked) = 0
    BY <1>3 DEF SeqDistance, SeqNum
  <1>15. "T7" \notin a.timers
    BY <1>1 DEF LinkInv, T7IsRight
  <1>16. CASE l.remoteBusy
    <2>1. IsWindow(ended)
      BY <1>11, <1>13, <1>14 DEF IsWindow
    <2>2. T7IsRight(ended)
      BY <1>11, <1>15 DEF T7IsRight
    <2>3. WaitsForAReason(ended) /\ IsSupervised(ended)
      BY <1>1, <1>11, <1>16 DEF LinkInv, WaitsForAReason, IsSupervised, IsAligned
    <2> QED BY <1>2, <1>11, <1>16, <2>1, <2>2, <2>3 DEF LinkInv
  <1>17. CASE ~l.remoteBusy
    <2> DEFINE k == [ended EXCEPT !.unsent = <<>>]
    <2>1. k \in Link
      <3>1. <<>> \in Seq(Msu)
        OBVIOUS
      <3> QED BY <1>11, <3>1 DEF Link
    <2>2. k.state = "InService" /\ k.timers = a.timers /\ k.unsent = <<>>
          /\ k.acked = a.acked /\ k.fsnOut = a.acked /\ k.unacked = <<>> /\ ~k.remoteBusy
      BY <1>11, <1>17 DEF Link
    <2> HIDE DEF k
    <2>3. IsWindow(k)
      BY <1>4, <1>13, <1>14, <2>2 DEF IsWindow
    <2>4. T7IsRight(k)
      BY <1>15, <2>2 DEF T7IsRight
    <2>5. WaitsForAReason(k) /\ IsSupervised(k)
      BY <1>1, <1>17, <2>2 DEF LinkInv, WaitsForAReason, IsSupervised, IsAligned
    <2>6. LinkInv(k)
      BY <2>1, <2>3, <2>4, <2>5 DEF LinkInv
    <2>7. LinkInv(FlushUnsent(ended))
      BY <1>11, <1>13, <1>17, <2>6, FlushUnsentInv DEF k
    <2> QED BY <1>2, <1>17, <2>7
  <1> QED BY <1>16, <1>17

\* on_status, in every state.
LEMMA OnStatusInv ==
    ASSUME NEW l, LinkInv(l), NEW s \in Status, NEW bsn \in SeqNum
    PROVE  LinkInv(OnStatus(l, s, bsn))
  <1>1. l.state \in State
    BY DEF LinkInv, Link
  <1>2. ASSUME IsAligned(l) PROVE LinkInv(OnStatusInService(l, s, bsn))
    <2>1. LinkInv(Fail(l, "PeerStatus"))
      BY FailInv DEF Failure
    <2>2. LinkInv(OnBusy(l)) /\ LinkInv(OnBusyEnded(l)) /\ LinkInv(AcknowledgeStatus(l, bsn))
      BY <1>2, BusyInv, BusyEndedInv, AcknowledgeStatusInv
    <2>3. l.state = "InService" => LinkInv(BeginOutage(l))
      BY BeginOutageInv
    <2>4. l.state = "ProcessorOutage" => LinkInv(OnRecovered(l, bsn))
      BY RecoveredInv
    <2> QED BY <2>1, <2>2, <2>3, <2>4 DEF OnStatusInService
  <1>3. l.state = "NotAligned" => LinkInv(OnStatusNotAligned(l, s))
    BY NotAlignedInv
  <1>4. l.state = "Aligned" => LinkInv(OnStatusAligned(l, s))
    BY AlignedInv
  <1>5. l.state = "Proving" => LinkInv(OnStatusProving(l, s))
    BY ProvingInv
  <1>6. l.state = "AlignedReady" => LinkInv(OnStatusAlignedReady(l, s))
    BY AlignedReadyInv
  <1> QED BY <1>1, <1>2, <1>3, <1>4, <1>5, <1>6 DEF OnStatus, IsAligned, State

\* on_data: the BSN is dealt with, then the message.
LEMMA AcceptInv ==
    ASSUME NEW l, LinkInv(l), IsAligned(l), NEW bsn \in SeqNum, NEW fsn \in SeqNum,
           NEW m \in Msu \cup {NoMsu}
    PROVE  LinkInv(Accept(l, bsn, fsn, m))
  <1> DEFINE a == AcknowledgeData(l, bsn)
  <1>1. LinkInv(a)
    BY AcknowledgeDataInv
  <1> HIDE DEF a
  <1>2. LinkInv(Discarded(a, "RxOutOfSequence", 1))
    BY <1>1, DiscardedInv DEF Discard
  <1>3. ASSUME m # NoMsu PROVE LinkInv(Deliver([a EXCEPT !.fsnIn = fsn, !.ackDue = TRUE], m))
    <2>1. a \in Link /\ a.bsnWatch \in 0 .. 2
      BY <1>1 DEF LinkInv, Link
    <2>2. LinkInv([a EXCEPT !.bsnWatch = a.bsnWatch, !.fsnIn = fsn, !.ackDue = TRUE])
      BY <1>1, <2>1, IncidentalInv
    <2>3. [a EXCEPT !.fsnIn = fsn, !.ackDue = TRUE]
            = [a EXCEPT !.bsnWatch = a.bsnWatch, !.fsnIn = fsn, !.ackDue = TRUE]
      BY <2>1 DEF Link
    <2>4. LinkInv([a EXCEPT !.fsnIn = fsn, !.ackDue = TRUE])
      BY <2>2, <2>3, Zenon
    <2>5. [action |-> "Deliver", msu |-> m] \in Action
      BY <1>3 DEF Action
    <2> QED BY <2>4, <2>5, PushInv DEF Deliver
  <1> QED BY <1>1, <1>2, <1>3 DEF Accept, a

\* on_data keeps the invariant in every state.
LEMMA OnDataInv ==
    ASSUME NEW l, LinkInv(l), NEW bsn \in SeqNum, NEW fsn \in SeqNum, NEW m \in Msu \cup {NoMsu}
    PROVE  LinkInv(OnData(l, bsn, fsn, m))
  <1>1. CASE l.state = "AlignedReady"
    <2>1. l.timers \subseteq {"T1"}
      BY <1>1, AligningTimers
    <2>2. LinkInv(EnterService(l)) /\ IsAligned(EnterService(l))
      BY <1>1, <2>1, EnterServiceInv DEF LinkInv, IsAligned
    <2> QED BY <1>1, <2>2, AcceptInv DEF OnData
  <1>2. CASE IsAligned(l)
    BY <1>2, AcceptInv DEF OnData, IsAligned
  <1>3. CASE l.state # "AlignedReady" /\ ~IsAligned(l)
    <2>1. LinkInv(Discarded(l, "RxNotInService", 1))
      BY DiscardedInv DEF Discard
    <2> QED BY <1>3, <2>1 DEF OnData
  <1> QED BY <1>1, <1>2, <1>3

\* timeout, for a timer that runs.
LEMMA TimeoutInv ==
    ASSUME NEW l, LinkInv(l), NEW t \in l.timers
    PROVE  LinkInv(Timeout(Expired(l, t), t))
  <1> DEFINE k == Expired(l, t)
  <1>1. l \in Link /\ l.timers \in SUBSET Timer /\ l.state \in State
    BY DEF LinkInv, Link
  <1>2. k \in Link /\ k.state = l.state /\ k.timers = l.timers \ {t} /\ k.unacked = l.unacked
        /\ k.unsent = l.unsent /\ k.remoteBusy = l.remoteBusy /\ k.t7For = l.t7For
        /\ k.acked = l.acked /\ k.fsnOut = l.fsnOut
    BY <1>1 DEF Expired, Link
  <1>3. ASSUME k.state # "OutOfService", NEW reason \in Failure
        PROVE  LinkInv(Fail(k, reason))
    BY <1>2, <1>3, FailFrom
  <1>4. t \in {"T1", "T2", "T3", "T4", "T6", "T7", "Proving"}
    BY <1>1 DEF Timer
  <1>5. CASE t \in {"T1", "T2", "T3"}
    <2>1. /\ t = "T2" => l.state = "NotAligned"
          /\ t = "T3" => l.state = "Aligned"
          /\ t = "T1" => l.state = "AlignedReady"
      BY <1>5 DEF LinkInv, IsSupervised
    <2>2. Timeout(k, t) = Fail(k, t) /\ k.state # "OutOfService"
      <3> HIDE DEF k
      <3> QED BY <1>2, <1>5, <2>1 DEF Timeout
    <2>3. t \in Failure
      BY <1>5 DEF Failure
    <2> QED BY <1>3, <2>2, <2>3
  <1>6. CASE t = "T6"
    <2>1. IsAligned(l) /\ l.remoteBusy
      BY <1>6 DEF LinkInv, IsSupervised
    <2>2. Timeout(k, t) = Fail(k, "T6") /\ k.state # "OutOfService"
      <3> HIDE DEF k
      <3> QED BY <1>2, <1>6, <2>1 DEF Timeout, IsAligned
    <2> QED BY <1>3, <2>2 DEF Failure
  <1>7. CASE t = "T7"
    <2>1. l.state = "InService" /\ l.unacked # <<>> /\ l.t7For = l.unacked[1].fsn
      BY <1>7 DEF LinkInv, T7IsRight
    <2>2. Timeout(k, t) = Fail(k, "T7") /\ k.state # "OutOfService"
      <3> HIDE DEF k
      <3> QED BY <1>2, <1>7, <2>1 DEF Timeout
    <2> QED BY <1>3, <2>2 DEF Failure
  <1>8. CASE t = "Proving"
    <2>1. l.state = "Proving"
      BY <1>8 DEF LinkInv, IsSupervised
    <2>2. [k EXCEPT !.timers = @ \cup {"Proving"}] = l
      <3>1. (l.timers \ {"Proving"}) \cup {"Proving"} = l.timers
        BY <1>8
      <3>2. k = [l EXCEPT !.timers = l.timers \ {"Proving"}]
        BY <1>8 DEF Expired
      <3> HIDE DEF k
      <3> QED BY <1>1, <1>2, <1>8, <3>1, <3>2 DEF Link
    <2>3. Timeout(k, t) = SendStatus(l, ProvingStatus, StatusStream)
      <3> HIDE DEF k
      <3> QED BY <1>2, <1>8, <2>1, <2>2 DEF Timeout
    <2> QED BY <2>3, ProvingStatusType, SendStatusInv
  <1>9. CASE t = "T4"
    <2>1. l.state = "Proving" /\ l.timers = {"T4", "Proving"}
      BY <1>9, AligningTimers DEF LinkInv, IsSupervised
    <2> DEFINE quiet == [k EXCEPT !.timers = @ \ {"Proving"}]
               said  == SendStatus(quiet, "Ready", StatusStream)
    <2>2. quiet \in Link /\ quiet.timers = {} /\ quiet.state = "Proving"
          /\ quiet.unacked = l.unacked /\ quiet.unsent = l.unsent
          /\ quiet.remoteBusy = l.remoteBusy
          /\ quiet.acked = l.acked /\ quiet.fsnOut = l.fsnOut
      <3> HIDE DEF k
      <3> QED BY <1>2, <1>9, <2>1 DEF Link
    <2> HIDE DEF quiet
    <2>3. said \in Link /\ said.timers = {} /\ said.state = "Proving"
          /\ said.unacked = l.unacked /\ said.unsent = l.unsent
          /\ said.remoteBusy = l.remoteBusy
          /\ said.acked = l.acked /\ said.fsnOut = l.fsnOut
      <3>1. SendAction(StatusStream, "LinkStatus", "Ready", quiet.fsnIn, quiet.fsnOut, NoMsu) \in Action
        BY <2>2, StatusAction DEF Status
      <3>2. said \in Link
        BY <2>2, <3>1, PushLink DEF SendStatus
      <3>3. said = [quiet EXCEPT !.out = Append(@, SendAction(StatusStream, "LinkStatus", "Ready",
                                                              quiet.fsnIn, quiet.fsnOut, NoMsu))]
        BY DEF SendStatus, Push
      <3> HIDE DEF said
      <3> QED BY <2>2, <3>2, <3>3 DEF Link
    <2>4. Timeout(k, t) = IF k.peerReady THEN EnterService(said)
                          ELSE [said EXCEPT !.state = "AlignedReady", !.timers = @ \cup {"T1"}]
      <3> HIDE DEF k
      <3> QED BY <1>2, <1>9, <2>1 DEF Timeout, said, quiet
    <2> HIDE DEF said, k
    <2>5. IsWindow(said) /\ WaitsForAReason(said)
      BY <2>1, <2>3 DEF LinkInv, IsWindow, WaitsForAReason, IsAligned
    <2>6. LinkInv(EnterService(said))
      BY <2>3, <2>5, EnterServiceInv DEF IsAligned
    <2>7. LinkInv([said EXCEPT !.state = "AlignedReady", !.timers = @ \cup {"T1"}])
      <3>1. said.useEmergency \in BOOLEAN /\ said.peerReady \in BOOLEAN
            /\ "AlignedReady" \in State /\ {"T1"} \in SUBSET Timer
        BY <2>3 DEF Link, State, Timer
      <3>2. LinkInv([said EXCEPT !.useEmergency = said.useEmergency, !.peerReady = said.peerReady,
                                 !.state = "AlignedReady", !.timers = {"T1"}])
        BY <2>3, <2>5, <3>1, AligningFrom
      <3>3. [said EXCEPT !.state = "AlignedReady", !.timers = @ \cup {"T1"}]
              = [said EXCEPT !.useEmergency = said.useEmergency, !.peerReady = said.peerReady,
                             !.state = "AlignedReady", !.timers = {"T1"}]
        BY <2>3 DEF Link
      <3> QED BY <3>2, <3>3, Zenon
    <2> QED BY <2>4, <2>6, <2>7 DEF k
  <1> QED BY <1>4, <1>5, <1>6, <1>7, <1>8, <1>9

----------------------------------------------------------------------------
(* The specification.                                                      *)

\* A new link satisfies the invariant.
LEMMA NewLinkInv == LinkInv(NewLink)
  <1> DEFINE urgent == (Proving = "Emergency")
  <1>1. urgent \in BOOLEAN /\ SeqMask \in SeqNum /\ "OutOfService" \in State /\ 0 \in 0 .. 2
        /\ <<>> \in Seq(Kept) /\ <<>> \in Seq(Msu) /\ <<>> \in Seq(Action) /\ {} \in SUBSET Timer
    BY DEF SeqNum, State
  <1> HIDE DEF urgent
  <1>2. NewLink \in Link
    BY <1>1, NothingRetrievableType DEF NewLink, Link, urgent
  <1> QED BY <1>2, WindowAssumption DEF LinkInv, NewLink, IsWindow, T7IsRight, IsSupervised,
        WaitsForAReason, IsAligned

\* Emptying the vector of Actions keeps the invariant.
LEMMA QuietInv ==
    ASSUME LinkInv(link)
    PROVE  LinkInv(Quiet) /\ Quiet.timers = link.timers
           /\ Quiet.unacked = link.unacked /\ Quiet.unsent = link.unsent
  <1>1. link \in Link /\ <<>> \in Seq(Action)
    BY DEF LinkInv
  <1>2. Quiet \in Link
    BY <1>1 DEF Quiet, Link
  <1> QED BY <1>1, <1>2 DEF LinkInv, Quiet, Link, IsWindow, T7IsRight, IsSupervised,
        WaitsForAReason, IsAligned

\* The end of the association keeps the invariant.
LEMMA DetachInv ==
    ASSUME NEW l, LinkInv(l)
    PROVE  LinkInv(Detach(l))
  <1>1. l \in Link
    BY DEF LinkInv
  <1>2. Detach(l) \in Link
    BY <1>1, NothingRetrievableType DEF Detach, Link
  <1> QED BY <1>1, <1>2 DEF LinkInv, Detach, Link, IsWindow, T7IsRight, IsSupervised,
        WaitsForAReason, IsAligned

\* The inductive invariant of the specification: one step per event.
THEOREM LinkInvariant == Spec => []LinkInv(link)
  <1>1. Init => LinkInv(link)
    BY NewLinkInv, SendStatusInv, StartInv DEF Init, Established, Status
  <1>2. LinkInv(link) /\ [Next]_vars => LinkInv(link)'
    <2> SUFFICES ASSUME LinkInv(link), [Next]_vars PROVE LinkInv(link')
      OBVIOUS
    <2>1. CASE SendMsu
      BY <2>1, QuietInv, SendInv, FlushAckInv DEF SendMsu
    <2>2. CASE TimerExpires
      BY <2>2, QuietInv, TimeoutInv, FlushAckInv DEF TimerExpires
    <2>3. CASE ReceiveStatus
      BY <2>3, QuietInv, OnStatusInv, FlushAckInv DEF ReceiveStatus
    <2>4. CASE ReceiveData
      BY <2>4, QuietInv, OnDataInv, FlushAckInv DEF ReceiveData
    <2>5. CASE FailLink
      <3>1. PICK reason \in {"LinkTest", "Stopped", "Association"} : link' = FlushAck(Fail(Quiet, reason))
        BY <2>5 DEF FailLink
      <3>2. reason \in Failure
        BY DEF Failure
      <3> QED BY <3>1, <3>2, QuietInv, FailInv, FlushAckInv
    <2>6. CASE Restart
      BY <2>6, QuietInv, StartInv, FlushAckInv DEF Restart
    <2>7. CASE DetachLink
      BY <2>7, QuietInv, DetachInv DEF DetachLink
    <2>8. CASE UNCHANGED vars
      BY <2>8 DEF vars
    <2> QED BY <2>1, <2>2, <2>3, <2>4, <2>5, <2>6, <2>7, <2>8 DEF Next
  <1> QED BY <1>1, <1>2, PTL DEF Spec

\* Every link of every behaviour is well typed (Link and Action of link.rs).
THEOREM TypeCorrect == Spec => []TypeOK
  <1>1. LinkInv(link) => TypeOK
    BY DEF LinkInv, TypeOK
  <1> QED BY <1>1, LinkInvariant, PTL

\* The retransmission buffer is the window of acknowledge, transmit and the
\* processor outage, for every size of the circle.
THEOREM WindowCorrect == Spec => []BufferIsTheWindow
  <1>1. LinkInv(link) => BufferIsTheWindow
    BY DEF LinkInv, BufferIsTheWindow
  <1> QED BY <1>1, LinkInvariant, PTL

\* T7 is the deadline of the oldest unacknowledged message, exactly while the
\* link may send.
THEOREM T7Correct == Spec => []T7WatchesTheOldest
  <1>1. LinkInv(link) => T7WatchesTheOldest
    BY DEF LinkInv, T7WatchesTheOldest
  <1> QED BY <1>1, LinkInvariant, PTL

\* Alignment is supervised in every state, and no timer outlives its state.
THEOREM SupervisionCorrect == Spec => []AlignmentIsSupervised
  <1>1. LinkInv(link) => AlignmentIsSupervised
    BY DEF LinkInv, AlignmentIsSupervised
  <1> QED BY <1>1, LinkInvariant, PTL

\* Nothing waits for a peer that may be sent to.
THEOREM WaitingCorrect == Spec => []NothingWaitsInVain
  <1>1. LinkInv(link) => NothingWaitsInVain
    BY DEF LinkInv, NothingWaitsInVain
  <1> QED BY <1>1, LinkInvariant, PTL
=============================================================================
