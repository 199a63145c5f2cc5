--------------------------- MODULE LinkTaskProofs ---------------------------
(***************************************************************************)
(* Proofs about LinkTask.                                                  *)
(*                                                                         *)
(* What matters of a method of Link here is whether it takes the link out  *)
(* of service and says so: Follows.  How many sequence numbers are out is  *)
(* not limited, so the numbers of a link are any natural ones.             *)
(***************************************************************************)
EXTENDS LinkTask, Recursion

----------------------------------------------------------------------------
(* Types.                                                                  *)

Sents == [fsn : Nat, msu : Msu]

Lefts == [some : BOOLEAN, bsnt : Nat, acked : Nat, unacked : Seq(Sents), unsent : Seq(Msu)]

Acts ==
    [action : {"Send"}, stream : {StatusStream, DataStream}, kind : {"LinkStatus", "UserData"},
     status : Status, bsn : Nat, fsn : Nat, msu : Msu \cup {NoMsu}]
    \cup [action : {"Deliver"}, msu : Msu]
    \cup [action : {"Discarded"}, reason : Discard, count : Nat]
    \cup [action : {"InService"}]
    \cup [action : {"OutOfService"}, reason : Failure]
    \cup [action : {"RemoteProcessorOutage"}, on : BOOLEAN]

Links ==
    [state : State, useEmergency : BOOLEAN, peerReady : BOOLEAN,
     fsnOut : Nat, fsnIn : Nat, acked : Nat, bsnWatch : 0 .. 2,
     remoteBusy : BOOLEAN, ackDue : BOOLEAN,
     unacked : Seq(Sents), unsent : Seq(Msu), retrievable : Lefts,
     timers : SUBSET Timer, t7For : Nat, out : Seq(Acts)]

\* The event has said that the link went out of service.
Gone(l) == \E i \in 1 .. Len(l.out) : l.out[i].action = "OutOfService"

Down(l) == l.state = "OutOfService"

\* From l to m the link does not come back, and goes only with a word of it.
Follows(l, m) ==
    /\ m \in Links
    /\ Down(l) => Down(m)
    /\ Gone(m) <=> Gone(l) \/ (~Down(l) /\ Down(m))

\* One method after another.
LEMMA FollowsOn ==
    ASSUME NEW l, NEW m, NEW n, Follows(l, m), Follows(m, n)
    PROVE  Follows(l, n)
BY DEF Follows

\* A link that did nothing.
LEMMA FollowsItself ==
    ASSUME NEW l \in Links
    PROVE  Follows(l, l)
BY DEF Follows

\* A change that appends no action.
LEMMA FollowsQuietly ==
    ASSUME NEW l \in Links, NEW m \in Links, m.out = l.out, Down(l) <=> Down(m)
    PROVE  Follows(l, m)
BY DEF Follows, Gone

\* An action that is appended is said after the others.
LEMMA PushSays ==
    ASSUME NEW l \in Links, NEW a \in Acts
    PROVE  /\ Push(l, a) \in Links
           /\ Gone(Push(l, a)) <=> Gone(l) \/ a.action = "OutOfService"
<1>1. l.out \in Seq(Acts) /\ Append(l.out, a) \in Seq(Acts)
    BY DEF Links
<1>2. /\ Len(Append(l.out, a)) = Len(l.out) + 1
      /\ \A i \in 1 .. Len(l.out) : Append(l.out, a)[i] = l.out[i]
      /\ Append(l.out, a)[Len(l.out) + 1] = a
      /\ Len(l.out) \in Nat
    BY <1>1
<1>3. Push(l, a).out = Append(l.out, a) /\ Push(l, a) \in Links
    BY <1>1 DEF Push, Links
<1>4. Gone(Push(l, a)) <=> \E i \in 1 .. Len(l.out) + 1 : Append(l.out, a)[i].action = "OutOfService"
    BY <1>2, <1>3 DEF Gone
<1>5. (\E i \in 1 .. Len(l.out) + 1 : Append(l.out, a)[i].action = "OutOfService")
        <=> Gone(l) \/ a.action = "OutOfService"
    <2> HIDE <1>1
    <2> QED BY <1>2 DEF Gone
<1> QED BY <1>3, <1>4, <1>5

\* An action other than OutOfService.
LEMMA FollowsPush ==
    ASSUME NEW l \in Links, NEW a \in Acts, a.action # "OutOfService"
    PROVE  Follows(l, Push(l, a)) /\ Push(l, a).state = l.state
<1>1. Push(l, a).state = l.state
    BY DEF Push, Links
<1> QED BY <1>1, PushSays DEF Follows, Down

\* send_status.
LEMMA FollowsSendStatus ==
    ASSUME NEW l \in Links, NEW s \in Status, NEW stream \in {StatusStream, DataStream}
    PROVE  Follows(l, SendStatus(l, s, stream)) /\ SendStatus(l, s, stream).state = l.state
<1> DEFINE a == SendAction(stream, "LinkStatus", s, l.fsnIn, l.fsnOut, NoMsu)
<1>1. a \in Acts /\ a.action # "OutOfService"
    BY DEF SendAction, Acts, Links
<1>2. SendStatus(l, s, stream) = Push(l, a)
    BY DEF SendStatus
<1> HIDE DEF a
<1> QED BY <1>1, <1>2, FollowsPush

\* An Action::Discarded.
LEMMA FollowsDiscarded ==
    ASSUME NEW l \in Links, NEW reason \in Discard, NEW n \in Nat
    PROVE  Follows(l, Discarded(l, reason, n)) /\ Discarded(l, reason, n).state = l.state
<1> DEFINE a == [action |-> "Discarded", reason |-> reason, count |-> n]
<1>1. a \in Acts /\ a.action # "OutOfService"
    BY DEF Acts
<1>2. Discarded(l, reason, n) = l \/ Discarded(l, reason, n) = Push(l, a)
    BY DEF Discarded
<1> HIDE DEF a
<1> QED BY <1>1, <1>2, FollowsPush, FollowsItself

\* What is left of a link that holds nothing.
LEMMA NothingLeft == NothingRetrievable \in Lefts
<1> DEFINE none == <<>>
           nothing == <<>>
<1>1. none \in Seq(Sents) /\ nothing \in Seq(Msu)
    OBVIOUS
<1>2. SeqMask \in Nat
    BY SeqMaskAssumption
<1>3. NothingRetrievable = [some |-> FALSE, bsnt |-> SeqMask, acked |-> SeqMask,
                            unacked |-> none, unsent |-> nothing]
    BY DEF NothingRetrievable
<1> HIDE DEF none, nothing
<1> QED BY <1>1, <1>2, <1>3 DEF Lefts

\* fail: the link is out of service and says so, unless it was.
LEMMA FollowsFail ==
    ASSUME NEW l \in Links, NEW reason \in Failure
    PROVE  Follows(l, Fail(l, reason)) /\ Down(Fail(l, reason))
<1>1. CASE Down(l)
    BY <1>1, FollowsItself DEF Fail, Down
<1>2. CASE ~Down(l)
    <2> DEFINE told == IF reason = "Association" THEN l
                       ELSE SendStatus(l, "OutOfService", StatusStream)
               left == [some |-> TRUE, bsnt |-> l.fsnIn, acked |-> l.acked,
                        unacked |-> l.unacked, unsent |-> l.unsent]
               none == <<>>
               nothing == <<>>
               down == [told EXCEPT
                          !.state       = "OutOfService",
                          !.retrievable = left,
                          !.unacked     = none,
                          !.unsent      = nothing,
                          !.remoteBusy  = FALSE,
                          !.ackDue      = FALSE,
                          !.peerReady   = FALSE,
                          !.timers      = {}]
               a == [action |-> "OutOfService", reason |-> reason]
    <2>1. Follows(l, told) /\ told.state = l.state
        BY FollowsItself, FollowsSendStatus DEF Status
    <2>2. left \in Lefts
        BY DEF Links, Lefts
    <2>3. none \in Seq(Sents) /\ nothing \in Seq(Msu)
        OBVIOUS
    <2>4. a \in Acts /\ a.action = "OutOfService"
        BY DEF Acts
    <2>5. Fail(l, reason) = Push(down, a)
        BY <1>2 DEF Fail, Down
    <2> HIDE DEF told, left, none, nothing, a
    <2>6. down \in Links /\ down.out = told.out /\ down.state = "OutOfService"
        <3>1. told \in Links
            BY <2>1 DEF Follows
        <3>2. "OutOfService" \in State /\ {} \in SUBSET Timer
            BY DEF State
        <3> QED BY <2>2, <2>3, <3>1, <3>2 DEF Links
    <2> HIDE DEF down
    <2>7. Push(down, a) \in Links /\ Gone(Push(down, a)) /\ Push(down, a).state = "OutOfService"
        <3>1. Push(down, a).state = down.state
            BY <2>6 DEF Push, Links
        <3> QED BY <2>4, <2>6, <3>1, PushSays
    <2> QED BY <1>2, <2>5, <2>7 DEF Follows, Down
<1> QED BY <1>1, <1>2


\* start: the one method that takes a link out of OutOfService.
LEMMA StartBegins ==
    ASSUME NEW l \in Links
    PROVE  /\ Start(l) \in Links
           /\ Gone(Start(l)) <=> Gone(l)
           /\ ~Down(Start(l))
<1>1. CASE ~Down(l)
    BY <1>1 DEF Start, Down
<1>2. CASE Down(l)
    <2> DEFINE left == Discarded(l, "TxLostOnFailure", Held(l.retrievable))
               urgent == (Proving = "Emergency")
               timers == left.timers \cup {"T2"}
               begun == [left EXCEPT
                           !.retrievable  = NothingRetrievable,
                           !.fsnOut       = SeqMask,
                           !.fsnIn        = SeqMask,
                           !.acked        = SeqMask,
                           !.bsnWatch     = 0,
                           !.remoteBusy   = FALSE,
                           !.ackDue       = FALSE,
                           !.peerReady    = FALSE,
                           !.useEmergency = urgent,
                           !.state        = "NotAligned",
                           !.timers       = timers]
    <2>1. Follows(l, left) /\ left.state = l.state
        <3>1. l.retrievable.unacked \in Seq(Sents) /\ l.retrievable.unsent \in Seq(Msu)
            BY DEF Links, Lefts
        <3>2. Len(l.retrievable.unacked) \in Nat /\ Len(l.retrievable.unsent) \in Nat
            BY <3>1
        <3>3. Held(l.retrievable) \in Nat
            <4> DEFINE j == Len(l.retrievable.unacked)
                       k == Len(l.retrievable.unsent)
            <4>1. Held(l.retrievable) = j + k
                BY DEF Held
            <4> HIDE DEF j, k
            <4>2. j \in Nat /\ k \in Nat
                BY <3>2 DEF j, k
            <4> QED BY <4>1, <4>2
        <3>4. "TxLostOnFailure" \in Discard
            BY DEF Discard
        <3> QED BY <3>3, <3>4, FollowsDiscarded
    <2>2. urgent \in BOOLEAN
        OBVIOUS
    <2>3. Start(l) = SendStatus(begun, "Alignment", StatusStream)
        BY <1>2 DEF Start, Down
    <2> HIDE DEF left, urgent
    <2>4. begun \in Links /\ begun.out = left.out /\ begun.state = "NotAligned"
        <3>1. left \in Links
            BY <2>1 DEF Follows
        <3>2. "NotAligned" \in State /\ SeqMask \in Nat /\ timers \in SUBSET Timer /\ 0 \in 0 .. 2
            BY <3>1, SeqMaskAssumption DEF State, Timer, Links
        <3> HIDE DEF timers
        <3> QED BY <2>2, <3>1, <3>2, NothingLeft DEF Links
    <2> HIDE DEF begun
    <2>5. Follows(begun, Start(l)) /\ Start(l).state = "NotAligned"
        <3>1. "Alignment" \in Status
            BY DEF Status
        <3> QED BY <2>3, <2>4, <3>1, FollowsSendStatus
    <2>6. Gone(begun) <=> Gone(l)
        <3>1. Gone(left) <=> Gone(l)
            BY <2>1 DEF Follows, Down
        <3> QED BY <2>4, <3>1 DEF Gone
    <2> QED BY <2>4, <2>5, <2>6 DEF Follows, Down
<1> QED BY <1>1, <1>2

\* enter_service.
LEMMA FollowsEnterService ==
    ASSUME NEW l \in Links, ~Down(l)
    PROVE  Follows(l, EnterService(l)) /\ EnterService(l).state = "InService"
<1> DEFINE m == [l EXCEPT !.timers = l.timers \ {"T1"}, !.state = "InService", !.peerReady = FALSE]
           a == [action |-> "InService"]
<1>1. "InService" \in State /\ l.timers \ {"T1"} \in SUBSET Timer
    BY DEF State, Links
<1>2. m \in Links /\ m.out = l.out /\ m.state = "InService"
    BY <1>1 DEF Links
<1>3. a \in Acts /\ a.action # "OutOfService"
    BY DEF Acts
<1>4. EnterService(l) = Push(m, a)
    BY DEF EnterService
<1> HIDE DEF m, a
<1>5. Follows(l, m)
    BY <1>2, FollowsQuietly DEF Down
<1> QED BY <1>2, <1>3, <1>4, <1>5, FollowsPush, FollowsOn

----------------------------------------------------------------------------
(* Sending and acknowledgement.                                            *)

\* Numbers are natural ones.
LEMMA SeqAddNat ==
    ASSUME NEW n \in Nat, NEW k \in Nat
    PROVE  SeqAdd(n, k) \in Nat
BY SeqMaskAssumption DEF SeqAdd

\* transmit, for any number of messages.
LEMMA FollowsTransmitAll ==
    ASSUME NEW l \in Links, NEW msus \in Seq(Msu)
    PROVE  Follows(l, TransmitAll(l, msus)) /\ TransmitAll(l, msus).state = l.state
<1> DEFINE n      == Len(msus)
           kept   == [i \in 1 .. n |-> [fsn |-> SeqAdd(l.fsnOut, i), msu |-> msus[i]]]
           frames == [i \in 1 .. n |-> DataAction(l, SeqAdd(l.fsnOut, i), msus[i])]
           first  == l.unacked = <<>>
           timers == IF first THEN l.timers \cup {"T7"} ELSE l.timers
           t7     == IF first THEN SeqAdd(l.fsnOut, 1) ELSE l.t7For
           fsn    == SeqAdd(l.fsnOut, n)
           buffer == l.unacked \o kept
           out    == l.out \o frames
           sent   == [l EXCEPT !.fsnOut = fsn, !.ackDue = FALSE, !.unacked = buffer, !.out = out,
                               !.timers = timers, !.t7For = t7]
<1>1. n \in Nat /\ l.fsnOut \in Nat /\ l.fsnIn \in Nat /\ l.unacked \in Seq(Sents)
      /\ l.out \in Seq(Acts) /\ l.timers \in SUBSET Timer /\ l.t7For \in Nat
    BY DEF Links
<1>2. \A i \in 1 .. n : SeqAdd(l.fsnOut, i) \in Nat /\ msus[i] \in Msu
    <2>1. \A i \in 1 .. n : i \in Nat /\ msus[i] \in Msu
        BY <1>1
    <2> HIDE DEF n
    <2> QED BY <1>1, <2>1, SeqAddNat
<1>3. \A i \in 1 .. n : DataAction(l, SeqAdd(l.fsnOut, i), msus[i]) \in Acts
    BY <1>1, <1>2 DEF DataAction, SendAction, Acts, Status
<1>4. \A i \in 1 .. n : DataAction(l, SeqAdd(l.fsnOut, i), msus[i]).action # "OutOfService"
    BY DEF DataAction, SendAction
<1>5. frames \in Seq(Acts) /\ Len(frames) = n /\ \A i \in 1 .. n : frames[i].action # "OutOfService"
    BY <1>1, <1>3, <1>4
<1>6. kept \in Seq(Sents)
    BY <1>1, <1>2 DEF Sents
<1>7. buffer \in Seq(Sents) /\ out \in Seq(Acts)
    <2> HIDE DEF kept, frames
    <2> QED BY <1>1, <1>5, <1>6
<1>8. fsn \in Nat /\ t7 \in Nat /\ timers \in SUBSET Timer
    <2>1. fsn \in Nat /\ SeqAdd(l.fsnOut, 1) \in Nat
        BY <1>1, SeqAddNat
    <2> QED BY <1>1, <2>1 DEF Timer
<1>9. TransmitAll(l, msus) = l \/ TransmitAll(l, msus) = sent
    BY DEF TransmitAll
<1>10. (\E i \in 1 .. Len(out) : out[i].action = "OutOfService")
         <=> \E i \in 1 .. Len(l.out) : l.out[i].action = "OutOfService"
    <2> HIDE DEF frames
    <2>1. /\ Len(out) = Len(l.out) + n
          /\ \A i \in 1 .. Len(l.out) : out[i] = l.out[i]
          /\ \A i \in Len(l.out) + 1 .. Len(l.out) + n :
                 i - Len(l.out) \in 1 .. n /\ out[i] = frames[i - Len(l.out)]
          /\ Len(l.out) \in Nat
        <3> DEFINE s == l.out
        <3>1. s \in Seq(Acts) /\ n \in Nat /\ frames \in Seq(Acts) /\ Len(frames) = n
            BY <1>1, <1>5
        <3> HIDE DEF n, s
        <3>2. /\ Len(s \o frames) = Len(s) + n
              /\ \A i \in 1 .. Len(s) : (s \o frames)[i] = s[i]
              /\ \A i \in Len(s) + 1 .. Len(s) + n :
                     i - Len(s) \in 1 .. n /\ (s \o frames)[i] = frames[i - Len(s)]
              /\ Len(s) \in Nat
            BY <3>1
        <3> QED BY <3>2 DEF s
    <2> HIDE DEF out
    <2>2. \A i \in 1 .. Len(out) : i \in 1 .. Len(l.out) \/ i \in Len(l.out) + 1 .. Len(l.out) + n
        BY <1>1, <2>1
    <2>3. \A i \in Len(l.out) + 1 .. Len(l.out) + n : out[i].action # "OutOfService"
        BY <1>5, <2>1
    <2>4. \A i \in 1 .. Len(l.out) : i \in 1 .. Len(out)
        BY <1>1, <2>1
    <2> QED BY <2>1, <2>2, <2>3, <2>4
<1> HIDE DEF n, kept, frames, first, timers, t7, fsn, buffer, out
<1>11. sent \in Links /\ sent.out = out /\ sent.state = l.state
    BY <1>1, <1>7, <1>8 DEF Links
<1>12. Gone(sent) <=> Gone(l)
    BY <1>10, <1>11 DEF Gone
<1> QED BY <1>9, <1>11, <1>12, FollowsItself DEF Follows, Down

\* flush_unsent.
LEMMA FollowsFlushUnsent ==
    ASSUME NEW l \in Links
    PROVE  Follows(l, FlushUnsent(l)) /\ FlushUnsent(l).state = l.state
<1> DEFINE none == <<>>
           m == [l EXCEPT !.unsent = none]
<1>1. none \in Seq(Msu) /\ l.unsent \in Seq(Msu)
    BY DEF Links
<1>2. FlushUnsent(l) = TransmitAll(m, l.unsent)
    BY DEF FlushUnsent
<1> HIDE DEF none
<1>3. m \in Links /\ m.out = l.out /\ m.state = l.state
    BY <1>1 DEF Links
<1> HIDE DEF m
<1>4. Follows(l, m)
    BY <1>3, FollowsQuietly DEF Down
<1> QED BY <1>1, <1>2, <1>3, <1>4, FollowsTransmitAll, FollowsOn

\* send.
LEMMA FollowsSend ==
    ASSUME NEW l \in Links, NEW m \in Msu
    PROVE  Follows(l, Send(l, m)) /\ Send(l, m).state = l.state
<1> DEFINE waits == [l EXCEPT !.unsent = Append(l.unsent, m)]
<1>1. waits \in Links /\ waits.out = l.out /\ waits.state = l.state
    <2> DEFINE s == Append(l.unsent, m)
    <2>1. s \in Seq(Msu)
        BY DEF Links
    <2> HIDE DEF s
    <2>2. [l EXCEPT !.unsent = s] \in Links /\ [l EXCEPT !.unsent = s].out = l.out
          /\ [l EXCEPT !.unsent = s].state = l.state
        BY <2>1 DEF Links
    <2> QED BY <2>2 DEF s
<1>2. <<m>> \in Seq(Msu)
    OBVIOUS
<1>3. \/ Send(l, m) = TransmitAll(l, <<m>>)
      \/ Send(l, m) = waits
      \/ Send(l, m) = Discarded(l, "TxCongestion", 1)
      \/ Send(l, m) = Discarded(l, "TxNotInService", 1)
    BY DEF Send, Transmit, IsAligned
<1> HIDE DEF waits
<1>4. Follows(l, waits)
    BY <1>1, FollowsQuietly DEF Down
<1>5. "TxCongestion" \in Discard /\ "TxNotInService" \in Discard /\ 1 \in Nat
    BY DEF Discard
<1>6. /\ Follows(l, TransmitAll(l, <<m>>)) /\ TransmitAll(l, <<m>>).state = l.state
      /\ Follows(l, Discarded(l, "TxCongestion", 1))
      /\ Discarded(l, "TxCongestion", 1).state = l.state
      /\ Follows(l, Discarded(l, "TxNotInService", 1))
      /\ Discarded(l, "TxNotInService", 1).state = l.state
    BY <1>2, <1>5, FollowsTransmitAll, FollowsDiscarded
<1> QED BY <1>1, <1>3, <1>4, <1>6

\* The prefix that acknowledge pops exists, and leaves a buffer.
LEMMA ReleasedLeaves ==
    ASSUME NEW buffer \in Seq(Sents), NEW bsn
    PROVE  SubSeq(buffer, Released(buffer, bsn) + 1, Len(buffer)) \in Seq(Sents)
<1> DEFINE n == Len(buffer)
           Covers(i) == SeqDistance(buffer[i].fsn, bsn) < SeqMask \div 2
           Good(k) == /\ \A i \in 1 .. k : Covers(i)
                      /\ k < n => ~Covers(k + 1)
           S == {k \in 0 .. n : k < n => ~Covers(k + 1)}
<1>1. n \in Nat
    OBVIOUS
<1>2. \E k \in 0 .. n : Good(k)
    <2>1. S \in SUBSET Nat /\ n \in S
        BY <1>1
    <2>2. PICK k \in S : \A j \in S : k <= j
        <3> HIDE DEF S, n
        <3> QED BY <2>1, LeastElement
    <2>3. \A i \in 1 .. k : Covers(i)
        <3> SUFFICES ASSUME NEW i \in 1 .. k PROVE Covers(i)
            OBVIOUS
        <3>1. k \in 0 .. n
            BY <2>2
        <3>2. i - 1 \in 0 .. n /\ i - 1 < n /\ (i - 1) + 1 = i /\ ~(k <= i - 1)
            <4> HIDE DEF n
            <4> QED BY <1>1, <3>1
        <3>3. i - 1 \notin S
            <4> HIDE DEF S
            <4> QED BY <2>2, <3>2
        <3> HIDE DEF Covers, n
        <3> QED BY <3>2, <3>3
    <2> QED BY <2>2, <2>3
<1>3. Released(buffer, bsn) \in 0 .. n
    <2>1. Released(buffer, bsn) = CHOOSE k \in 0 .. n : Good(k)
        BY DEF Released
    <2> HIDE DEF Good
    <2> QED BY <1>2, <2>1
<1> DEFINE k == Released(buffer, bsn)
<1> HIDE DEF k
<1>4. \A i \in k + 1 .. n : i \in 1 .. n
    BY <1>1, <1>3 DEF k
<1>5. SubSeq(buffer, k + 1, n) \in Seq(Sents)
    BY <1>1, <1>3, <1>4 DEF k
<1> QED BY <1>5 DEF k

\* arm_t7.
LEMMA FollowsArmT7 ==
    ASSUME NEW l \in Links
    PROVE  Follows(l, ArmT7(l)) /\ ArmT7(l).state = l.state
<1> DEFINE fsn == l.unacked[1].fsn
           m == [l EXCEPT !.timers = l.timers \ {"T7"}]
           r == [l EXCEPT !.timers = l.timers \cup {"T7"}, !.t7For = fsn]
<1>1. m \in Links /\ m.out = l.out /\ m.state = l.state
    BY DEF Links
<1>2. ASSUME l.unacked # <<>> PROVE r \in Links /\ r.out = l.out /\ r.state = l.state
    <2>1. l.unacked[1] \in Sents
        BY <1>2 DEF Links
    <2>2. fsn \in Nat
        BY <2>1 DEF Sents
    <2>3. l.timers \cup {"T7"} \in SUBSET Timer
        BY DEF Links, Timer
    <2> HIDE DEF fsn
    <2> QED BY <2>2, <2>3 DEF Links
<1>3. ArmT7(l) = IF l.unacked = <<>> THEN m ELSE r
    BY DEF ArmT7
<1> HIDE DEF m, r
<1>4. Follows(l, m)
    BY <1>1, FollowsQuietly DEF Down
<1>5. ASSUME l.unacked # <<>> PROVE Follows(l, r)
    BY <1>2, <1>5, FollowsQuietly DEF Down
<1> QED BY <1>1, <1>2, <1>3, <1>4, <1>5

\* restart_t7.
LEMMA FollowsRestartT7 ==
    ASSUME NEW l \in Links
    PROVE  Follows(l, RestartT7(l)) /\ RestartT7(l).state = l.state
<1>1. RestartT7(l) = l \/ RestartT7(l) = ArmT7(l)
    BY DEF RestartT7
<1> QED BY <1>1, FollowsItself, FollowsArmT7

\* acknowledge, of a number that names what is held.
LEMMA FollowsRelease ==
    ASSUME NEW l \in Links, NEW bsn \in Nat
    PROVE  Follows(l, Release(l, bsn)) /\ Release(l, bsn).state = l.state
<1> DEFINE rest == SubSeq(l.unacked, Released(l.unacked, bsn) + 1, Len(l.unacked))
           kept == [l EXCEPT !.acked = bsn, !.unacked = rest]
<1>1. rest \in Seq(Sents)
    <2>1. l.unacked \in Seq(Sents)
        BY DEF Links
    <2> QED BY <2>1, ReleasedLeaves
<1>2. Release(l, bsn) = l \/ Release(l, bsn) = kept \/ Release(l, bsn) = ArmT7(kept)
    BY DEF Release
<1> HIDE DEF rest
<1>3. kept \in Links /\ kept.out = l.out /\ kept.state = l.state
    BY <1>1 DEF Links
<1> HIDE DEF kept
<1>4. Follows(l, kept)
    BY <1>3, FollowsQuietly DEF Down
<1>5. Follows(l, ArmT7(kept)) /\ ArmT7(kept).state = l.state
    BY <1>3, <1>4, FollowsArmT7, FollowsOn
<1> QED BY <1>2, <1>3, <1>4, <1>5, FollowsItself

\* acknowledge, for a Link Status.
LEMMA FollowsAcknowledgeStatus ==
    ASSUME NEW l \in Links, NEW bsn \in Nat
    PROVE  Follows(l, AcknowledgeStatus(l, bsn)) /\ AcknowledgeStatus(l, bsn).state = l.state
<1>1. AcknowledgeStatus(l, bsn) = l \/ AcknowledgeStatus(l, bsn) = Release(l, bsn)
    BY DEF AcknowledgeStatus
<1> QED BY <1>1, FollowsItself, FollowsRelease

\* acknowledge, for User Data: a second abnormal number fails the link.
LEMMA FollowsAcknowledgeData ==
    ASSUME NEW l \in Links, NEW bsn \in Nat
    PROVE  Follows(l, AcknowledgeData(l, bsn))
<1> DEFINE d == Discarded(l, "RxAbnormalBsn", 1)
           w == IF l.bsnWatch > 0 THEN l.bsnWatch - 1 ELSE 0
           seen == [d EXCEPT !.bsnWatch = 2]
           fine == [l EXCEPT !.bsnWatch = w]
<1>1. Follows(l, d) /\ d.state = l.state /\ d \in Links
    <2>1. "RxAbnormalBsn" \in Discard /\ 1 \in Nat
        BY DEF Discard
    <2> QED BY <2>1, FollowsDiscarded DEF Follows
<1>2. w \in 0 .. 2
    <2>1. l.bsnWatch \in 0 .. 2
        BY DEF Links
    <2> QED BY <2>1
<1>3. \/ AcknowledgeData(l, bsn) = Fail(d, "AbnormalBsn")
      \/ AcknowledgeData(l, bsn) = seen
      \/ AcknowledgeData(l, bsn) = Release(fine, bsn)
    BY DEF AcknowledgeData
<1> HIDE DEF d, w
<1>4. seen \in Links /\ seen.out = d.out /\ seen.state = d.state
    <2>1. 2 \in 0 .. 2
        OBVIOUS
    <2> QED BY <1>1, <2>1 DEF Links
<1>5. fine \in Links /\ fine.out = l.out /\ fine.state = l.state
    BY <1>2 DEF Links
<1> HIDE DEF seen, fine
<1>6. Follows(l, Fail(d, "AbnormalBsn"))
    <2>1. "AbnormalBsn" \in Failure
        BY DEF Failure
    <2> QED BY <1>1, <2>1, FollowsFail, FollowsOn
<1>7. Follows(l, seen)
    <2>1. Follows(d, seen)
        BY <1>1, <1>4, FollowsQuietly DEF Down
    <2> QED BY <1>1, <2>1, FollowsOn
<1>8. Follows(l, Release(fine, bsn))
    <2>1. Follows(l, fine)
        BY <1>5, FollowsQuietly DEF Down
    <2> QED BY <1>5, <2>1, FollowsRelease, FollowsOn
<1> QED BY <1>3, <1>6, <1>7, <1>8

\* flush_ack.
LEMMA FollowsFlushAck ==
    ASSUME NEW l \in Links
    PROVE  Follows(l, FlushAck(l)) /\ FlushAck(l).state = l.state
<1> DEFINE m == [l EXCEPT !.ackDue = FALSE]
           a == DataAction(l, l.fsnOut, NoMsu)
<1>1. m \in Links /\ m.out = l.out /\ m.state = l.state
    BY DEF Links
<1>2. a \in Acts /\ a.action # "OutOfService"
    BY DEF DataAction, SendAction, Acts, Links, Status
<1>3. FlushAck(l) = m \/ FlushAck(l) = Push(m, a)
    BY DEF FlushAck
<1> HIDE DEF m, a
<1>4. Follows(l, m)
    BY <1>1, FollowsQuietly DEF Down
<1>5. Follows(l, Push(m, a)) /\ Push(m, a).state = l.state
    BY <1>1, <1>2, <1>4, FollowsPush, FollowsOn
<1> QED BY <1>1, <1>3, <1>4, <1>5

----------------------------------------------------------------------------
(* Events: a timer, a Link Status, a User Data message.                    *)

\* A deadline that is cleared.
LEMMA FollowsExpired ==
    ASSUME NEW l \in Links, NEW t
    PROVE  Follows(l, Expired(l, t)) /\ Expired(l, t).state = l.state
<1> DEFINE m == [l EXCEPT !.timers = l.timers \ {t}]
<1>1. m \in Links /\ m.out = l.out /\ m.state = l.state
    BY DEF Links
<1>2. Expired(l, t) = m
    BY DEF Expired
<1> HIDE DEF m
<1> QED BY <1>1, <1>2, FollowsQuietly DEF Down

\* on_timeout(T4): this end is proved.
LEMMA FollowsProved ==
    ASSUME NEW l \in Links, l.state = "Proving"
    PROVE  Follows(l, Timeout(l, "T4"))
<1> DEFINE m == [l EXCEPT !.timers = l.timers \ {"Proving"}]
           said == SendStatus(m, "Ready", StatusStream)
           ready == [said EXCEPT !.state = "AlignedReady", !.timers = said.timers \cup {"T1"}]
<1>1. m \in Links /\ m.out = l.out /\ m.state = l.state
    BY DEF Links
<1>2. Timeout(l, "T4") = IF l.peerReady THEN EnterService(said) ELSE ready
    BY DEF Timeout
<1> HIDE DEF m
<1>3. Follows(m, said) /\ said.state = m.state
    BY <1>1, FollowsSendStatus DEF Status
<1> HIDE DEF said
<1>4. Follows(l, said) /\ said \in Links /\ ~Down(said)
    <2>1. Follows(l, m)
        BY <1>1, FollowsQuietly DEF Down
    <2> QED BY <1>1, <1>3, <2>1, FollowsOn DEF Follows, Down
<1>5. ready \in Links /\ ready.out = said.out /\ ready.state = "AlignedReady"
    <2>1. "AlignedReady" \in State /\ said.timers \cup {"T1"} \in SUBSET Timer
        BY <1>4 DEF State, Timer, Links
    <2> QED BY <1>4, <2>1 DEF Links
<1> HIDE DEF ready
<1>6. Follows(said, ready)
    BY <1>4, <1>5, FollowsQuietly DEF Down
<1>7. Follows(l, ready) /\ Follows(l, EnterService(said))
    BY <1>4, <1>6, FollowsOn, FollowsEnterService
<1> QED BY <1>2, <1>7

\* on_timeout.
LEMMA FollowsTimeout ==
    ASSUME NEW l \in Links, NEW t \in Timer
    PROVE  Follows(l, Timeout(l, t))
<1> DEFINE proving == [l EXCEPT !.timers = l.timers \cup {"Proving"}]
           sends == SendStatus(proving, ProvingStatus, StatusStream)
<1>1. Follows(l, sends)
    <2>1. proving \in Links /\ proving.out = l.out /\ proving.state = l.state
        BY DEF Links, Timer
    <2>2. ProvingStatus \in Status /\ StatusStream \in {StatusStream, DataStream}
        BY DEF ProvingStatus, Status
    <2> HIDE DEF proving
    <2>3. Follows(l, proving)
        BY <2>1, FollowsQuietly DEF Down
    <2> QED BY <2>1, <2>2, <2>3, FollowsSendStatus, FollowsOn
<1>2. \A reason \in {"T1", "T2", "T3", "T6", "T7"} : Follows(l, Fail(l, reason))
    <2>1. \A reason \in {"T1", "T2", "T3", "T6", "T7"} : reason \in Failure
        BY DEF Failure
    <2> QED BY <2>1, FollowsFail
<1>3. t = "T4" /\ l.state = "Proving" => Follows(l, Timeout(l, t))
    BY FollowsProved
<1>4. ~(t = "T4" /\ l.state = "Proving") =>
        \/ \E reason \in {"T1", "T2", "T3", "T6", "T7"} : Timeout(l, t) = Fail(l, reason)
        \/ Timeout(l, t) = sends
        \/ Timeout(l, t) = ArmT7(l)
        \/ Timeout(l, t) = l
    BY DEF Timeout
<1> HIDE DEF sends
<1> QED BY <1>1, <1>2, <1>3, <1>4, FollowsItself, FollowsArmT7

\* A link that goes from one state of service to another without an action.
LEMMA FollowsMove ==
    ASSUME NEW l \in Links, ~Down(l), NEW s \in State, s # "OutOfService",
           NEW timers \in SUBSET Timer, NEW urgent \in BOOLEAN, NEW ready \in BOOLEAN
    PROVE  LET m == [l EXCEPT !.useEmergency = urgent, !.state = s, !.timers = timers,
                              !.peerReady = ready]
           IN  Follows(l, m) /\ m.state = s
<1> DEFINE m == [l EXCEPT !.useEmergency = urgent, !.state = s, !.timers = timers,
                          !.peerReady = ready]
<1>1. m \in Links /\ m.out = l.out /\ m.state = s
    BY DEF Links
<1> HIDE DEF m
<1>2. Follows(l, m) /\ m.state = s
    BY <1>1, FollowsQuietly DEF Down
<1> QED BY <1>2 DEF m

\* Figure 9, the states before in service.
LEMMA FollowsStatusNotAligned ==
    ASSUME NEW l \in Links, ~Down(l), NEW s \in Status
    PROVE  Follows(l, OnStatusNotAligned(l, s))
<1> DEFINE urgent == l.useEmergency \/ s = "ProvingEmergency"
           timers == (l.timers \ {"T2"}) \cup {"T3"}
           m == [l EXCEPT !.useEmergency = urgent, !.state = "Aligned", !.timers = timers,
                          !.peerReady = l.peerReady]
<1>1. urgent \in BOOLEAN /\ l.peerReady \in BOOLEAN
    BY DEF Links
<1>2. timers \in SUBSET Timer /\ "Aligned" \in State
    BY DEF Links, Timer, State
<1>3. \/ OnStatusNotAligned(l, s) = l
      \/ OnStatusNotAligned(l, s) = SendStatus(m, ProvingStatus, StatusStream)
    <2>1. m = [l EXCEPT !.useEmergency = urgent, !.state = "Aligned", !.timers = timers]
        BY DEF Links
    <2> HIDE DEF m
    <2> QED BY <2>1 DEF OnStatusNotAligned
<1> HIDE DEF urgent, timers
<1>4. Follows(l, m) /\ m \in Links
    <2>1. Follows(l, m)
        BY <1>1, <1>2, FollowsMove
    <2> QED BY <2>1 DEF Follows
<1> HIDE DEF m
<1>5. ProvingStatus \in Status /\ StatusStream \in {StatusStream, DataStream}
    BY DEF ProvingStatus, Status
<1> QED BY <1>3, <1>4, <1>5, FollowsItself, FollowsSendStatus, FollowsOn

\* The same for Aligned.
LEMMA FollowsStatusAligned ==
    ASSUME NEW l \in Links, ~Down(l), NEW s \in Status
    PROVE  Follows(l, OnStatusAligned(l, s))
<1> DEFINE urgent == l.useEmergency \/ s = "ProvingEmergency"
           timers == (l.timers \ {"T3"}) \cup {"T4", "Proving"}
           m == [l EXCEPT !.useEmergency = urgent, !.state = "Proving", !.timers = timers,
                          !.peerReady = l.peerReady]
<1>1. urgent \in BOOLEAN /\ l.peerReady \in BOOLEAN
    BY DEF Links
<1>2. timers \in SUBSET Timer /\ "Proving" \in State /\ "PeerStatus" \in Failure
    BY DEF Links, Timer, State, Failure
<1>3. OnStatusAligned(l, s) = l \/ OnStatusAligned(l, s) = m
      \/ OnStatusAligned(l, s) = Fail(l, "PeerStatus")
    <2>1. m = [l EXCEPT !.useEmergency = urgent, !.state = "Proving", !.timers = timers]
        BY DEF Links
    <2> HIDE DEF m
    <2> QED BY <2>1 DEF OnStatusAligned
<1> HIDE DEF urgent, timers
<1>4. Follows(l, m)
    BY <1>1, <1>2, FollowsMove
<1> HIDE DEF m
<1> QED BY <1>2, <1>3, <1>4, FollowsItself, FollowsFail

\* The same for Proving.
LEMMA FollowsStatusProving ==
    ASSUME NEW l \in Links, l.state = "Proving", NEW s \in Status
    PROVE  Follows(l, OnStatusProving(l, s))
<1> DEFINE Moved(st, urgent, timers, ready) ==
               [l EXCEPT !.useEmergency = urgent, !.state = st, !.timers = timers,
                         !.peerReady = ready]
           back == (l.timers \ {"T4", "Proving"}) \cup {"T3"}
           again == IF l.useEmergency THEN l.timers ELSE l.timers \cup {"T4"}
<1>1. l.useEmergency \in BOOLEAN /\ l.peerReady \in BOOLEAN /\ l.timers \in SUBSET Timer /\ ~Down(l)
    BY DEF Links, Down
<1>2. back \in SUBSET Timer /\ "Aligned" \in State /\ "Proving" \in State /\ "PeerStatus" \in Failure
    BY <1>1 DEF Timer, State, Failure
<1>3. again \in SUBSET Timer
    BY <1>1 DEF Timer
<1>4. /\ [l EXCEPT !.state = "Aligned", !.timers = back]
           = Moved("Aligned", l.useEmergency, back, l.peerReady)
      /\ [l EXCEPT !.useEmergency = TRUE, !.timers = again]
           = Moved("Proving", TRUE, again, l.peerReady)
      /\ [l EXCEPT !.peerReady = TRUE]
           = Moved("Proving", l.useEmergency, l.timers, TRUE)
    <2> HIDE DEF back, again
    <2> QED BY DEF Links
<1>5. \/ OnStatusProving(l, s) = l
      \/ OnStatusProving(l, s) = Fail(l, "PeerStatus")
      \/ OnStatusProving(l, s) = [l EXCEPT !.state = "Aligned", !.timers = back]
      \/ OnStatusProving(l, s) = [l EXCEPT !.useEmergency = TRUE, !.timers = again]
      \/ OnStatusProving(l, s) = [l EXCEPT !.peerReady = TRUE]
    BY DEF OnStatusProving
<1> HIDE DEF back, again
<1>6. /\ Follows(l, Moved("Aligned", l.useEmergency, back, l.peerReady))
      /\ Follows(l, Moved("Proving", TRUE, again, l.peerReady))
      /\ Follows(l, Moved("Proving", l.useEmergency, l.timers, TRUE))
    BY <1>1, <1>2, <1>3, FollowsMove
<1> HIDE DEF Moved
<1>7. /\ Follows(l, [l EXCEPT !.state = "Aligned", !.timers = back])
      /\ Follows(l, [l EXCEPT !.useEmergency = TRUE, !.timers = again])
      /\ Follows(l, [l EXCEPT !.peerReady = TRUE])
    BY <1>4, <1>6, Zenon
<1>8. Follows(l, Fail(l, "PeerStatus")) /\ Follows(l, l)
    BY <1>2, FollowsItself, FollowsFail
<1> QED BY <1>5, <1>7, <1>8, Zenon

\* begin_processor_outage.
LEMMA FollowsBeginOutage ==
    ASSUME NEW l \in Links, ~Down(l)
    PROVE  Follows(l, BeginOutage(l))
<1> DEFINE m == [l EXCEPT !.timers = l.timers \ {"T1", "T7"}, !.state = "ProcessorOutage"]
           a == [action |-> "RemoteProcessorOutage", on |-> TRUE]
<1>1. m \in Links /\ m.out = l.out /\ m.state = "ProcessorOutage"
    <2>1. "ProcessorOutage" \in State /\ l.timers \ {"T1", "T7"} \in SUBSET Timer
        BY DEF State, Links
    <2> QED BY <2>1 DEF Links
<1>2. a \in Acts /\ a.action # "OutOfService"
    BY DEF Acts
<1>3. BeginOutage(l) = Push(m, a)
    BY DEF BeginOutage
<1> HIDE DEF m, a
<1>4. Follows(l, m)
    BY <1>1, FollowsQuietly DEF Down
<1> QED BY <1>1, <1>2, <1>3, <1>4, FollowsPush, FollowsOn

\* The same for AlignedReady.
LEMMA FollowsStatusAlignedReady ==
    ASSUME NEW l \in Links, ~Down(l), NEW s \in Status
    PROVE  Follows(l, OnStatusAlignedReady(l, s))
<1> DEFINE said == SendStatus(l, "Ready", StatusStream)
<1>1. Follows(l, said) /\ said.state = l.state
    BY FollowsSendStatus DEF Status
<1>2. OnStatusAlignedReady(l, s) \in {EnterService(said), BeginOutage(l), Fail(l, "PeerStatus"), l}
    BY DEF OnStatusAlignedReady
<1> HIDE DEF said
<1>3. Follows(said, EnterService(said))
    BY <1>1, FollowsEnterService DEF Follows, Down
<1>4. Follows(l, EnterService(said))
    BY <1>1, <1>3, FollowsOn
<1>5. Follows(l, Fail(l, "PeerStatus")) /\ Follows(l, l) /\ Follows(l, BeginOutage(l))
    BY FollowsItself, FollowsFail, FollowsBeginOutage DEF Failure
<1> QED BY <1>2, <1>4, <1>5

\* on_status(Busy).
LEMMA FollowsBusy ==
    ASSUME NEW l \in Links
    PROVE  Follows(l, OnBusy(l))
<1> DEFINE timers == (l.timers \ {"T7"}) \cup (IF l.unacked = <<>> THEN {} ELSE {"T6"})
           m == [l EXCEPT !.remoteBusy = TRUE, !.timers = timers]
<1>1. timers \in SUBSET Timer
    BY DEF Links, Timer
<1>2. OnBusy(l) = l \/ OnBusy(l) = m
    BY DEF OnBusy
<1> HIDE DEF timers
<1>3. m \in Links /\ m.out = l.out /\ m.state = l.state
    BY <1>1 DEF Links
<1> HIDE DEF m
<1> QED BY <1>2, <1>3, FollowsItself, FollowsQuietly DEF Down

\* on_status(BusyEnded).
LEMMA FollowsBusyEnded ==
    ASSUME NEW l \in Links
    PROVE  Follows(l, OnBusyEnded(l))
<1> DEFINE free == [l EXCEPT !.remoteBusy = FALSE, !.timers = l.timers \ {"T6"}]
<1>1. free \in Links /\ free.out = l.out /\ free.state = l.state
    BY DEF Links
<1>2. OnBusyEnded(l) \in {l, free, FlushUnsent(RestartT7(free))}
    BY DEF OnBusyEnded
<1> HIDE DEF free
<1>3. Follows(l, free)
    BY <1>1, FollowsQuietly DEF Down
<1>4. Follows(l, RestartT7(free)) /\ RestartT7(free) \in Links
    BY <1>1, <1>3, FollowsRestartT7, FollowsOn DEF Follows
<1>5. Follows(l, FlushUnsent(RestartT7(free)))
    BY <1>4, FollowsFlushUnsent, FollowsOn
<1> QED BY <1>2, <1>3, <1>5, FollowsItself

\* on_status(ProcessorRecovered).
LEMMA FollowsRecovered ==
    ASSUME NEW l \in Links, ~Down(l), NEW bsn \in Nat
    PROVE  Follows(l, OnRecovered(l, bsn))
<1> DEFINE a     == AcknowledgeStatus(l, bsn)
           gone  == Discarded(a, "TxFlushedByPeer", Len(a.unacked))
           none  == <<>>
           clear == [gone EXCEPT !.unacked = none, !.fsnOut = a.acked, !.state = "InService"]
           ready == SendStatus(clear, "Ready", DataStream)
           over  == [action |-> "RemoteProcessorOutage", on |-> FALSE]
           ended == Push(ready, over)
<1>1. OnRecovered(l, bsn) \in {ended, FlushUnsent(ended)}
    BY DEF OnRecovered
<1>2. Follows(l, a) /\ a \in Links /\ a.state = l.state
    BY FollowsAcknowledgeStatus DEF Follows
<1>3. over \in Acts /\ over.action # "OutOfService"
    BY DEF Acts
<1>4. none \in Seq(Sents)
    OBVIOUS
<1> HIDE DEF a, none, over
<1>5. Len(a.unacked) \in Nat /\ a.acked \in Nat
    BY <1>2 DEF Links
<1>6. Follows(l, gone) /\ gone \in Links /\ gone.state = l.state
    <2>1. "TxFlushedByPeer" \in Discard
        BY DEF Discard
    <2>2. Follows(a, gone) /\ gone.state = a.state
        BY <1>2, <1>5, <2>1, FollowsDiscarded
    <2> HIDE DEF gone
    <2> QED BY <1>2, <2>2, FollowsOn DEF Follows
<1> HIDE DEF gone
<1>7. clear \in Links /\ clear.out = gone.out /\ clear.state = "InService"
    <2>1. "InService" \in State
        BY DEF State
    <2> QED BY <1>4, <1>5, <1>6, <2>1 DEF Links
<1> HIDE DEF clear
<1>8. Follows(l, clear)
    BY <1>6, <1>7, FollowsQuietly, FollowsOn DEF Down
<1>9. Follows(l, ready) /\ ready \in Links
    <2>1. Follows(clear, ready)
        BY <1>7, FollowsSendStatus DEF Status
    <2> HIDE DEF ready
    <2> QED BY <1>8, <2>1, FollowsOn DEF Follows
<1> HIDE DEF ready
<1>10. Follows(l, ended) /\ ended \in Links
    <2>1. Follows(ready, ended)
        BY <1>3, <1>9, FollowsPush
    <2> HIDE DEF ended
    <2> QED BY <1>9, <2>1, FollowsOn DEF Follows
<1> HIDE DEF ended
<1>11. Follows(l, FlushUnsent(ended))
    BY <1>10, FollowsFlushUnsent, FollowsOn
<1> QED BY <1>1, <1>10, <1>11

\* on_status, in every state.
LEMMA FollowsStatus ==
    ASSUME NEW l \in Links, NEW s \in Status, NEW bsn \in Nat
    PROVE  Follows(l, OnStatus(l, s, bsn))
<1>1. ASSUME ~Down(l) PROVE Follows(l, OnStatusInService(l, s, bsn))
    <2>1. OnStatusInService(l, s, bsn) \in
              {Fail(l, "PeerStatus"), OnBusy(l), OnBusyEnded(l), AcknowledgeStatus(l, bsn),
               BeginOutage(l), OnRecovered(l, bsn), l}
        BY DEF OnStatusInService
    <2>2. "PeerStatus" \in Failure
        BY DEF Failure
    <2> QED BY <1>1, <2>1, <2>2, FollowsFail, FollowsBusy, FollowsBusyEnded, FollowsAcknowledgeStatus,
            FollowsBeginOutage, FollowsRecovered, FollowsItself
<1>2. CASE l.state = "OutOfService"
    <2>1. OnStatus(l, s, bsn) = l
        BY <1>2 DEF OnStatus, IsAligned
    <2> QED BY <1>2, <2>1, FollowsItself DEF Down
<1>3. CASE l.state = "NotAligned"
    <2>1. OnStatus(l, s, bsn) = OnStatusNotAligned(l, s)
        BY <1>3 DEF OnStatus, IsAligned
    <2> QED BY <1>3, <2>1, FollowsStatusNotAligned DEF Down
<1>4. CASE l.state = "Aligned"
    <2>1. OnStatus(l, s, bsn) = OnStatusAligned(l, s)
        BY <1>4 DEF OnStatus, IsAligned
    <2> QED BY <1>4, <2>1, FollowsStatusAligned DEF Down
<1>5. CASE l.state = "Proving"
    <2>1. OnStatus(l, s, bsn) = OnStatusProving(l, s)
        BY <1>5 DEF OnStatus, IsAligned
    <2> QED BY <1>5, <2>1, FollowsStatusProving DEF Down
<1>6. CASE l.state = "AlignedReady"
    <2>1. OnStatus(l, s, bsn) = OnStatusAlignedReady(l, s)
        BY <1>6 DEF OnStatus, IsAligned
    <2> QED BY <1>6, <2>1, FollowsStatusAlignedReady DEF Down
<1>7. CASE IsAligned(l)
    BY <1>1, <1>7 DEF OnStatus, Down, IsAligned
<1>8. l.state \in State
    BY DEF Links
<1> QED BY <1>2, <1>3, <1>4, <1>5, <1>6, <1>7, <1>8 DEF State, IsAligned

\* on_data, once the link is in service.
LEMMA FollowsAccept ==
    ASSUME NEW l \in Links, ~Down(l), NEW bsn \in Nat, NEW fsn \in Nat, NEW msu \in Msu \cup {NoMsu}
    PROVE  Follows(l, Accept(l, bsn, fsn, msu))
<1> DEFINE a == AcknowledgeData(l, bsn)
           in == [a EXCEPT !.fsnIn = fsn, !.ackDue = TRUE]
           d == [action |-> "Deliver", msu |-> msu]
<1>1. Follows(l, a) /\ a \in Links
    BY FollowsAcknowledgeData DEF Follows
<1>2. \/ Accept(l, bsn, fsn, msu) \in {a, Discarded(a, "RxOutOfSequence", 1)}
      \/ msu # NoMsu /\ Accept(l, bsn, fsn, msu) = Push(in, d)
    BY DEF Accept, Deliver
<1> HIDE DEF a
<1>3. in \in Links /\ in.out = a.out /\ in.state = a.state
    BY <1>1 DEF Links
<1> HIDE DEF in
<1>4. Follows(l, in)
    BY <1>1, <1>3, FollowsQuietly, FollowsOn DEF Down
<1>5. ASSUME msu # NoMsu PROVE Follows(l, Push(in, d))
    <2>1. d \in Acts /\ d.action # "OutOfService"
        BY <1>5 DEF Acts
    <2> HIDE DEF d
    <2> QED BY <1>3, <1>4, <2>1, FollowsPush, FollowsOn
<1>6. Follows(l, Discarded(a, "RxOutOfSequence", 1))
    <2>1. "RxOutOfSequence" \in Discard /\ 1 \in Nat
        BY DEF Discard
    <2> QED BY <1>1, <2>1, FollowsDiscarded, FollowsOn
<1> HIDE DEF d
<1> QED BY <1>1, <1>2, <1>5, <1>6

\* on_data, in every state.
LEMMA FollowsData ==
    ASSUME NEW l \in Links, NEW bsn \in Nat, NEW fsn \in Nat, NEW msu \in Msu \cup {NoMsu}
    PROVE  Follows(l, OnData(l, bsn, fsn, msu))
<1>1. CASE l.state = "AlignedReady"
    <2>1. Follows(l, EnterService(l)) /\ EnterService(l) \in Links /\ ~Down(EnterService(l))
        BY <1>1, FollowsEnterService DEF Follows, Down
    <2>2. Follows(EnterService(l), Accept(EnterService(l), bsn, fsn, msu))
        BY <2>1, FollowsAccept
    <2>3. OnData(l, bsn, fsn, msu) = Accept(EnterService(l), bsn, fsn, msu)
        BY <1>1 DEF OnData, IsAligned
    <2> QED BY <2>1, <2>2, <2>3, FollowsOn
<1>2. CASE IsAligned(l)
    <2>1. ~Down(l) /\ l.state # "AlignedReady"
        BY <1>2 DEF IsAligned, Down
    <2> QED BY <1>2, <2>1, FollowsAccept DEF OnData
<1>3. CASE l.state # "AlignedReady" /\ ~IsAligned(l)
    <2>1. OnData(l, bsn, fsn, msu) \in {l, Discarded(l, "RxNotInService", 1)}
        BY <1>3 DEF OnData
    <2>2. "RxNotInService" \in Discard /\ 1 \in Nat
        BY DEF Discard
    <2> QED BY <2>1, <2>2, FollowsDiscarded, FollowsItself
<1> QED BY <1>1, <1>2, <1>3

----------------------------------------------------------------------------
(* The signalling link test.                                               *)

TestActs == {"SendTest", "AttemptFailed", "Failed", "Available"}

\* A test that passed is not idle.
Tests ==
    {t \in [state : TestState, available : BOOLEAN, timers : SUBSET TestTimer, out : Seq(TestActs)] :
         t.available => t.state # "Idle"}



\* An action of the test.
LEMMA TestPushes ==
    ASSUME NEW t \in Tests, NEW a \in TestActs
    PROVE  TestPush(t, a) \in Tests
<1> DEFINE out == Append(t.out, a)
<1>1. out \in Seq(TestActs)
    BY DEF Tests
<1>2. TestPush(t, a) = [t EXCEPT !.out = out]
    BY DEF TestPush
<1> HIDE DEF out
<1> QED BY <1>1, <1>2 DEF Tests

\* begin.
LEMMA BeginType ==
    ASSUME NEW t \in Tests
    PROVE  Begin(t) \in Tests
<1> DEFINE m == [t EXCEPT !.available = FALSE, !.state = "First", !.timers = {"T1"}]
<1>1. m \in Tests
    BY DEF Tests, TestState, TestTimer
<1>2. Begin(t) = TestPush(m, "SendTest")
    BY DEF Begin
<1> HIDE DEF m
<1> QED BY <1>1, <1>2, TestPushes DEF TestActs

\* stop: the test asks for nothing.
LEMMA StopType ==
    ASSUME NEW t \in Tests
    PROVE  StopTest(t) \in Tests /\ StopTest(t).out = t.out
<1> DEFINE timers == IF t.state # "Idle" THEN {} ELSE t.timers
           m == [t EXCEPT !.state = "Idle", !.available = FALSE, !.timers = timers]
<1>1. timers \in SUBSET TestTimer
    BY DEF Tests
<1>2. StopTest(t) = m
    BY DEF StopTest
<1> HIDE DEF timers
<1>3. m \in Tests /\ m.out = t.out
    BY <1>1 DEF Tests, TestState
<1> QED BY <1>2, <1>3

\* attempt_failed.
LEMMA AttemptFailedType ==
    ASSUME NEW t \in Tests
    PROVE  AttemptFailed(t) \in Tests
<1> DEFINE c == TestPush(t, "AttemptFailed")
           second == [c EXCEPT !.state = "Second", !.timers = c.timers \cup {"T1"}]
           idle == [c EXCEPT !.state = "Idle", !.available = FALSE, !.timers = c.timers \ {"T1"}]
<1>1. c \in Tests
    BY TestPushes DEF TestActs
<1>2. AttemptFailed(t) \in {TestPush(second, "SendTest"), TestPush(idle, "Failed")}
    BY DEF AttemptFailed
<1> HIDE DEF c
<1>3. second \in Tests /\ idle \in Tests
    <2>1. c.timers \cup {"T1"} \in SUBSET TestTimer /\ c.timers \ {"T1"} \in SUBSET TestTimer
        BY <1>1 DEF Tests, TestTimer
    <2> QED BY <1>1, <2>1 DEF Tests, TestState
<1> HIDE DEF second, idle
<1> QED BY <1>2, <1>3, TestPushes DEF TestActs

\* acknowledged.
LEMMA AcknowledgedType ==
    ASSUME NEW t \in Tests, NEW correct \in BOOLEAN
    PROVE  Acknowledged(t, correct) \in Tests
<1> DEFINE m == [t EXCEPT !.state = "Passed", !.available = TRUE,
                          !.timers = (t.timers \ {"T1"}) \cup {"T2"}]
<1>1. m \in Tests
    <2>1. (t.timers \ {"T1"}) \cup {"T2"} \in SUBSET TestTimer
        BY DEF Tests, TestTimer
    <2> QED BY <2>1 DEF Tests, TestState
<1>2. Acknowledged(t, correct) \in {t, AttemptFailed(t), m, TestPush(m, "Available")}
    BY DEF Acknowledged
<1> HIDE DEF m
<1> QED BY <1>1, <1>2, AttemptFailedType, TestPushes DEF TestActs

\* on_timeout of the test, whose deadline is cleared.
LEMMA TestTimeoutType ==
    ASSUME NEW t \in Tests, NEW timer
    PROVE  TestTimeout(TestExpired(t, timer), timer) \in Tests
<1> DEFINE e == TestExpired(t, timer)
           m == [e EXCEPT !.state = "First", !.timers = e.timers \cup {"T1"}]
<1>1. e \in Tests
    BY DEF TestExpired, Tests
<1>2. TestTimeout(e, timer) \in {AttemptFailed(e), TestPush(m, "SendTest"), e}
    BY DEF TestTimeout
<1> HIDE DEF e
<1>3. m \in Tests
    <2>1. e.timers \cup {"T1"} \in SUBSET TestTimer
        BY <1>1 DEF Tests, TestTimer
    <2> QED BY <1>1, <2>1 DEF Tests, TestState
<1> HIDE DEF m
<1>4. TestTimeout(e, timer) \in Tests
    BY <1>1, <1>2, <1>3, AttemptFailedType, TestPushes DEF TestActs
<1> QED BY <1>4 DEF e

\* A test that has not begun.
LEMMA NewTestType == NewTest \in Tests /\ NewTest.out = <<>>
<1> DEFINE none == <<>>
<1>1. none \in Seq(TestActs)
    OBVIOUS
<1>2. NewTest = [state |-> "Idle", available |-> FALSE, timers |-> {}, out |-> none]
    BY DEF NewTest
<1> HIDE DEF none
<1>3. NewTest \in Tests /\ NewTest.out = none
    BY <1>1, <1>2 DEF Tests, TestState
<1> QED BY <1>3 DEF none

----------------------------------------------------------------------------
(* The runner.                                                             *)

Fields == {"tests", "attached", "link", "test", "traffic", "restart", "available", "counted",
           "rerouted", "confirmed", "delivered", "abandoned", "told"}

Traffics == [state : TrafficState, held : Seq(Msu), kept : Lefts]

\* A runner between two calls: what its test asked for is done.
IsRunner(r) ==
    /\ DOMAIN r = Fields
    /\ r.tests = HasTest
    /\ r.attached \in BOOLEAN
    /\ r.link \in Links
    /\ r.test \in Tests /\ r.test.out = <<>>
    /\ r.traffic \in Traffics
    /\ r.restart \in BOOLEAN
    /\ r.available \in BOOLEAN

\* From r to s the link does not come back, and what its going leads to is
\* still to be done.
Carries(r, s) ==
    /\ IsRunner(s)
    /\ s.attached = r.attached
    /\ s.restart = r.restart
    /\ Follows(r.link, s.link)

\* One call after another.
LEMMA CarriesOn ==
    ASSUME NEW r, NEW s, NEW t, Carries(r, s), Carries(s, t)
    PROVE  Carries(r, t)
BY FollowsOn DEF Carries

\* A runner that did nothing.
LEMMA CarriesItself ==
    ASSUME NEW r, IsRunner(r)
    PROVE  Carries(r, r)
BY FollowsItself DEF Carries, IsRunner

\* A call of a method of the link.
LEMMA CarriesLink ==
    ASSUME NEW r, IsRunner(r), NEW l, Follows(r.link, l)
    PROVE  Carries(r, [r EXCEPT !.link = l])
<1>1. l \in Links
    BY DEF Follows
<1> QED BY <1>1 DEF Carries, IsRunner, Fields

\* apply_test.
LEMMA CarriesTest ==
    ASSUME NEW r, IsRunner(r), NEW t \in Tests
    PROVE  /\ Carries(r, ApplyTest(r, t))
           /\ t.out = <<>> => ApplyTest(r, t).link = r.link
<1> DEFINE Asks(a) == \E i \in 1 .. Len(t.out) : t.out[i] = a
           sent == IF Asks("SendTest") THEN Send(r.link, Sltm) ELSE r.link
           last == IF Asks("Failed") THEN Fail(sent, "LinkTest") ELSE sent
           none == <<>>
           quiet == [t EXCEPT !.out = none]
<1>1. Follows(r.link, sent) /\ sent \in Links
    <2>1. r.link \in Links /\ Sltm \in Msu
        BY LinkTestsAssumption DEF IsRunner
    <2> HIDE DEF Asks
    <2>2. Follows(r.link, sent)
        BY <2>1, FollowsSend, FollowsItself
    <2> QED BY <2>2 DEF Follows
<1>2. Follows(r.link, last) /\ last \in Links
    <2>1. "LinkTest" \in Failure
        BY DEF Failure
    <2> HIDE DEF Asks, sent
    <2>2. Follows(r.link, last)
        BY <1>1, <2>1, FollowsFail, FollowsOn
    <2> QED BY <2>2 DEF Follows
<1>3. quiet \in Tests /\ quiet.out = none
    <2>1. none \in Seq(TestActs)
        OBVIOUS
    <2> HIDE DEF none
    <2> QED BY <2>1 DEF Tests
<1>4. t.out = <<>> => last = r.link
    OBVIOUS
<1>5. ApplyTest(r, t) = [r EXCEPT !.test = quiet, !.link = last]
    BY DEF ApplyTest
<1> HIDE DEF last, quiet
<1>6. /\ DOMAIN ApplyTest(r, t) = Fields
      /\ ApplyTest(r, t).link = last /\ ApplyTest(r, t).test = quiet
      /\ ApplyTest(r, t).tests = r.tests /\ ApplyTest(r, t).attached = r.attached
      /\ ApplyTest(r, t).traffic = r.traffic /\ ApplyTest(r, t).restart = r.restart
      /\ ApplyTest(r, t).available = r.available
    BY <1>5 DEF IsRunner, Fields
<1> QED BY <1>2, <1>3, <1>4, <1>6 DEF Carries, IsRunner

\* apply_one(InService).
LEMMA CarriesInService ==
    ASSUME NEW r, IsRunner(r)
    PROVE  Carries(r, OnInService(r))
<1>1. OnInService(r) = r \/ OnInService(r) = ApplyTest(r, Begin(r.test))
    BY DEF OnInService
<1>2. Begin(r.test) \in Tests
    BY BeginType DEF IsRunner
<1> QED BY <1>1, <1>2, CarriesItself, CarriesTest

\* apply_one(Deliver).
LEMMA CarriesDeliver ==
    ASSUME NEW r, IsRunner(r)
    PROVE  Carries(r, OnDeliver(r))
<1> DEFINE at == CHOOSE i \in 1 .. Len(r.link.out) : r.link.out[i].action = "Deliver"
           m == r.link.out[at].msu
           correct == m = Slta
           answered == [r EXCEPT !.link = Send(r.link, Slta)]
           heard == [r EXCEPT !.delivered = Append(r.delivered, m)]
<1>1. \/ OnDeliver(r) = r
      \/ OnDeliver(r) = answered
      \/ OnDeliver(r) = ApplyTest(r, Acknowledged(r.test, correct))
      \/ OnDeliver(r) = heard
    <2> DEFINE waits == r.tests /\ IsWaiting(r.test)
    <2>1. OnDeliver(r) =
              IF ~Emitted(r, "Deliver") THEN r
              ELSE CASE m = Sltm -> answered
                     [] m \in {Slta, BadSlta} /\ r.tests /\ IsWaiting(r.test) ->
                           ApplyTest(r, Acknowledged(r.test, correct))
                     [] m \in {Slta, BadSlta} /\ ~waits -> r
                     [] OTHER -> heard
        BY DEF OnDeliver
    <2> HIDE DEF at, m, correct, answered, heard
    <2> QED BY <2>1
<1>2. correct \in BOOLEAN
    OBVIOUS
<1> HIDE DEF at, m, correct
<1>3. Carries(r, answered)
    <2>1. r.link \in Links /\ Slta \in Msu
        BY LinkTestsAssumption DEF IsRunner
    <2>2. Follows(r.link, Send(r.link, Slta))
        BY <2>1, FollowsSend
    <2> QED BY <2>2, CarriesLink
<1>4. Carries(r, heard)
    <2>1. heard.link = r.link /\ Follows(r.link, r.link)
        BY FollowsItself DEF IsRunner, Fields
    <2> QED BY <2>1 DEF Carries, IsRunner, Fields
<1>5. Carries(r, ApplyTest(r, Acknowledged(r.test, correct)))
    <2>1. Acknowledged(r.test, correct) \in Tests
        BY <1>2, AcknowledgedType DEF IsRunner
    <2> QED BY <2>1, CarriesTest
<1> HIDE DEF answered, heard
<1> QED BY <1>1, <1>3, <1>4, <1>5, CarriesItself

\* apply_one(OutOfService): T17 is started.
LEMMA OutOfServiceRestarts ==
    ASSUME NEW r, IsRunner(r)
    PROVE  /\ IsRunner(OnOutOfService(r))
           /\ OnOutOfService(r).attached = r.attached
           /\ OnOutOfService(r).link = r.link
           /\ OnOutOfService(r).restart <=> r.restart \/ Gone(r.link)
<1>1. Emitted(r, "OutOfService") <=> Gone(r.link)
    BY DEF Emitted, Gone
<1>2. CASE ~Gone(r.link)
    <2>1. OnOutOfService(r) = r
        BY <1>1, <1>2 DEF OnOutOfService
    <2> QED BY <1>2, <2>1
<1>3. CASE Gone(r.link)
    <2> DEFINE t == IF r.tests THEN StopTest(r.test) ELSE r.test
               a == ApplyTest(r, t)
               s == [a EXCEPT !.restart = TRUE]
    <2>1. t \in Tests /\ t.out = <<>>
        BY StopType DEF IsRunner
    <2>2. OnOutOfService(r) = s
        BY <1>1, <1>3 DEF OnOutOfService
    <2> HIDE DEF t
    <2>3. Carries(r, a) /\ a.link = r.link
        BY <2>1, CarriesTest
    <2> HIDE DEF a
    <2>4. IsRunner(s) /\ s.attached = r.attached /\ s.link = r.link /\ s.restart = TRUE
        BY <2>3 DEF Carries, IsRunner, Fields
    <2> QED BY <1>3, <2>2, <2>4
<1> QED BY <1>2, <1>3

\* What a failed link leaves is kept beside what is held.
LEMMA FailedType ==
    ASSUME NEW t \in Traffics, NEW left \in Lefts
    PROVE  Failed(t, left).traffic \in Traffics
<1> DEFINE state == IF t.state = "Open" THEN "Hold" ELSE t.state
           holding == [t EXCEPT !.state = state]
           keeping == [holding EXCEPT !.kept = left]
<1>1. state \in TrafficState
    BY DEF Traffics, TrafficState
<1>2. Failed(t, left).traffic \in {holding, keeping}
    BY DEF Failed
<1> HIDE DEF state
<1> QED BY <1>1, <1>2 DEF Traffics

\* A link is available: what level 3 may know of it.
Usable(r, lost) ==
    /\ r.link.state = "InService"
    /\ HasTest => r.test.available
    /\ ~lost

\* refresh_availability.
LEMMA RefreshTells ==
    ASSUME NEW r, IsRunner(r), NEW lost \in BOOLEAN
    PROVE  LET s == Refresh(r, lost)
           IN  /\ Carries(r, s)
               /\ s.link.state = r.link.state
               /\ s.available <=> Usable(s, lost)
<1> DEFINE now == r.link.state = "InService" /\ (r.tests => r.test.available) /\ ~lost
           f == Failed(r.traffic, r.link.retrievable)
           up == [event |-> "LinkUp"]
           down == [event |-> "LinkDown", bsnt |-> Bsnt(r.link)]
           detached == [r.link EXCEPT !.retrievable = NothingRetrievable]
           rises == [r EXCEPT !.available = TRUE, !.told = Append(r.told, up)]
           falls == [r EXCEPT !.available = FALSE, !.link = detached, !.traffic = f.traffic,
                              !.counted = r.counted + f.lost, !.told = Append(r.told, down)]
           s == Refresh(r, lost)
<1>0. now \in BOOLEAN /\ r.available \in BOOLEAN /\ (now <=> Usable(r, lost))
    BY DEF IsRunner, Usable
<1>1. /\ now = r.available => s = r
      /\ now /\ ~r.available => s = rises
      /\ ~now /\ r.available => s = falls
    BY <1>0 DEF Refresh, Detach
<1>2. detached \in Links /\ detached.out = r.link.out /\ detached.state = r.link.state
    BY NothingLeft DEF IsRunner, Links
<1>3. f.traffic \in Traffics
    BY FailedType DEF IsRunner, Links
<1>4. Follows(r.link, r.link) /\ Follows(r.link, detached)
    BY <1>2, FollowsItself, FollowsQuietly DEF IsRunner, Down
<1> HIDE DEF f, up, down, detached
<1>5. CASE now = r.available
    <2> HIDE DEF now
    <2> QED BY <1>0, <1>1, <1>5, CarriesItself
<1>6. CASE now /\ ~r.available
    <2>1. Carries(r, rises) /\ rises.link = r.link /\ rises.test = r.test /\ rises.available = TRUE
        BY <1>4 DEF Carries, IsRunner, Fields
    <2> HIDE DEF now, rises
    <2>2. s = rises
        BY <1>1, <1>6
    <2> QED BY <1>0, <1>6, <2>1, <2>2 DEF Usable
<1>7. CASE ~now /\ r.available
    <2>1. Carries(r, falls) /\ falls.link = detached /\ falls.test = r.test /\ falls.available = FALSE
        BY <1>2, <1>3, <1>4 DEF Carries, IsRunner, Fields
    <2> HIDE DEF now, falls
    <2>2. s = falls
        BY <1>1, <1>7
    <2> QED BY <1>0, <1>2, <1>7, <2>1, <2>2 DEF Usable
<1> HIDE DEF now
<1> QED BY <1>0, <1>5, <1>6, <1>7

\* apply: a link that went is restarted later, and level 3 knows.
LEMMA ApplyTells ==
    ASSUME NEW r, IsRunner(r), NEW lost \in BOOLEAN
    PROVE  LET s == Apply(r, lost)
           IN  /\ IsRunner(s)
               /\ s.attached = r.attached
               /\ Follows(r.link, s.link)
               /\ s.restart <=> r.restart \/ Gone(s.link)
               /\ s.available <=> Usable(s, lost)
<1> DEFINE a == OnInService(r)
           b == OnDeliver(a)
           c == OnOutOfService(b)
           flushed == FlushAck(c.link)
           d == [c EXCEPT !.link = flushed, !.counted = c.counted + CountOf(c.link.out)]
           s == Refresh(d, lost)
<1>0. Apply(r, lost) = s
    BY DEF Apply
<1>1. Carries(r, a) /\ IsRunner(a)
    <2>1. Carries(r, a)
        BY CarriesInService
    <2> QED BY <2>1 DEF Carries
<1> HIDE DEF a
<1>2. Carries(r, b) /\ IsRunner(b)
    <2>1. Carries(a, b)
        BY <1>1, CarriesDeliver
    <2> HIDE DEF b
    <2> QED BY <1>1, <2>1, CarriesOn DEF Carries
<1> HIDE DEF b
<1>3. /\ IsRunner(c) /\ c.attached = r.attached /\ Follows(r.link, c.link)
      /\ c.restart <=> r.restart \/ Gone(c.link)
    <2>1. IsRunner(c) /\ c.attached = b.attached /\ c.link = b.link
          /\ (c.restart <=> b.restart \/ Gone(b.link))
        BY <1>2, OutOfServiceRestarts
    <2> HIDE DEF c
    <2> QED BY <1>2, <2>1 DEF Carries
<1> HIDE DEF c
<1>4. Follows(c.link, flushed) /\ flushed.state = c.link.state /\ flushed \in Links
    <2>1. c.link \in Links
        BY <1>3 DEF IsRunner
    <2>2. Follows(c.link, flushed) /\ flushed.state = c.link.state
        BY <2>1, FollowsFlushAck
    <2> HIDE DEF flushed
    <2> QED BY <2>2 DEF Follows
<1> HIDE DEF flushed
<1>5. IsRunner(d) /\ d.attached = r.attached /\ d.link = flushed /\ d.restart = c.restart
    BY <1>3, <1>4 DEF IsRunner, Fields
<1> HIDE DEF d
<1>6. Gone(flushed) <=> Gone(c.link)
    BY <1>4 DEF Follows, Down
<1>7. Carries(d, s) /\ s.link.state = d.link.state /\ (s.available <=> Usable(s, lost))
    BY <1>5, RefreshTells
<1> HIDE DEF s
<1>8. Gone(s.link) <=> Gone(d.link)
    BY <1>7 DEF Carries, Follows, Down
<1>9. Follows(r.link, s.link)
    <2>1. Follows(c.link, s.link)
        BY <1>4, <1>5, <1>7, FollowsOn DEF Carries
    <2> QED BY <1>3, <2>1, FollowsOn
<1>10. s.restart <=> r.restart \/ Gone(s.link)
    BY <1>3, <1>5, <1>6, <1>7, <1>8 DEF Carries
<1>11. IsRunner(s) /\ s.attached = r.attached
    BY <1>5, <1>7 DEF Carries
<1> QED BY <1>0, <1>7, <1>9, <1>10, <1>11

----------------------------------------------------------------------------
(* The invariant.                                                          *)

\* RestartIsPending and AvailableIsTrue, of a runner.
Pends(r) == r.restart <=> r.attached /\ Down(r.link)

Tells(r) == r.available <=> r.attached /\ Usable(r, FALSE)

\* A link that no association serves is out of service.
Rests(r) == ~r.attached => Down(r.link)

RunnerInv(r) == IsRunner(r) /\ Pends(r) /\ Tells(r) /\ Rests(r)

\* The runner at the start of an event.
Starting(r) == RunnerInv(r) /\ ~Gone(r.link)

\* The same with the vector of actions emptied.
LEMMA NowStarts ==
    ASSUME RunnerInv(runner)
    PROVE  /\ Starting(Now)
           /\ Now.attached = runner.attached /\ Now.restart = runner.restart
           /\ Now.traffic = runner.traffic
<1> DEFINE none == <<>>
           l == [runner.link EXCEPT !.out = none]
           r == [runner EXCEPT !.link = l, !.counted = 0, !.rerouted = <<>>, !.confirmed = 0,
                               !.delivered = <<>>, !.abandoned = <<>>, !.told = <<>>]
<1>1. none \in Seq(Acts) /\ Len(none) = 0
    OBVIOUS
<1>2. Now = r
    BY DEF Now, Clean
<1> HIDE DEF none
<1>3. l \in Links /\ l.out = none /\ l.state = runner.link.state
    BY <1>1 DEF RunnerInv, IsRunner, Links
<1> HIDE DEF l
<1>4. /\ IsRunner(r) /\ r.link = l /\ r.test = runner.test /\ r.attached = runner.attached
      /\ r.restart = runner.restart /\ r.available = runner.available
      /\ r.traffic = runner.traffic
    BY <1>3 DEF RunnerInv, IsRunner, Fields
<1> HIDE DEF r
<1>5. ~Gone(l)
    BY <1>1, <1>3 DEF Gone
<1> QED BY <1>2, <1>3, <1>4, <1>5 DEF Starting, RunnerInv, Pends, Tells, Rests, Usable, Down

\* What an event does outside the runner is no part of it.
LEMMA BecomesInv ==
    ASSUME NEW r, RunnerInv(r), Becomes(r)
    PROVE  RunnerInv(runner')
<1> DEFINE none == <<>>
           l == [r.link EXCEPT !.out = none]
           s == [r EXCEPT !.link = l, !.told = <<>>, !.delivered = <<>>, !.abandoned = <<>>]
<1>1. none \in Seq(Acts)
    OBVIOUS
<1>2. runner' = s
    BY DEF Becomes
<1> HIDE DEF none
<1>3. l \in Links /\ l.state = r.link.state
    BY <1>1 DEF RunnerInv, IsRunner, Links
<1> HIDE DEF l
<1>4. /\ IsRunner(s) /\ s.link = l /\ s.test = r.test /\ s.attached = r.attached
      /\ s.restart = r.restart /\ s.available = r.available
    BY <1>3 DEF RunnerInv, IsRunner, Fields
<1> HIDE DEF s
<1> QED BY <1>2, <1>3, <1>4 DEF RunnerInv, Pends, Tells, Rests, Usable, Down

\* apply, for a link with an association: whatever went is restarted later.
LEMMA EndsWithApply ==
    ASSUME NEW s, IsRunner(s), s.attached, s.restart \/ Gone(s.link) <=> Down(s.link)
    PROVE  RunnerInv(Apply(s, FALSE))
<1> DEFINE t == Apply(s, FALSE)
<1>1. /\ IsRunner(t) /\ t.attached = s.attached /\ Follows(s.link, t.link)
      /\ t.restart <=> s.restart \/ Gone(t.link)
      /\ t.available <=> Usable(t, FALSE)
    BY ApplyTells
<1> HIDE DEF t
<1>2. t.restart <=> Down(t.link)
    BY <1>1 DEF Follows
<1>3. RunnerInv(t)
    BY <1>1, <1>2 DEF RunnerInv, Pends, Tells, Rests
<1> QED BY <1>3 DEF t

\* An event; one that finds no association finds a link that is down.
LEMMA EventInv ==
    ASSUME NEW r, Starting(r), NEW s, Carries(r, s)
    PROVE  RunnerInv(Apply(s, FALSE))
<1>1. CASE r.attached
    <2>1. s.restart \/ Gone(s.link) <=> Down(s.link)
        BY <1>1 DEF Starting, RunnerInv, Pends, Carries, Follows
    <2> QED BY <1>1, <2>1, EndsWithApply DEF Carries
<1>2. CASE ~r.attached
    <2> DEFINE t == Apply(s, FALSE)
    <2>1. /\ IsRunner(t) /\ t.attached = s.attached /\ Follows(s.link, t.link)
          /\ t.restart <=> s.restart \/ Gone(t.link)
          /\ t.available <=> Usable(t, FALSE)
        BY ApplyTells DEF Carries
    <2> HIDE DEF t
    <2>2. Follows(r.link, t.link) /\ ~t.attached /\ ~s.restart
        BY <1>2, <2>1, FollowsOn DEF Carries, Starting, RunnerInv, Pends
    <2>3. Down(t.link) /\ ~Gone(t.link)
        BY <1>2, <2>2 DEF Starting, RunnerInv, Rests, Follows
    <2>4. RunnerInv(t)
        BY <2>1, <2>2, <2>3 DEF RunnerInv, Pends, Tells, Rests, Usable, Down
    <2> QED BY <2>4 DEF t
<1> QED BY <1>1, <1>2

\* Nothing of it changes but the traffic and what the event reports.
LEMMA AsideInv ==
    ASSUME NEW r, RunnerInv(r), NEW s, IsRunner(s), s.attached = r.attached, s.link = r.link,
           s.test = r.test, s.restart = r.restart, s.available = r.available
    PROVE  RunnerInv(s)
BY DEF RunnerInv, Pends, Tells, Rests, Usable

\* Open: what every send keeps, all that was buffered keep.
LEMMA SendAllStays ==
    ASSUME NEW W, NEW l \in W, NEW msus \in Seq(Msu),
           \A k \in W, m \in Msu : Send(k, m) \in W
    PROVE  SendAll(l, msus) \in W
<1> DEFINE n == Len(msus)
           step == [k \in 1 .. n |-> [x \in W |-> Send(x, msus[k])]]
           F == CHOOSE F : F = [k \in 0 .. n |-> IF k = 0 THEN l ELSE Send(F[k - 1], msus[k])]
           V == [k \in 0 .. n |-> W]
<1>0. n \in Nat
    OBVIOUS
<1>1. SendAll(l, msus) = F[n]
    BY DEF SendAll
<1>2. \A k \in 1 .. n : \A x \in W : step[k][x] = Send(x, msus[k])
    OBVIOUS
<1>3. \A k \in 1 .. n : \A x \in W : Send(x, msus[k]) \in W
    OBVIOUS
<1> HIDE DEF n, step, F
<1> DEFINE f == Loop(n, V, l, step)
<1>4. IsLoop(f, n, V, l, step)
    <2>1. /\ l \in V[0]
          /\ \A k \in 1 .. n : \A x \in V[k - 1] : step[k][x] \in V[k]
        BY <1>0, <1>2, <1>3
    <2> HIDE DEF V
    <2> QED BY <1>0, <2>1, LoopExists
<1> HIDE DEF f
<1>5. /\ f = [k \in 0 .. n |-> IF k = 0 THEN l ELSE step[k][f[k - 1]]]
      /\ \A k \in 0 .. n : f[k] \in W
    BY <1>4 DEF IsLoop
<1>6. f = [k \in 0 .. n |-> IF k = 0 THEN l ELSE Send(f[k - 1], msus[k])]
    <2>1. \A k \in 1 .. n : step[k][f[k - 1]] = Send(f[k - 1], msus[k])
        BY <1>0, <1>2, <1>5
    <2> QED BY <1>0, <1>5, <2>1
<1>7. F = [k \in 0 .. n |-> IF k = 0 THEN l ELSE Send(F[k - 1], msus[k])]
    BY <1>6, Zenon DEF F
<1>8. F[0] \in V[0]
    BY <1>0, <1>7
<1>9. ASSUME NEW k \in 1 .. n, F[k - 1] \in V[k - 1] PROVE F[k] \in V[k]
    <2>1. F[k] = Send(F[k - 1], msus[k]) /\ F[k - 1] \in W
        BY <1>0, <1>7, <1>9
    <2> QED BY <1>3, <2>1
<1>10. F[n] \in V[n]
    <2> HIDE DEF V
    <2> QED BY <1>0, <1>8, <1>9, LoopStays
<1> QED BY <1>0, <1>1, <1>10


\* The same, of a link.
LEMMA FollowsSendAll ==
    ASSUME NEW l \in Links, NEW msus \in Seq(Msu)
    PROVE  Follows(l, SendAll(l, msus))
<1> DEFINE W == {k \in Links : Follows(l, k)}
<1>1. l \in W
    BY FollowsItself
<1>2. \A k \in W, m \in Msu : Send(k, m) \in W
    <2> SUFFICES ASSUME NEW k \in W, NEW m \in Msu PROVE Send(k, m) \in W
        OBVIOUS
    <2>1. Follows(k, Send(k, m)) /\ Follows(l, k)
        BY FollowsSend
    <2>2. Follows(l, Send(k, m))
        BY <2>1, FollowsOn
    <2> QED BY <2>2 DEF Follows
<1>3. SendAll(l, msus) \in W
    <2> HIDE DEF W
    <2> QED BY <1>1, <1>2, SendAllStays
<1> QED BY <1>3

----------------------------------------------------------------------------
(* The events.                                                             *)

\* A link at rest.
LEMMA NewLinkType ==
    /\ NewLink \in Links /\ NewLink.out = <<>> /\ Down(NewLink) /\ ~Gone(NewLink)
<1> DEFINE none == <<>>
           kept == <<>>
           acts == <<>>
           urgent == Proving = "Emergency"
<1>1. none \in Seq(Msu) /\ kept \in Seq(Sents) /\ acts \in Seq(Acts) /\ Len(acts) = 0
    OBVIOUS
<1>2. urgent \in BOOLEAN /\ SeqMask \in Nat /\ 0 \in 0 .. 2 /\ "OutOfService" \in State
    BY SeqMaskAssumption DEF State
<1>3. NewLink =
          [state |-> "OutOfService", useEmergency |-> urgent, peerReady |-> FALSE,
           fsnOut |-> SeqMask, fsnIn |-> SeqMask, acked |-> SeqMask, bsnWatch |-> 0,
           remoteBusy |-> FALSE, ackDue |-> FALSE, unacked |-> kept, unsent |-> none,
           retrievable |-> NothingRetrievable, timers |-> {}, t7For |-> SeqMask, out |-> acts]
    BY DEF NewLink
<1> HIDE DEF none, kept, acts, urgent
<1>4. NewLink \in Links /\ NewLink.out = acts /\ NewLink.state = "OutOfService"
    BY <1>1, <1>2, <1>3, NothingLeft DEF Links
<1> QED BY <1>1, <1>4 DEF Down, Gone, acts

\* Traffic that is not assigned to the link.
LEMMA NewTrafficType == NewTraffic \in Traffics
<1> DEFINE none == <<>>
<1>1. none \in Seq(Msu)
    OBVIOUS
<1>2. NewTraffic = [state |-> "Closed", held |-> none, kept |-> NothingRetrievable]
    BY DEF NewTraffic
<1> HIDE DEF none
<1> QED BY <1>1, <1>2, NothingLeft DEF Traffics, TrafficState

\* idle_link, before any association.
LEMMA InitInv ==
    ASSUME Init
    PROVE  RunnerInv(runner)
<1>1. runner = NewRunner(HasTest)
    BY DEF Init
<1>2. /\ DOMAIN runner = Fields
      /\ runner.tests = HasTest /\ runner.attached = FALSE /\ runner.link = NewLink
      /\ runner.test = NewTest /\ runner.traffic = NewTraffic /\ runner.restart = FALSE
      /\ runner.available = FALSE
    BY <1>1 DEF NewRunner, Fields
<1> QED BY <1>2, NewLinkType, NewTestType, NewTrafficType
        DEF RunnerInv, IsRunner, Pends, Tells, Rests

\* run_link: the link begins to align.
LEMMA AttachInv ==
    ASSUME NEW r, Starting(r)
    PROVE  RunnerInv(Attach(r))
<1> DEFINE e == Established(NewLink)
           l == Start(e)
           s == [r EXCEPT !.attached = TRUE, !.link = l, !.test = NewTest, !.restart = FALSE,
                          !.available = FALSE]
<1>1. e \in Links /\ ~Gone(e)
    <2>1. Follows(NewLink, e) /\ e.state = NewLink.state
        BY NewLinkType, FollowsSendStatus DEF Established, Status
    <2> HIDE DEF e
    <2> QED BY <2>1, NewLinkType DEF Follows, Down
<1> HIDE DEF e
<1>2. l \in Links /\ ~Gone(l) /\ ~Down(l)
    BY <1>1, StartBegins
<1>3. Attach(r) = Apply(s, FALSE)
    BY DEF Attach, e
<1> HIDE DEF l
<1>4. IsRunner(s) /\ s.attached = TRUE /\ s.link = l /\ s.restart = FALSE
    BY <1>2, NewTestType DEF Starting, RunnerInv, IsRunner, Fields
<1> HIDE DEF s
<1> QED BY <1>2, <1>3, <1>4, EndsWithApply

\* A Link Status.
LEMMA StatusInv ==
    ASSUME NEW r, Starting(r), NEW s \in Status, NEW bsn \in Nat
    PROVE  RunnerInv(ReceiveStatusMsg(r, s, bsn))
<1> DEFINE l == OnStatus(r.link, s, bsn)
<1>1. IsRunner(r) /\ Follows(r.link, l)
    BY FollowsStatus DEF Starting, RunnerInv, IsRunner
<1>2. ReceiveStatusMsg(r, s, bsn) = Apply([r EXCEPT !.link = l], FALSE)
    BY DEF ReceiveStatusMsg
<1> HIDE DEF l
<1>3. Carries(r, [r EXCEPT !.link = l])
    BY <1>1, CarriesLink
<1> QED BY <1>2, <1>3, EventInv

\* User Data.
LEMMA DataInv ==
    ASSUME NEW r, Starting(r), NEW bsn \in Nat, NEW fsn \in Nat, NEW m \in Msu \cup {NoMsu}
    PROVE  RunnerInv(ReceiveDataMsg(r, bsn, fsn, m))
<1> DEFINE l == OnData(r.link, bsn, fsn, m)
<1>1. IsRunner(r) /\ Follows(r.link, l)
    BY FollowsData DEF Starting, RunnerInv, IsRunner
<1>2. ReceiveDataMsg(r, bsn, fsn, m) = Apply([r EXCEPT !.link = l], FALSE)
    BY DEF ReceiveDataMsg
<1> HIDE DEF l
<1>3. Carries(r, [r EXCEPT !.link = l])
    BY <1>1, CarriesLink
<1> QED BY <1>2, <1>3, EventInv

\* fire: the timers of the link.
LEMMA FollowsFireLink ==
    ASSUME NEW l \in Links, NEW due
    PROVE  Follows(l, FireLink(l, due))
<1>1. ASSUME NEW k \in Links, NEW t \in Timer
      PROVE  Follows(k, FireLinkTimer(k, t, due)) /\ FireLinkTimer(k, t, due) \in Links
    <2>1. Follows(k, Expired(k, t)) /\ Expired(k, t) \in Links
        BY FollowsExpired DEF Follows
    <2>2. Follows(Expired(k, t), Timeout(Expired(k, t), t))
        BY <2>1, FollowsTimeout
    <2>3. Follows(k, Timeout(Expired(k, t), t))
        BY <2>1, <2>2, FollowsOn
    <2>4. Follows(k, FireLinkTimer(k, t, due))
        BY <2>3, FollowsItself DEF FireLinkTimer
    <2> QED BY <2>4 DEF Follows
<1> DEFINE a1 == FireLinkTimer(l, "T1", due)
           a2 == FireLinkTimer(a1, "T2", due)
           a3 == FireLinkTimer(a2, "T3", due)
           a4 == FireLinkTimer(a3, "T4", due)
           a6 == FireLinkTimer(a4, "T6", due)
           a7 == FireLinkTimer(a6, "T7", due)
           ap == FireLinkTimer(a7, "Proving", due)
<1>2. FireLink(l, due) = ap
    BY DEF FireLink
<1>3. "T1" \in Timer /\ "T2" \in Timer /\ "T3" \in Timer /\ "T4" \in Timer /\ "T6" \in Timer
      /\ "T7" \in Timer /\ "Proving" \in Timer
    BY DEF Timer
<1>4. Follows(l, a1) /\ a1 \in Links
    BY <1>1, <1>3
<1> HIDE DEF a1
<1>5. Follows(a1, a2) /\ a2 \in Links
    BY <1>1, <1>3, <1>4
<1> HIDE DEF a2
<1>6. Follows(a2, a3) /\ a3 \in Links
    BY <1>1, <1>3, <1>5
<1> HIDE DEF a3
<1>7. Follows(a3, a4) /\ a4 \in Links
    BY <1>1, <1>3, <1>6
<1> HIDE DEF a4
<1>8. Follows(a4, a6) /\ a6 \in Links
    BY <1>1, <1>3, <1>7
<1> HIDE DEF a6
<1>9. Follows(a6, a7) /\ a7 \in Links
    BY <1>1, <1>3, <1>8
<1> HIDE DEF a7
<1>10. Follows(a7, ap) /\ ap \in Links
    BY <1>1, <1>3, <1>9
<1> HIDE DEF ap
<1>11. Follows(l, a2)
    BY <1>4, <1>5, FollowsOn
<1>12. Follows(l, a3)
    BY <1>6, <1>11, FollowsOn
<1>13. Follows(l, a4)
    BY <1>7, <1>12, FollowsOn
<1>14. Follows(l, a6)
    BY <1>8, <1>13, FollowsOn
<1>15. Follows(l, a7)
    BY <1>9, <1>14, FollowsOn
<1>16. Follows(l, ap)
    BY <1>10, <1>15, FollowsOn
<1> QED BY <1>2, <1>16

\* fire: the timers of the test.
LEMMA CarriesFireTest ==
    ASSUME NEW r, IsRunner(r), NEW t, NEW due
    PROVE  Carries(r, FireTest(r, t, due))
<1>1. TestTimeout(TestExpired(r.test, t), t) \in Tests
    BY TestTimeoutType DEF IsRunner
<1>2. Carries(r, ApplyTest(r, TestTimeout(TestExpired(r.test, t), t)))
    BY <1>1, CarriesTest
<1> QED BY <1>2, CarriesItself DEF FireTest

\* fire: whatever is due at once.
LEMMA FireInv ==
    ASSUME NEW r, Starting(r), NEW due, NEW dueTest, NEW dueRestart,
           dueRestart \in {FALSE, r.restart}
    PROVE  RunnerInv(Fire(r, due, dueTest, dueRestart))
<1> DEFINE l == FireLink(r.link, due)
           a == [r EXCEPT !.link = l]
           b1 == FireTest(a, "T1", dueTest)
           b == FireTest(b1, "T2", dueTest)
           k == Start(b.link)
           c == [b EXCEPT !.restart = FALSE, !.link = k]
<1>1. Fire(r, due, dueTest, dueRestart) = Apply(IF dueRestart THEN c ELSE b, FALSE)
    BY DEF Fire
<1>2. Carries(r, a) /\ IsRunner(a)
    <2>1. IsRunner(r) /\ r.link \in Links
        BY DEF Starting, RunnerInv, IsRunner
    <2>2. Follows(r.link, l)
        BY <2>1, FollowsFireLink
    <2> HIDE DEF l
    <2>3. Carries(r, a)
        BY <2>1, <2>2, CarriesLink
    <2> HIDE DEF a
    <2> QED BY <2>3 DEF Carries
<1> HIDE DEF a
<1>3. Carries(a, b1) /\ IsRunner(b1)
    <2>1. Carries(a, b1)
        BY <1>2, CarriesFireTest
    <2> HIDE DEF b1
    <2> QED BY <2>1 DEF Carries
<1> HIDE DEF b1
<1>4. Carries(r, b) /\ IsRunner(b)
    <2>1. Carries(b1, b)
        BY <1>3, CarriesFireTest
    <2> HIDE DEF b
    <2>2. Carries(r, b1)
        BY <1>2, <1>3, CarriesOn
    <2>3. Carries(r, b)
        BY <2>1, <2>2, CarriesOn
    <2> QED BY <2>3 DEF Carries
<1> HIDE DEF b
<1>5. CASE ~dueRestart
    <2>1. RunnerInv(Apply(b, FALSE))
        BY <1>4, EventInv
    <2> QED BY <1>1, <1>5, <2>1
<1>6. CASE dueRestart
    <2>1. r.restart /\ r.attached /\ Down(r.link) /\ ~Gone(r.link)
        BY <1>6 DEF Starting, RunnerInv, Pends
    <2>2. ~Gone(b.link) /\ b.link \in Links
        BY <1>4, <2>1 DEF Carries, Follows
    <2>3. k \in Links /\ ~Gone(k) /\ ~Down(k)
        BY <2>2, StartBegins
    <2> HIDE DEF k
    <2>4. IsRunner(c) /\ c.attached = b.attached /\ c.link = k /\ c.restart = FALSE
        BY <1>4, <2>3 DEF IsRunner, Fields
    <2> HIDE DEF c
    <2>5. RunnerInv(Apply(c, FALSE))
        BY <1>4, <2>1, <2>3, <2>4, EndsWithApply DEF Carries
    <2> QED BY <1>1, <1>6, <2>5
<1> QED BY <1>5, <1>6

\* The end of run_link: what the link holds is no longer its own.
LEMMA EndInv ==
    ASSUME NEW r, Starting(r), NEW reason \in {"Association", "Stopped"}
    PROVE  RunnerInv(EndTask(r, reason))
<1> DEFINE lost == reason = "Association"
           l == Fail(r.link, reason)
           f == [r EXCEPT !.link = l]
           a == Apply(f, lost)
           none == <<>>
           new == [NewLink EXCEPT !.out = a.link.out]
           test == [NewTest EXCEPT !.out = none]
           e == [a EXCEPT !.attached  = FALSE,
                          !.restart   = FALSE,
                          !.abandoned = Msus(a.link.retrievable.unacked) \o a.link.retrievable.unsent,
                          !.counted   = a.counted + Held(a.link.retrievable),
                          !.link      = new,
                          !.test      = test]
<1>1. EndTask(r, reason) = e
    BY DEF EndTask
<1>2. lost \in BOOLEAN /\ reason \in Failure
    BY DEF Failure
<1>3. IsRunner(r) /\ r.link \in Links
    BY DEF Starting, RunnerInv, IsRunner
<1> HIDE DEF lost
<1>4. Follows(r.link, l) /\ Down(l)
    BY <1>2, <1>3, FollowsFail
<1> HIDE DEF l
<1>5. IsRunner(f) /\ f.link = l
    <2>1. Carries(r, f)
        BY <1>3, <1>4, CarriesLink
    <2>2. f.link = l
        BY <1>3 DEF IsRunner, Fields
    <2> HIDE DEF f
    <2> QED BY <2>1, <2>2 DEF Carries
<1> HIDE DEF f
<1>6. IsRunner(a) /\ Follows(f.link, a.link) /\ (a.available <=> Usable(a, lost))
    BY <1>2, <1>5, ApplyTells
<1> HIDE DEF a
<1>7. a.available = FALSE
    <2>1. ~Usable(a, lost)
        BY <1>4, <1>5, <1>6 DEF Follows, Down, Usable
    <2> QED BY <1>6, <2>1 DEF IsRunner
<1>8. new \in Links /\ Down(new)
    <2>1. a.link.out \in Seq(Acts)
        BY <1>6 DEF IsRunner, Links
    <2> QED BY <2>1, NewLinkType DEF Links, Down
<1>9. test \in Tests /\ test.out = <<>>
    <2>1. NewTest \in Tests /\ none \in Seq(TestActs)
        BY NewTestType
    <2> HIDE DEF none
    <2>2. test \in Tests /\ test.out = none
        BY <2>1 DEF Tests
    <2> QED BY <2>2 DEF none
<1> HIDE DEF new, test
<1>10. /\ IsRunner(e) /\ e.attached = FALSE /\ e.restart = FALSE /\ e.available = FALSE
       /\ e.link = new
    BY <1>6, <1>7, <1>8, <1>9 DEF IsRunner, Fields
<1> HIDE DEF e
<1> QED BY <1>1, <1>8, <1>10 DEF RunnerInv, Pends, Tells, Rests

\* A runner whose traffic alone is another.
LEMMA AnotherTraffic ==
    ASSUME NEW r, Starting(r), NEW s, DOMAIN s = Fields, s.traffic \in Traffics,
           s.tests = r.tests, s.attached = r.attached, s.test = r.test, s.restart = r.restart,
           s.available = r.available, s.link = r.link
    PROVE  IsRunner(s) /\ RunnerInv(s) /\ Carries(r, s)
<1>1. IsRunner(s)
    BY DEF Starting, RunnerInv, IsRunner
<1>2. RunnerInv(s)
    BY <1>1, AsideInv DEF Starting
<1>3. Follows(r.link, s.link)
    BY FollowsItself DEF Starting, RunnerInv, IsRunner
<1> QED BY <1>1, <1>2, <1>3 DEF Carries

\* carry: a message is sent, held, diverted or refused.
LEMMA CarryInv ==
    ASSUME NEW r, Starting(r), NEW m \in Msu
    PROVE  RunnerInv(Carry(r, m))
<1> DEFINE traffic == Offered(r.traffic, m, CanSend(r))
           offered == [r EXCEPT !.traffic = traffic]
           l == Send(offered.link, m)
           sent == [offered EXCEPT !.link = l]
           diverted == [offered EXCEPT !.rerouted = <<m>>]
           full == [offered EXCEPT !.counted = 1]
<1>1. Carry(r, m) \in {Apply(sent, FALSE), offered, diverted, full}
    <2>1. Verdict(r.traffic, CanSend(r)) \in {"Send", "Held", "Divert", "Full"}
        BY DEF Verdict
    <2> QED BY <2>1 DEF Carry
<1>2. traffic \in Traffics
    <2> DEFINE held == Append(r.traffic.held, m)
               more == [r.traffic EXCEPT !.held = held]
    <2>1. held \in Seq(Msu) /\ r.traffic \in Traffics
        BY DEF Starting, RunnerInv, IsRunner, Traffics
    <2>2. traffic = r.traffic \/ traffic = more
        BY DEF Offered
    <2> HIDE DEF held, traffic
    <2>3. more \in Traffics
        BY <2>1 DEF Traffics
    <2> QED BY <2>1, <2>2, <2>3
<1> HIDE DEF traffic
<1>3. DOMAIN r = Fields
    BY DEF Starting, RunnerInv, IsRunner
<1>4. IsRunner(offered) /\ RunnerInv(offered) /\ Carries(r, offered)
    BY <1>2, <1>3, AnotherTraffic DEF Fields
<1>5. RunnerInv(diverted) /\ RunnerInv(full)
    BY <1>2, <1>3, AnotherTraffic DEF Fields
<1> HIDE DEF offered, diverted, full
<1>6. RunnerInv(Apply(sent, FALSE))
    <2>1. Follows(offered.link, l)
        BY <1>4, FollowsSend DEF IsRunner
    <2> HIDE DEF l
    <2>2. Carries(offered, sent)
        BY <1>4, <2>1, CarriesLink
    <2> HIDE DEF sent
    <2>3. Carries(r, sent)
        BY <1>4, <2>2, CarriesOn
    <2> QED BY <2>3, EventInv
<1> HIDE DEF sent
<1> QED BY <1>1, <1>4, <1>5, <1>6

\* LinkCommand::Hold.
LEMMA HoldInv ==
    ASSUME NEW r, Starting(r)
    PROVE  RunnerInv(CommandHold(r))
<1> DEFINE traffic == HoldTraffic(r.traffic)
           h == [r EXCEPT !.traffic = traffic]
<1>1. CommandHold(r) \in {Apply(h, FALSE), h}
    BY DEF CommandHold
<1>2. traffic \in Traffics /\ DOMAIN r = Fields
    BY DEF Starting, RunnerInv, IsRunner, HoldTraffic, Traffics, TrafficState
<1> HIDE DEF traffic
<1>3. RunnerInv(h) /\ Carries(r, h)
    BY <1>2, AnotherTraffic DEF Fields
<1> HIDE DEF h
<1> QED BY <1>1, <1>3, EventInv

\* LinkCommand::Divert.
LEMMA DivertInv ==
    ASSUME NEW r, Starting(r), NEW has, NEW fsnc
    PROVE  RunnerInv(CommandDivert(r, has, fsnc))
<1> DEFINE d == Divert(r.traffic, has, fsnc)
           s == [r EXCEPT !.traffic = d.traffic, !.rerouted = d.messages, !.confirmed = d.confirmed,
                          !.counted = r.counted + d.unconfirmed]
<1>1. CommandDivert(r, has, fsnc) \in {Apply(s, FALSE), s}
    BY DEF CommandDivert
<1>2. d.traffic \in Traffics /\ DOMAIN r = Fields
    BY NewTrafficType DEF Starting, RunnerInv, IsRunner, Divert
<1> HIDE DEF d
<1>3. RunnerInv(s) /\ Carries(r, s)
    BY <1>2, AnotherTraffic DEF Fields
<1> HIDE DEF s
<1> QED BY <1>1, <1>3, EventInv

\* LinkCommand::Open.
LEMMA OpenInv ==
    ASSUME NEW r, Starting(r)
    PROVE  RunnerInv(CommandOpen(r))
<1> DEFINE o == Open(r.traffic)
           traffic == IF CanSend(r) THEN o.traffic ELSE [o.traffic EXCEPT !.held = o.buffered]
           held == HoldTraffic(r.traffic)
           l == IF CanSend(r) THEN SendAll(r.link, o.buffered) ELSE r.link
           t == [r EXCEPT !.traffic = traffic, !.counted = r.counted + o.lost]
           s == [t EXCEPT !.link = l]
           h == [r EXCEPT !.traffic = held]
<1>0. DOMAIN r = Fields /\ r.link \in Links /\ r.traffic \in Traffics
    BY DEF Starting, RunnerInv, IsRunner
<1>1. CommandOpen(r) \in {Apply(s, FALSE), h}
    <2>1. s = [r EXCEPT !.traffic = traffic, !.link = l, !.counted = r.counted + o.lost]
        <3> HIDE DEF traffic, l, o
        <3> QED BY <1>0 DEF Fields
    <2> HIDE DEF s
    <2> QED BY <2>1 DEF CommandOpen
<1>2. o.buffered \in Seq(Msu)
    BY <1>0 DEF Open, Traffics
<1>3. traffic \in Traffics
    <2>1. o.traffic \in Traffics
        BY NewTrafficType DEF Open, Traffics, TrafficState
    <2> HIDE DEF o
    <2> QED BY <1>2, <2>1 DEF Traffics
<1>4. held \in Traffics
    BY <1>0 DEF HoldTraffic, Traffics, TrafficState
<1>5. Follows(r.link, l)
    BY <1>0, <1>2, FollowsSendAll, FollowsItself
<1> HIDE DEF o, traffic, held, l
<1>6. RunnerInv(h) /\ Carries(r, t) /\ t.link = r.link /\ IsRunner(t)
    <2>1. RunnerInv(h)
        BY <1>0, <1>4, AnotherTraffic DEF Fields
    <2>2. Carries(r, t) /\ IsRunner(t)
        BY <1>0, <1>3, AnotherTraffic DEF Fields
    <2>3. t.link = r.link
        BY <1>0 DEF Fields
    <2> QED BY <2>1, <2>2, <2>3
<1> HIDE DEF h, t
<1>7. Carries(r, s)
    <2>1. Carries(t, s)
        BY <1>5, <1>6, CarriesLink
    <2> QED BY <1>6, <2>1, CarriesOn
<1> HIDE DEF s
<1> QED BY <1>1, <1>6, <1>7, EventInv

\* LinkCommand::Fail.
LEMMA CommandFailInv ==
    ASSUME NEW r, Starting(r)
    PROVE  RunnerInv(CommandFail(r))
<1> DEFINE l == Fail(r.link, "Stopped")
           s == [r EXCEPT !.link = l]
<1>1. CommandFail(r) \in {Apply(s, FALSE), r}
    BY DEF CommandFail
<1>2. IsRunner(r) /\ Follows(r.link, l)
    BY FollowsFail DEF Failure, Starting, RunnerInv, IsRunner
<1> HIDE DEF l
<1>3. Carries(r, s)
    BY <1>2, CarriesLink
<1> HIDE DEF s
<1> QED BY <1>1, <1>3, EventInv DEF Starting

\* LinkCommand::Direct.
LEMMA DirectInv ==
    ASSUME NEW r, Starting(r), NEW m \in Msu
    PROVE  RunnerInv(CommandDirect(r, m))
<1> DEFINE l == Send(r.link, m)
           s == [r EXCEPT !.link = l]
           c == [r EXCEPT !.counted = r.counted + 1]
<1>1. CommandDirect(r, m) \in {Apply(s, FALSE), c}
    BY DEF CommandDirect
<1>2. IsRunner(r) /\ Follows(r.link, l)
    BY FollowsSend DEF Starting, RunnerInv, IsRunner
<1> HIDE DEF l
<1>3. Carries(r, s)
    BY <1>2, CarriesLink
<1>4. RunnerInv(c)
    <2>1. DOMAIN r = Fields /\ r.traffic \in Traffics
        BY <1>2 DEF IsRunner
    <2> QED BY <2>1, AnotherTraffic DEF Fields
<1> HIDE DEF s, c
<1> QED BY <1>1, <1>3, <1>4, EventInv

\* Every step of the task, the peer and level 3 keeps the invariant.
LEMMA NextInv ==
    ASSUME RunnerInv(runner), [Next]_vars
    PROVE  RunnerInv(runner')
<1>0. /\ Starting(Now) /\ Now.attached = runner.attached /\ Now.restart = runner.restart
    BY NowStarts
<1>n. /\ runner.link.acked \in Nat /\ runner.link.fsnOut \in Nat /\ runner.link.fsnIn \in Nat
      /\ 0 \in Nat /\ 1 \in Nat
    BY DEF RunnerInv, IsRunner, Links
<1>p. \A bsn \in PeerBsn : bsn \in Nat
    BY <1>n, SeqAddNat DEF PeerBsn
<1>1. CASE AssociationUp
    BY <1>0, <1>1, AttachInv, BecomesInv DEF AssociationUp
<1>2. CASE AssociationGone
    <2>1. PICK reason \in {"Association", "Stopped"} : Becomes(EndTask(Now, reason))
        BY <1>2 DEF AssociationGone
    <2> QED BY <1>0, <2>1, EndInv, BecomesInv
<1>3. CASE PeerStatus
    <2>1. PICK s \in PeerStates, bsn \in PeerBsn : Becomes(ReceiveStatusMsg(Now, s, bsn))
        BY <1>3 DEF PeerStatus
    <2>2. s \in Status /\ bsn \in Nat
        BY <1>p, PeerAssumption
    <2>3. RunnerInv(ReceiveStatusMsg(Now, s, bsn))
        BY <1>0, <2>2, StatusInv
    <2> QED BY <2>1, <2>3, BecomesInv
<1>4. CASE PeerData
    <2>1. PICK bsn \in PeerBsn, k \in {0, 1}, m \in PeerMsu \cup {NoMsu} :
              Becomes(ReceiveDataMsg(Now, bsn, SeqAdd(runner.link.fsnIn, k), m))
        BY <1>4 DEF PeerData
    <2>2. m \in Msu \cup {NoMsu} /\ bsn \in Nat /\ SeqAdd(runner.link.fsnIn, k) \in Nat
        BY <1>n, <1>p, PeerAssumption, SeqAddNat
    <2>3. RunnerInv(ReceiveDataMsg(Now, bsn, SeqAdd(runner.link.fsnIn, k), m))
        BY <1>0, <2>2, DataInv
    <2> QED BY <2>1, <2>3, BecomesInv
<1>5. CASE TimersExpire
    <2>1. PICK due \in SUBSET runner.link.timers, dueTest \in SUBSET runner.test.timers,
               dueRestart \in {FALSE, runner.restart} :
              Becomes(Fire(Now, due, dueTest, dueRestart))
        BY <1>5 DEF TimersExpire
    <2>2. RunnerInv(Fire(Now, due, dueTest, dueRestart))
        BY <1>0, <2>1, FireInv
    <2> QED BY <2>1, <2>2, BecomesInv
<1>6. CASE CarryMsu
    <2>1. PICK m \in Data : Becomes(Carry(Now, m))
        BY <1>6 DEF CarryMsu
    <2>2. RunnerInv(Carry(Now, m))
        BY <1>0, CarryInv DEF Data
    <2> QED BY <2>1, <2>2, BecomesInv
<1>7. CASE HoldIt
    BY <1>0, <1>7, HoldInv, BecomesInv DEF HoldIt
<1>8. CASE DivertIt
    <2>1. PICK has, fsnc : Becomes(CommandDivert(Now, has, fsnc))
        BY <1>8 DEF DivertIt
    <2> QED BY <1>0, <2>1, DivertInv, BecomesInv
<1>9. CASE OpenIt
    BY <1>0, <1>9, OpenInv, BecomesInv DEF OpenIt
<1>10. CASE FailIt
    BY <1>0, <1>10, CommandFailInv, BecomesInv DEF FailIt
<1>11. CASE DirectIt
    <2>1. Slta \in Msu
        BY LinkTestsAssumption
    <2> QED BY <1>0, <1>11, <2>1, DirectInv, BecomesInv DEF DirectIt
<1>12. CASE UNCHANGED vars
    BY <1>12 DEF vars
<1> QED BY <1>1, <1>2, <1>3, <1>4, <1>5, <1>6, <1>7, <1>8, <1>9, <1>10, <1>11, <1>12 DEF Next

----------------------------------------------------------------------------

\* The inductive invariant of the task: what is available and what is to be
\* restarted follows from the link and its association.
THEOREM TaskInvariant == Spec => []RunnerInv(runner)
<1>1. Init => RunnerInv(runner)
    BY InitInv
<1>2. RunnerInv(runner) /\ [Next]_vars => RunnerInv(runner)'
    BY NextInv
<1> QED BY <1>1, <1>2, PTL DEF Spec

\* apply_one(OutOfService) and fire: an aligned link is never restarted, and one
\* out of service always is, whichever way it went.
THEOREM RestartsPend == Spec => []RestartIsPending
<1>1. RunnerInv(runner) => RestartIsPending
    BY DEF RunnerInv, Pends, IsRunner, Down, RestartIsPending
<1> QED BY <1>1, TaskInvariant, PTL

\* refresh_availability: level 3 knows at every moment whether the link is in
\* service, tested and served by an association.
THEOREM LevelThreeKnows == Spec => []AvailableIsTrue
<1>1. RunnerInv(runner) => AvailableIsTrue
    BY DEF RunnerInv, Tells, IsRunner, Usable, Tests, AvailableIsTrue
<1> QED BY <1>1, TaskInvariant, PTL

=============================================================================
