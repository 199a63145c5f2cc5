----------------------------- MODULE M2paRunner -----------------------------
(***************************************************************************)
(* What drives one M2PA link: struct Runner of src/transport/m2pa.rs, with *)
(* the link (M2paLink), its signalling link test (LinkTest) and what level *)
(* 3 has it do with traffic (LinkTraffic).  A runner is a record; its      *)
(* fields counted, rerouted, confirmed, delivered, abandoned and told say  *)
(* what the last event did outside the runner.                             *)
(*                                                                         *)
(* A send that the association refuses (lost in the code) is an event      *)
(* followed by the loss of the association: the frames of both never       *)
(* arrive, and the only difference is a LinkUp and a LinkDown at once      *)
(* where the code reports neither.                                         *)
(***************************************************************************)
EXTENDS LinkTraffic, LinkTest

CONSTANTS Sltm, Slta, BadSlta  \* a test, its answer, and an answer that is not correct

ASSUME LinkTestsAssumption == {Sltm, Slta, BadSlta} \subseteq LinkTests /\ LinkTests \subseteq Msu

\* The messages of level 3.
Data == Msu \ LinkTests

\* The fields that describe one event, at its start.
Clean(r) ==
    [r EXCEPT !.link.out = <<>>, !.counted = 0, !.rerouted = <<>>, !.confirmed = 0,
              !.delivered = <<>>, !.abandoned = <<>>, !.told = <<>>]

\* A link no association serves yet: idle_link with the queues of LinkPort::new.
\* tests says whether it runs the signalling link test.
NewRunner(tests) ==
    [tests     |-> tests,
     attached  |-> FALSE, link |-> NewLink, test |-> NewTest, traffic |-> NewTraffic,
     restart   |-> FALSE, available |-> FALSE,
     counted   |-> 0, rerouted |-> <<>>, confirmed |-> 0, delivered |-> <<>>,
     abandoned |-> <<>>, told |-> <<>>]

----------------------------------------------------------------------------
(* apply: what the link's actions lead to.  An event appends at most one   *)
(* InService, one Deliver and one OutOfService, in that order.             *)

Emitted(r, a) == \E i \in 1 .. Len(r.link.out) : r.link.out[i].action = a

\* The sum of the Discarded actions of the event.
CountOf(out) ==
    LET Counted(i) == IF out[i].action = "Discarded" THEN out[i].count ELSE 0
        Sum[i \in 0 .. Len(out)] == IF i = 0 THEN 0 ELSE Sum[i - 1] + Counted(i)
    IN  Sum[Len(out)]

\* apply_test, for the actions of a test that has just changed to t.
ApplyTest(r, t) ==
    LET Asks(a) == \E i \in 1 .. Len(t.out) : t.out[i] = a
        sent    == IF Asks("SendTest") THEN Send(r.link, Sltm) ELSE r.link
    IN  [r EXCEPT !.test = [t EXCEPT !.out = <<>>],
                  !.link = IF Asks("Failed") THEN Fail(sent, "LinkTest") ELSE sent]

OnInService(r) ==
    IF Emitted(r, "InService") /\ r.tests THEN ApplyTest(r, Begin(r.test)) ELSE r

\* deliver and link_test_message, for messages to this node about this link.
OnDeliver(r) ==
    IF ~Emitted(r, "Deliver") THEN r
    ELSE LET at == CHOOSE i \in 1 .. Len(r.link.out) : r.link.out[i].action = "Deliver"
             m  == r.link.out[at].msu
         IN  CASE m = Sltm -> [r EXCEPT !.link = Send(@, Slta)]
               [] m \in {Slta, BadSlta} /\ r.tests /\ IsWaiting(r.test) ->
                     ApplyTest(r, Acknowledged(r.test, m = Slta))
               [] m \in {Slta, BadSlta} /\ ~(r.tests /\ IsWaiting(r.test)) -> r
               [] OTHER -> [r EXCEPT !.delivered = Append(@, m)]

\* A mistake: a link that went out of service is not restarted.
OnOutOfServiceForGood(r) ==
    IF ~Emitted(r, "OutOfService") THEN r
    ELSE ApplyTest(r, IF r.tests THEN StopTest(r.test) ELSE r.test)

OnOutOfService(r) ==
    IF ~Emitted(r, "OutOfService") THEN r
    ELSE [ApplyTest(r, IF r.tests THEN StopTest(r.test) ELSE r.test) EXCEPT !.restart = TRUE]

\* Mistakes: level 3 hears of a link before its test passed, or hears that it
\* is down whenever the test is repeated.
RefreshUntested(r, lost) ==
    LET now == r.link.state = "InService" /\ ~lost
    IN  [r EXCEPT !.available = now, !.link = IF now THEN @ ELSE Detach(@)]

RefreshWhilePassed(r, lost) ==
    LET now == r.link.state = "InService" /\ (r.tests => r.test.state = "Passed") /\ ~lost
    IN  [r EXCEPT !.available = now, !.link = IF now THEN @ ELSE Detach(@)]

\* refresh_availability: level 3 hears of a link that comes up or goes down,
\* and what a failed link holds is kept for the changeover.
Refresh(r, lost) ==
    LET now == r.link.state = "InService" /\ (r.tests => r.test.available) /\ ~lost
        f   == Failed(r.traffic, r.link.retrievable)
    IN  CASE now = r.available -> r
          [] now /\ ~r.available ->
                [r EXCEPT !.available = TRUE, !.told = Append(@, [event |-> "LinkUp"])]
          [] ~now /\ r.available ->
                [r EXCEPT !.available = FALSE,
                          !.link      = Detach(@),
                          !.traffic   = f.traffic,
                          !.counted   = @ + f.lost,
                          !.told      = Append(@, [event |-> "LinkDown", bsnt |-> Bsnt(r.link)])]

Apply(r, lost) ==
    LET done  == OnOutOfService(OnDeliver(OnInService(r)))
        acked == [done EXCEPT !.link = FlushAck(@), !.counted = @ + CountOf(done.link.out)]
    IN  Refresh(acked, lost)

----------------------------------------------------------------------------
(* Events of a link that an association serves.                            *)

\* run_link: a fresh link and test for a new association; the traffic is the
\* one the queues of the port hold.
Attach(r) ==
    Apply([r EXCEPT !.attached = TRUE, !.link = Start(Established(NewLink)),
                    !.test = NewTest, !.restart = FALSE, !.available = FALSE], FALSE)

ReceiveStatusMsg(r, s, bsn) == Apply([r EXCEPT !.link = OnStatus(@, s, bsn)], FALSE)

ReceiveDataMsg(r, bsn, fsn, m) == Apply([r EXCEPT !.link = OnData(@, bsn, fsn, m)], FALSE)

\* fire: every timer whose deadline has passed, in the order of Timer::ALL,
\* then those of the test, then the restart, and only then apply.
FireLinkTimer(l, t, due) == IF t \in due THEN Timeout(Expired(l, t), t) ELSE l

FireLink(l, due) ==
    LET a == FireLinkTimer(FireLinkTimer(l, "T1", due), "T2", due)
        b == FireLinkTimer(FireLinkTimer(a, "T3", due), "T4", due)
        c == FireLinkTimer(FireLinkTimer(b, "T6", due), "T7", due)
    IN  FireLinkTimer(c, "Proving", due)

FireTest(r, t, due) ==
    IF t \in due THEN ApplyTest(r, TestTimeout(TestExpired(r.test, t), t)) ELSE r

Fire(r, due, dueTest, dueRestart) ==
    LET a == [r EXCEPT !.link = FireLink(@, due)]
        b == FireTest(FireTest(a, "T1", dueTest), "T2", dueTest)
        c == IF dueRestart THEN [b EXCEPT !.restart = FALSE, !.link = Start(@)] ELSE b
    IN  Apply(c, FALSE)

\* The association is gone, or a new one takes the link over.
EndTask(r, reason) ==
    LET a == Apply([r EXCEPT !.link = Fail(@, reason)], reason = "Association")
    IN  [a EXCEPT !.attached  = FALSE,
                  !.restart   = FALSE,
                  !.abandoned = Msus(a.link.retrievable.unacked) \o a.link.retrievable.unsent,
                  !.counted   = @ + Held(a.link.retrievable),
                  !.link      = [NewLink EXCEPT !.out = a.link.out],
                  !.test      = [NewTest EXCEPT !.out = <<>>]]

----------------------------------------------------------------------------
(* What level 3 hands over and asks for, with and without an association.  *)

\* A mistake: one message at a time, and nothing sends the next.
CanSendOne(r) == r.attached /\ IsAligned(r.link) /\ r.link.unacked = <<>>

CanSend(r) == r.attached /\ IsAligned(r.link)

\* carry, and the queue of idle_link.
Carry(r, m) ==
    LET verdict == Verdict(r.traffic, CanSend(r))
        offered == [r EXCEPT !.traffic = Offered(@, m, CanSend(r))]
    IN  CASE verdict = "Send"   -> Apply([offered EXCEPT !.link = Send(@, m)], FALSE)
          [] verdict = "Held"   -> offered
          [] verdict = "Divert" -> [offered EXCEPT !.rerouted = <<m>>]
          [] verdict = "Full"   -> [offered EXCEPT !.counted = 1]

\* LinkCommand::Hold, of both tasks.
CommandHold(r) ==
    LET h == [r EXCEPT !.traffic = HoldTraffic(@)]
    IN  IF r.attached THEN Apply(h, FALSE) ELSE h

\* LinkCommand::Divert, of both tasks.
CommandDivert(r, has, fsnc) ==
    LET d == Divert(r.traffic, has, fsnc)
        s == [r EXCEPT !.traffic   = d.traffic,
                       !.rerouted  = d.messages,
                       !.confirmed = d.confirmed,
                       !.counted   = @ + d.unconfirmed]
    IN  IF r.attached THEN Apply(s, FALSE) ELSE s

SendAll(l, msus) ==
    LET Sent[i \in 0 .. Len(msus)] == IF i = 0 THEN l ELSE Send(Sent[i - 1], msus[i])
    IN  Sent[Len(msus)]

\* LinkCommand::Open.  What was buffered goes out, or stays buffered if the
\* link is not in service; a link without an association holds.
CommandOpen(r) ==
    LET o == Open(r.traffic)
        s == [r EXCEPT !.traffic = IF CanSend(r) THEN o.traffic
                                   ELSE [o.traffic EXCEPT !.held = o.buffered],
                       !.link    = IF CanSend(r) THEN SendAll(@, o.buffered) ELSE @,
                       !.counted = @ + o.lost]
    IN  IF r.attached THEN Apply(s, FALSE) ELSE [r EXCEPT !.traffic = HoldTraffic(@)]

\* LinkCommand::Fail.
CommandFail(r) ==
    IF r.attached THEN Apply([r EXCEPT !.link = Fail(@, "Stopped")], FALSE) ELSE r

\* LinkCommand::Direct: on this link and no other, whatever it carries.
CommandDirect(r, m) ==
    IF r.attached THEN Apply([r EXCEPT !.link = Send(@, m)], FALSE)
    ELSE [r EXCEPT !.counted = @ + 1]
=============================================================================
