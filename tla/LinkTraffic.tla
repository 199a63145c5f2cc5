---------------------------- MODULE LinkTraffic -----------------------------
(***************************************************************************)
(* What level 3 has one link do with the traffic handed to it:             *)
(* src/transport/m2pa/traffic.rs.  A record, and an operator per method.   *)
(* A method that also returns something leaves it in a record beside the   *)
(* traffic.                                                                *)
(***************************************************************************)
EXTENDS M2paLink

CONSTANTS
    Capacity,    \* the changeover buffer: at least 1 (LinkTraffic::new)
    LinkTests    \* the MSUs of service indicator 1

ASSUME CapacityAssumption == Capacity \in Nat \ {0}

TrafficState == {"Closed", "Hold", "Open"}

NewTraffic == [state |-> "Closed", held |-> <<>>, kept |-> NothingRetrievable]

\* The messages that are not about the link itself.
Traffic(msus) == LET IsTraffic(m) == m \notin LinkTests IN SelectSeq(msus, IsTraffic)

\* A mistake: a link that is in service sends past what it holds.
VerdictInService(t, inService) ==
    CASE t.state # "Closed" /\ inService -> "Send"
      [] t.state = "Closed" -> "Divert"
      [] OTHER -> IF Len(t.held) >= Capacity THEN "Full" ELSE "Held"

\* offer: what becomes of a message for the link.
Verdict(t, inService) ==
    CASE t.state = "Open" /\ inService -> "Send"
      [] t.state = "Closed" -> "Divert"
      [] OTHER -> IF Len(t.held) >= Capacity THEN "Full" ELSE "Held"

Offered(t, msu, inService) ==
    IF Verdict(t, inService) = "Held" THEN [t EXCEPT !.held = Append(@, msu)] ELSE t

HoldTraffic(t) == [t EXCEPT !.state = "Hold"]

\* What a retrieval without a sequence number would lose.
LostWith(r) ==
    LET all == Retrieve(r, FALSE, 0)
    IN  Len(Traffic(all.unconfirmed)) + Len(Traffic(all.resend))

\* A mistake: what a link left that carried nothing is forgotten.
FailedUncounted(t, left) ==
    [traffic |-> [t EXCEPT !.state = IF @ = "Open" THEN "Hold" ELSE @,
                           !.kept  = IF t.state # "Closed" /\ ~@.some THEN left ELSE @],
     lost    |-> 0]

Failed(t, left) ==
    LET carried == t.state # "Closed"
        holding == [t EXCEPT !.state = IF @ = "Open" THEN "Hold" ELSE @]
    IN  CASE ~left.some -> [traffic |-> holding, lost |-> 0]
          [] left.some /\ carried /\ ~t.kept.some ->
                [traffic |-> [holding EXCEPT !.kept = left], lost |-> 0]
          [] OTHER -> [traffic |-> holding, lost |-> LostWith(left)]

Divert(t, has, fsnc) ==
    LET got == Retrieve(t.kept, has, fsnc)
    IN  [traffic     |-> NewTraffic,
         messages    |-> Traffic(got.resend) \o t.held,
         confirmed   |-> got.confirmed,
         unconfirmed |-> Len(Traffic(got.unconfirmed))]

Open(t) ==
    [traffic  |-> [NewTraffic EXCEPT !.state = "Open"],
     buffered |-> t.held,
     lost     |-> LostWith(t.kept)]
=============================================================================
