----------------------------- MODULE AssocSlot -----------------------------
(***************************************************************************)
(* The slot of an association: AssocSlot and Occupancy of                  *)
(* src/transport/registry.rs, with the identity rules of                   *)
(* src/transport/identity.rs that decide which slot a peer is taken for.   *)
(*                                                                         *)
(* A slot is one SCTP association at a time.  vacated is a tokio Notify:   *)
(* it wakes one task that waits, or keeps one permit for the next to wait. *)
(***************************************************************************)
EXTENDS Naturals, Sequences

CONSTANTS
    Assoc,       \* the SCTP associations that come and go
    NoAssoc      \* no association

ASSUME NoAssocAssumption == NoAssoc \notin Assoc

Slot == [occupant : Assoc \cup {NoAssoc},    \* who holds the Occupancy
         sender   : Assoc \cup {NoAssoc},    \* the live association handle
         permit   : BOOLEAN,                 \* vacated holds a permit
         waiting  : SUBSET Assoc]            \* who waits for vacated

EmptySlot == [occupant |-> NoAssoc, sender |-> NoAssoc, permit |-> FALSE, waiting |-> {}]

Occupied(slot) == slot.occupant # NoAssoc

Occupy(slot, x) == [slot EXCEPT !.occupant = x]

IsSender(slot, x) == slot.sender = x

SetSender(slot, x) == [slot EXCEPT !.sender = x]

ClearSender(slot) == [slot EXCEPT !.sender = NoAssoc]

\* vacated().await: a permit is taken at once.
Await(slot, x) ==
    IF slot.permit THEN [slot EXCEPT !.permit = FALSE] ELSE [slot EXCEPT !.waiting = @ \cup {x}]

GiveUp(slot, x) == [slot EXCEPT !.waiting = @ \ {x}]

\* The ways notify_one can go: it wakes one of those that wait.
NotifyOne(slot) ==
    IF slot.waiting = {} THEN {[slot EXCEPT !.permit = TRUE]}
    ELSE {GiveUp(slot, x) : x \in slot.waiting}

\* A mistake: the slot is freed and nobody is told.
VacateSilently(slot, x) ==
    {[slot EXCEPT !.sender = IF @ = x THEN NoAssoc ELSE @, !.occupant = NoAssoc]}

\* Occupancy::drop.
Vacate(slot, x) ==
    NotifyOne([slot EXCEPT !.sender = IF @ = x THEN NoAssoc ELSE @, !.occupant = NoAssoc])

----------------------------------------------------------------------------
(* Whose peer is it?                                                       *)

AddrsOf(peer) == {p[1] : p \in peer}

\* A rule takes a peer all of whose addresses it lists, from its port; a rule
\* without addresses takes whoever comes.  port is {} when it is not fixed.
Takes(rule, peer) ==
    \/ rule.addrs = {}
    \/ /\ AddrsOf(peer) \subseteq rule.addrs
       /\ \A port \in rule.port, p \in peer : p[2] = port

\* The first rule that takes the peer, or why there is none.
Admit(rules, peer) ==
    LET taking == {i \in DOMAIN rules : Takes(rules[i], peer)}
        ported == \E i \in DOMAIN rules : AddrsOf(peer) \subseteq rules[i].addrs
        partly == \E i \in DOMAIN rules : AddrsOf(peer) \cap rules[i].addrs # {}
        Refused(reason) == [door |-> 0, refusal |-> reason]
    IN  IF peer = {} THEN Refused("Closed")
        ELSE IF taking # {}
        THEN [door |-> CHOOSE i \in taking : \A j \in taking : i <= j, refusal |-> "None"]
        ELSE Refused(IF ported THEN "PeerPort" ELSE IF partly THEN "UnlistedAddress"
                     ELSE "UnknownPeer")
=============================================================================
