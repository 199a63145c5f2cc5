---------------------------- MODULE AsRegistry ----------------------------
(***************************************************************************)
(* What the transfer path sees of the Application Servers that M3UA ASPs   *)
(* serve: AsEntry and the methods of Registry about it,                    *)
(* src/transport/registry.rs.                                              *)
(*                                                                         *)
(* The fields are atomics and a queue behind a lock: every operator here   *)
(* is one access, and the modules that use them take one step for each.    *)
(***************************************************************************)
EXTENDS Naturals, Sequences, FiniteSets, Listing

CONSTANTS
    Msu,          \* the messages
    PendingLimit  \* pending_limit: how many are queued for a server

ASSUME PendingLimitAssumption == PendingLimit \in Nat

\* active: the members flagged active; up: what routing was told last.
NewEntry == [active |-> {}, state |-> "Down", pending |-> <<>>, up |-> FALSE]

SetAspActive(entry, asp, on) ==
    [entry EXCEPT !.active = IF on THEN @ \cup {asp} ELSE @ \ {asp}]

\* A mistake: a new association finds the flags of the one before it.
QuiesceNothing(entry, asp) == entry

\* Quiesce of one membership.
Quiesce(entry, asp) == [entry EXCEPT !.active = @ \ {asp}]

\* Set_server_state in its two steps: the state, then the queue under its lock.
StoreState(entry, state) == [entry EXCEPT !.state = state]

TakesQueue(entry) == entry.state # "Pending"

TakeQueue(entry) == [entry EXCEPT !.pending = <<>>]

\* A mistake: the state is not looked at again under the lock.
StillPendingUnchecked(entry) == TRUE

\* Queue_if_pending under the lock: the state is looked at a second time.
StillPending(entry) == entry.state = "Pending"

Full(entry) == Len(entry.pending) >= PendingLimit

Push(entry, m) == IF Full(entry) THEN entry ELSE [entry EXCEPT !.pending = Append(@, m)]

\* Recompute of one server: a route while it is active, and while it is pending.
Recompute(entry) == [entry EXCEPT !.up = (entry.state \in {"Active", "Pending"})]

\* Choose: which of the candidates that carry take a message.
Choose(mode, carrying, sls) ==
    CASE carrying = {}                         -> {}
      [] carrying # {} /\ mode = "Override"    -> {NthOf(carrying, 0)}
      [] carrying # {} /\ mode = "Loadshare"   -> {NthOf(carrying, sls % Cardinality(carrying))}
      [] carrying # {} /\ mode = "Broadcast"   -> carrying
=============================================================================
