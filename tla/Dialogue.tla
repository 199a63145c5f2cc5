------------------------------- MODULE Dialogue -------------------------------
(***************************************************************************)
(* One TCAP dialogue as a handler sees it (dialogue.rs, Dialogue): the     *)
(* components it stages, the legs it flushes them in, its operations in    *)
(* progress, and the checks the component sub-layer makes of what the peer *)
(* sent.  Contents are left out: an operation is its invoke id and its     *)
(* class, an answer of ours is "Answer", and one that cannot be encoded is *)
(* "Garbled".                                                              *)
(*                                                                         *)
(* Ring and Negatives stand for the 128 and 128 of the two halves of       *)
(* InvokeIdType.                                                           *)
(***************************************************************************)
EXTENDS Integers, Listing

CONSTANTS Ring, Negatives, NoPeer

ASSUME IdsAssumption == Ring \in Nat \ {0} /\ Negatives \in Nat

Classes == 1..4

(* What a component of the peer's may be. *)
Kinds == {"Invoke", "Linked", "Result", "ResultPart", "Error", "RejectInvoke"}

ReportsSuccess(class) == class \in {1, 3}

ReportsFailure(class) == class \in {1, 2}

(* Outstanding.  `due` is that the deadline has passed. *)
Operation(id, class) == [id |-> id, class |-> class, due |-> FALSE]

(* A message of this node.  `asks` has the invoke ids of its Invokes, `refuses` *)
(* the kinds of component it rejects, `note` is its dialogue portion or cause.  *)
Message(type, otid, dtid, asks, refuses, note) ==
    [type |-> type, otid |-> otid, dtid |-> dtid,
     asks |-> asks, refuses |-> refuses, note |-> note]

NewDialogue(role, our, peer, ac) ==
    [role |-> role, our |-> our, peer |-> peer, ac |-> ac, next |-> 1,
     flushed |-> FALSE, aare |-> role = "Responder" /\ ac, closed |-> "Open",
     pending |-> {}, staged |-> <<>>, outstanding |-> <<>>, rejects |-> {},
     out |-> <<>>, ages |-> TRUE]

IsOpen(d) == d.closed = "Open"

IdsOf(ops) == {ops[i].id : i \in DOMAIN ops}

InUse(d) == IdsOf(d.outstanding) \cup IdsOf(d.staged)

(***************************************************************************)
(* Staging.                                                                *)
(***************************************************************************)

(* The ids in the order they are tried, the ring from where it resumes. *)
Candidates(d) ==
    [k \in 1..Ring |-> (d.next + k - 1) % Ring] \o [k \in 1..Negatives |-> -k]

FreeIds(d) ==
    LET Free(id) == id \notin InUse(d)
    IN  Only(Candidates(d), Free)

InvokeWith(d, class) ==
    LET free == FreeIds(d) IN
    IF ~IsOpen(d) \/ free = <<>> THEN d
    ELSE [d EXCEPT !.staged = Append(@, Operation(Head(free), class)),
                   !.next = IF Head(free) >= 0 THEN (Head(free) + 1) % Ring ELSE @]

(* reply, reply_to, error, reject: staged whether the dialogue is open or not. *)
StageComponent(d, kind) == [d EXCEPT !.pending = @ \cup {kind}]

DiscardStaged(d) == [d EXCEPT !.pending = {}, !.staged = <<>>]

(***************************************************************************)
(* Flushing.                                                               *)
(***************************************************************************)
Opening(d) == d.role = "Initiator" /\ ~d.flushed

PortionOf(d) == IF Opening(d) /\ d.ac THEN "Aarq" ELSE IF d.aare THEN "Aare" ELSE "None"

LegOf(d, closing) ==
    Message(IF Opening(d) THEN "Begin" ELSE IF closing THEN "End" ELSE "Continue",
            d.our, IF Opening(d) THEN NoPeer ELSE d.peer,
            IdsOf(d.staged), d.rejects, PortionOf(d))

(* Encoding takes the staged components whether it succeeds or not; what the  *)
(* component sub-layer wants rejected stays until a message has gone.         *)
Flush(d, closing) ==
    LET taken == [d EXCEPT !.pending = {}, !.staged = <<>>] IN
    CASE ~IsOpen(d) -> d
      [] IsOpen(d) /\ ~Opening(d) /\ d.peer = NoPeer -> d
      [] IsOpen(d) /\ (Opening(d) \/ d.peer # NoPeer) /\ "Garbled" \in d.pending -> taken
      [] OTHER ->
            [taken EXCEPT !.out = Append(@, LegOf(d, closing)),
                          !.rejects = {}, !.aare = FALSE, !.flushed = TRUE,
                          !.outstanding = IF closing THEN <<>> ELSE @ \o d.staged,
                          !.closed = IF closing THEN "Ended" ELSE @]

(* Before the peer has answered the Begin an abort is local. *)
AbortAs(d, reason) ==
    IF ~IsOpen(d) THEN d
    ELSE [d EXCEPT !.pending = {}, !.staged = <<>>, !.outstanding = <<>>, !.rejects = {},
                   !.closed = reason,
                   !.out = IF d.peer = NoPeer THEN @
                           ELSE Append(@, Message("Abort", d.our, d.peer, {}, {},
                                                  IF d.ac THEN "Abrt" ELSE "None"))]

(***************************************************************************)
(* What a handler does in one turn: a sequence of commands.                *)
(***************************************************************************)
Commands ==
    [do : {"Invoke", "Answer", "Garble", "Discard", "Send", "End", "Abort", "Wait"}, class : Classes]

Command(d, c) ==
    CASE c.do = "Invoke"  -> InvokeWith(d, c.class)
      [] c.do = "Answer"  -> StageComponent(d, "Answer")
      [] c.do = "Garble"  -> StageComponent(d, "Garbled")
      [] c.do = "Discard" -> DiscardStaged(d)
      [] c.do = "Send"    -> Flush(d, FALSE)
      [] c.do = "End"     -> Flush(d, TRUE)
      [] c.do = "Abort"   -> AbortAs(d, "Aborted")
      [] c.do = "Wait"    -> [d EXCEPT !.ages = FALSE]

Run(d, script) ==
    LET after[n \in 0..Len(script)] ==
            IF n = 0 THEN d ELSE Command(after[n - 1], script[n])
    IN after[Len(script)]

(***************************************************************************)
(* receive_components (Table 5 of Q.774), one component at a time.  What   *)
(* the handler is shown of each is left out.                               *)
(***************************************************************************)
Without(ops, id) ==
    LET Other(o) == o.id # id
    IN  Only(ops, Other)

ClassOf(ops, id) == ops[CHOOSE i \in DOMAIN ops : ops[i].id = id].class

Fits(d, c) ==
    LET known == c.id \in IdsOf(d.outstanding)
        class == ClassOf(d.outstanding, c.id)
    IN CASE c.kind = "Linked"                     -> known
         [] c.kind \in {"Result", "ResultPart"}   -> known /\ ReportsSuccess(class)
         [] c.kind = "Error"                      -> known /\ ReportsFailure(class)
         [] OTHER                                 -> TRUE

Concludes(c) == c.kind \in {"Result", "Error", "RejectInvoke"}

(* A component of the wrong kind ends the operation as the right one does. *)
ReceiveComponent(d, c, isEnd) ==
    LET ends == Concludes(c) \/ (c.kind = "ResultPart" /\ ~Fits(d, c)) IN
    [d EXCEPT !.outstanding = IF ends THEN Without(@, c.id) ELSE @,
              !.rejects = IF Fits(d, c) \/ isEnd THEN @ ELSE @ \cup {c.kind}]

ReceiveComponents(d, components, isEnd) ==
    LET after[n \in 0..Len(components)] ==
            IF n = 0 THEN d ELSE ReceiveComponent(after[n - 1], components[n], isEnd)
    IN after[Len(components)]

(* Rejected::stage: a component that could not be read at all. *)
StageReject(d, faulty, isEnd) ==
    IF faulty /\ ~isEnd THEN [d EXCEPT !.rejects = @ \cup {"Unreadable"}] ELSE d

===============================================================================
