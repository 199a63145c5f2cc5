------------------------ MODULE DialogueLanesProofs ------------------------
(***************************************************************************)
(* Proofs about DialogueLanes.                                             *)
(***************************************************************************)
EXTENDS DialogueLanes, Recursion

----------------------------------------------------------------------------
(* Types.                                                                  *)

Operations == [id : Int, class : Classes, due : BOOLEAN]

Notes == {"None", "Aarq", "Aare", "Abrt", "HopCounter", "Resource", "Unrecognized",
          "Transaction", "Dialogue", "Version", "Abnormal"}

Refusals == Kinds \cup {"Unreadable"}

Messages ==
    [type : {"Begin", "Continue", "End", "Abort", "Returned"}, otid : Nat,
     dtid : Peers \cup {NoPeer}, asks : SUBSET Int, refuses : SUBSET Refusals, note : Notes]

Endings == {"Open", "Ended", "Aborted", "NoAnswer", "IdleTimeout", "NotSent", "PeerEnded"}

\* The dialogues with the transaction id t of this node.
DialoguesOf(t) ==
    [role : {"Initiator", "Responder"}, our : {t}, peer : Peers \cup {NoPeer}, ac : BOOLEAN,
     next : Int, flushed : BOOLEAN, aare : BOOLEAN, closed : Endings,
     pending : SUBSET {"Answer", "Garbled"}, staged : Seq(Operations), outstanding : Seq(Operations),
     rejects : SUBSET Refusals, out : Seq(Messages), ages : BOOLEAN]

Components == [kind : Kinds, id : Int]

----------------------------------------------------------------------------
(* What is done with one dialogue leaves it the dialogue it is.            *)

\* The ids that are free are ids.
LEMMA FreeIdsType ==
    ASSUME NEW t, NEW d \in DialoguesOf(t)
    PROVE  FreeIds(d) \in Seq(Int)
<1> DEFINE I == {i \in 1 .. Len(Candidates(d)) : Candidates(d)[i] \notin InUse(d)}
<1>1. Candidates(d) \in Seq(Int)
    <2>1. d.next \in Int
        BY DEF DialoguesOf
    <2>2. [k \in 1 .. Ring |-> (d.next + k - 1) % Ring] \in Seq(Int)
        BY <2>1, IdsAssumption
    <2>3. [k \in 1 .. Negatives |-> -k] \in Seq(Int)
        BY IdsAssumption
    <2> QED BY <2>2, <2>3 DEF Candidates
<1>2. FreeIds(d) = Those(Candidates(d), I)
    BY DEF FreeIds, Only
<1>3. I \in SUBSET (1 .. Len(Candidates(d)))
    OBVIOUS
<1> HIDE DEF I
<1> QED BY <1>1, <1>2, <1>3, ThoseKeeps

\* Invoke stages an operation under a free id.
LEMMA InvokeType ==
    ASSUME NEW t, NEW d \in DialoguesOf(t), NEW class \in Classes
    PROVE  InvokeWith(d, class) \in DialoguesOf(t)
<1>1. CASE ~IsOpen(d) \/ FreeIds(d) = <<>>
    BY <1>1 DEF InvokeWith
<1>2. CASE ~(~IsOpen(d) \/ FreeIds(d) = <<>>)
    <2> DEFINE id == Head(FreeIds(d))
               op == Operation(id, class)
               next == IF id >= 0 THEN (id + 1) % Ring ELSE d.next
    <2>1. id \in Int
        BY <1>2, FreeIdsType
    <2>2. op \in Operations
        BY <2>1 DEF Operation, Operations
    <2>3. next \in Int
        <3>1. d.next \in Int
            BY DEF DialoguesOf
        <3> HIDE DEF id
        <3> QED BY <2>1, <3>1, IdsAssumption
    <2>4. InvokeWith(d, class) = [d EXCEPT !.staged = Append(d.staged, op), !.next = next]
        BY <1>2 DEF InvokeWith
    <2>5. Append(d.staged, op) \in Seq(Operations)
        <3>1. d.staged \in Seq(Operations)
            BY DEF DialoguesOf
        <3> HIDE DEF op
        <3> QED BY <2>2, <3>1
    <2> HIDE DEF op, next
    <2> QED BY <2>3, <2>4, <2>5 DEF DialoguesOf
<1> QED BY <1>1, <1>2

\* A leg is a message.
LEMMA LegType ==
    ASSUME NEW t \in Nat, NEW d \in DialoguesOf(t), NEW closing \in BOOLEAN
    PROVE  LegOf(d, closing) \in Messages
<1>1. IdsOf(d.staged) \in SUBSET Int
    <2>1. d.staged \in Seq(Operations)
        BY DEF DialoguesOf
    <2>2. \A i \in 1 .. Len(d.staged) : d.staged[i] \in Operations
        BY <2>1
    <2>3. DOMAIN d.staged = 1 .. Len(d.staged)
        BY <2>1
    <2> QED BY <2>2, <2>3 DEF IdsOf, Operations
<1>2. /\ d.rejects \in SUBSET Refusals /\ d.our = t /\ d.peer \in Peers \cup {NoPeer}
    BY DEF DialoguesOf
<1>3. PortionOf(d) \in Notes
    BY Zenon DEF PortionOf, Notes
<1> QED BY <1>1, <1>2, <1>3 DEF LegOf, Message, Messages

\* Giving up what is staged.
LEMMA TakenType ==
    ASSUME NEW t, NEW d \in DialoguesOf(t)
    PROVE  [d EXCEPT !.pending = {}, !.staged = <<>>] \in DialoguesOf(t)
<1>1. \A none \in Seq(Operations) : [d EXCEPT !.pending = {}, !.staged = none] \in DialoguesOf(t)
    BY DEF DialoguesOf
<1>2. <<>> \in Seq(Operations)
    OBVIOUS
<1> QED BY <1>1, <1>2, Zenon

\* A flush sends, closes and waits for what it sent.
LEMMA FlushType ==
    ASSUME NEW t \in Nat, NEW d \in DialoguesOf(t), NEW closing \in BOOLEAN
    PROVE  Flush(d, closing) \in DialoguesOf(t)
<1> DEFINE taken == [d EXCEPT !.pending = {}, !.staged = <<>>]
           ops == IF closing THEN <<>> ELSE d.outstanding \o d.staged
           out == Append(d.out, LegOf(d, closing))
           closed == IF closing THEN "Ended" ELSE d.closed
           gone == [taken EXCEPT !.out = out, !.rejects = {}, !.aare = FALSE, !.flushed = TRUE,
                                 !.outstanding = ops, !.closed = closed]
<1>1. taken \in DialoguesOf(t)
    BY TakenType
<1>2. ops \in Seq(Operations)
    BY DEF DialoguesOf
<1>3. out \in Seq(Messages)
    <2>1. d.out \in Seq(Messages)
        BY DEF DialoguesOf
    <2> QED BY <2>1, LegType
<1>4. closed \in Endings
    BY Zenon DEF DialoguesOf, Endings
<1>5. Flush(d, closing) = d \/ Flush(d, closing) = taken \/ Flush(d, closing) = gone
    BY DEF Flush, DialoguesOf
<1>6. gone \in DialoguesOf(t)
    <2> HIDE DEF taken, ops, out, closed
    <2> QED BY <1>1, <1>2, <1>3, <1>4 DEF DialoguesOf
<1> QED BY <1>1, <1>5, <1>6

\* An abort closes, and sends where there is a peer to send to.
LEMMA AbortType ==
    ASSUME NEW t \in Nat, NEW d \in DialoguesOf(t), NEW reason \in Endings
    PROVE  AbortAs(d, reason) \in DialoguesOf(t)
<1> DEFINE note == IF d.ac THEN "Abrt" ELSE "None"
           m == Message("Abort", d.our, d.peer, {}, {}, note)
           out == IF d.peer = NoPeer THEN d.out ELSE Append(d.out, m)
<1>1. m \in Messages
    <2>1. note \in Notes
        BY Zenon DEF Notes
    <2>2. d.our \in Nat /\ d.peer \in Peers \cup {NoPeer}
        BY DEF DialoguesOf
    <2> HIDE DEF note
    <2> QED BY <2>1, <2>2 DEF Message, Messages
<1>2. out \in Seq(Messages)
    <2>1. d.out \in Seq(Messages)
        BY DEF DialoguesOf
    <2> HIDE DEF m
    <2> QED BY <1>1, <2>1
<1>3. CASE IsOpen(d)
    <2> DEFINE e == [d EXCEPT !.pending = {}, !.staged = <<>>]
               none == <<>>
    <2>1. AbortAs(d, reason) =
              [e EXCEPT !.outstanding = none, !.rejects = {}, !.closed = reason, !.out = out]
        BY <1>3 DEF AbortAs, DialoguesOf
    <2>2. e \in DialoguesOf(t)
        BY TakenType
    <2>3. none \in Seq(Operations)
        OBVIOUS
    <2> HIDE DEF out, e, none
    <2>4. [e EXCEPT !.outstanding = none, !.rejects = {}, !.closed = reason, !.out = out]
              \in DialoguesOf(t)
        BY <1>2, <2>2, <2>3 DEF DialoguesOf
    <2> QED BY <2>1, <2>4
<1>4. CASE ~IsOpen(d)
    BY <1>4 DEF AbortAs
<1> QED BY <1>3, <1>4

\* Whatever a handler calls.
LEMMA CommandType ==
    ASSUME NEW t \in Nat, NEW d \in DialoguesOf(t), NEW c \in Commands
    PROVE  Command(d, c) \in DialoguesOf(t)
<1>1. c.class \in Classes
    BY DEF Commands
<1>2. CASE c.do = "Invoke"
    <2>1. Command(d, c) = InvokeWith(d, c.class)
        BY <1>2 DEF Command
    <2> QED BY <1>1, <2>1, InvokeType
<1>3. CASE c.do \in {"Answer", "Garble", "Discard", "Wait"}
    <2>1. CASE c.do = "Discard"
        BY <2>1, TakenType DEF Command, DiscardStaged
    <2>2. CASE c.do \in {"Answer", "Garble", "Wait"}
        BY <2>2 DEF Command, StageComponent, DialoguesOf
    <2> QED BY <1>3, <2>1, <2>2
<1>4. CASE c.do \in {"Send", "End"}
    <2>1. Command(d, c) = Flush(d, FALSE) \/ Command(d, c) = Flush(d, TRUE)
        BY <1>4 DEF Command
    <2> QED BY <2>1, FlushType
<1>5. CASE c.do = "Abort"
    <2>1. Command(d, c) = AbortAs(d, "Aborted")
        BY <1>5 DEF Command
    <2>2. "Aborted" \in Endings
        BY DEF Endings
    <2> QED BY <2>1, <2>2, AbortType
<1> QED BY <1>2, <1>3, <1>4, <1>5 DEF Commands
\* What every command keeps, a script keeps.
LEMMA RunStays ==
    ASSUME NEW W, NEW d \in W, NEW script \in Seq(Commands),
           \A e \in W, c \in Commands : Command(e, c) \in W
    PROVE  Run(d, script) \in W
<1> DEFINE n == Len(script)
           step == [k \in 1 .. n |-> [x \in W |-> Command(x, script[k])]]
           F == CHOOSE F : F = [k \in 0 .. n |-> IF k = 0 THEN d ELSE Command(F[k - 1], script[k])]
           V == [k \in 0 .. n |-> W]
<1>0. n \in Nat
    OBVIOUS
<1>1. Run(d, script) = F[n]
    BY DEF Run
<1>2. \A k \in 1 .. n : \A x \in W : step[k][x] = Command(x, script[k])
    OBVIOUS
<1>3. \A k \in 1 .. n : \A x \in W : Command(x, script[k]) \in W
    OBVIOUS
<1> HIDE DEF n, step, F
<1> DEFINE f == Loop(n, V, d, step)
<1>4. IsLoop(f, n, V, d, step)
    <2>1. /\ d \in V[0]
          /\ \A k \in 1 .. n : \A x \in V[k - 1] : step[k][x] \in V[k]
        BY <1>0, <1>2, <1>3
    <2> HIDE DEF V
    <2> QED BY <1>0, <2>1, LoopExists
<1> HIDE DEF f
<1>5. /\ f = [k \in 0 .. n |-> IF k = 0 THEN d ELSE step[k][f[k - 1]]]
      /\ \A k \in 0 .. n : f[k] \in W
    BY <1>4 DEF IsLoop
<1>6. f = [k \in 0 .. n |-> IF k = 0 THEN d ELSE Command(f[k - 1], script[k])]
    <2>1. \A k \in 1 .. n : step[k][f[k - 1]] = Command(f[k - 1], script[k])
        BY <1>0, <1>2, <1>5
    <2> QED BY <1>0, <1>5, <2>1
<1>7. F = [k \in 0 .. n |-> IF k = 0 THEN d ELSE Command(F[k - 1], script[k])]
    BY <1>6, Zenon DEF F
<1>8. F[0] \in V[0]
    BY <1>0, <1>7
<1>9. ASSUME NEW k \in 1 .. n, F[k - 1] \in V[k - 1] PROVE F[k] \in V[k]
    <2>1. F[k] = Command(F[k - 1], script[k]) /\ F[k - 1] \in W
        BY <1>0, <1>7, <1>9
    <2> QED BY <1>3, <2>1
<1>10. F[n] \in V[n]
    <2> HIDE DEF V
    <2> QED BY <1>0, <1>8, <1>9, LoopStays
<1> QED BY <1>0, <1>1, <1>10

\* What every component keeps, all of a message keep.
LEMMA ReceiveStays ==
    ASSUME NEW W, NEW d \in W, NEW components \in Seq(Components), NEW isEnd,
           \A e \in W, c \in Components : ReceiveComponent(e, c, isEnd) \in W
    PROVE  ReceiveComponents(d, components, isEnd) \in W
<1> DEFINE n == Len(components)
           step == [k \in 1 .. n |-> [x \in W |-> ReceiveComponent(x, components[k], isEnd)]]
           F == CHOOSE F : F = [k \in 0 .. n |-> IF k = 0 THEN d ELSE ReceiveComponent(F[k - 1], components[k], isEnd)]
           V == [k \in 0 .. n |-> W]
<1>0. n \in Nat
    OBVIOUS
<1>1. ReceiveComponents(d, components, isEnd) = F[n]
    BY DEF ReceiveComponents
<1>2. \A k \in 1 .. n : \A x \in W : step[k][x] = ReceiveComponent(x, components[k], isEnd)
    OBVIOUS
<1>3. \A k \in 1 .. n : \A x \in W : ReceiveComponent(x, components[k], isEnd) \in W
    OBVIOUS
<1> HIDE DEF n, step, F
<1> DEFINE f == Loop(n, V, d, step)
<1>4. IsLoop(f, n, V, d, step)
    <2>1. /\ d \in V[0]
          /\ \A k \in 1 .. n : \A x \in V[k - 1] : step[k][x] \in V[k]
        BY <1>0, <1>2, <1>3
    <2> HIDE DEF V
    <2> QED BY <1>0, <2>1, LoopExists
<1> HIDE DEF f
<1>5. /\ f = [k \in 0 .. n |-> IF k = 0 THEN d ELSE step[k][f[k - 1]]]
      /\ \A k \in 0 .. n : f[k] \in W
    BY <1>4 DEF IsLoop
<1>6. f = [k \in 0 .. n |-> IF k = 0 THEN d ELSE ReceiveComponent(f[k - 1], components[k], isEnd)]
    <2>1. \A k \in 1 .. n : step[k][f[k - 1]] = ReceiveComponent(f[k - 1], components[k], isEnd)
        BY <1>0, <1>2, <1>5
    <2> QED BY <1>0, <1>5, <2>1
<1>7. F = [k \in 0 .. n |-> IF k = 0 THEN d ELSE ReceiveComponent(F[k - 1], components[k], isEnd)]
    BY <1>6, Zenon DEF F
<1>8. F[0] \in V[0]
    BY <1>0, <1>7
<1>9. ASSUME NEW k \in 1 .. n, F[k - 1] \in V[k - 1] PROVE F[k] \in V[k]
    <2>1. F[k] = ReceiveComponent(F[k - 1], components[k], isEnd) /\ F[k - 1] \in W
        BY <1>0, <1>7, <1>9
    <2> QED BY <1>3, <2>1
<1>10. F[n] \in V[n]
    <2> HIDE DEF V
    <2> QED BY <1>0, <1>8, <1>9, LoopStays
<1> QED BY <1>0, <1>1, <1>10

\* What every script keeps, the callbacks of the expired invocations keep.
LEMMA TimedOutStays ==
    ASSUME NEW W, NEW d \in W, NEW expired \in Seq(Operations),
           NEW scripts \in [DOMAIN expired -> Scripts],
           \A e \in W, s \in Scripts : Run(e, s) \in W
    PROVE  TimedOut(d, expired, scripts) \in W
<1> DEFINE n == Len(expired)
           step == [k \in 1 .. n |-> [x \in W |-> (IF ~IsOpen(x) \/ expired[k].class = 4 THEN x ELSE Run(x, scripts[k]))]]
           F == CHOOSE F : F = [k \in 0 .. n |-> IF k = 0 THEN d ELSE (IF ~IsOpen(F[k - 1]) \/ expired[k].class = 4 THEN F[k - 1] ELSE Run(F[k - 1], scripts[k]))]
           V == [k \in 0 .. n |-> W]
<1>0. n \in Nat
    OBVIOUS
<1>1. TimedOut(d, expired, scripts) = F[n]
    BY DEF TimedOut
<1>2. \A k \in 1 .. n : \A x \in W : step[k][x] = (IF ~IsOpen(x) \/ expired[k].class = 4 THEN x ELSE Run(x, scripts[k]))
    OBVIOUS
<1>3. \A k \in 1 .. n : \A x \in W : (IF ~IsOpen(x) \/ expired[k].class = 4 THEN x ELSE Run(x, scripts[k])) \in W
    OBVIOUS
<1> HIDE DEF n, step, F
<1> DEFINE f == Loop(n, V, d, step)
<1>4. IsLoop(f, n, V, d, step)
    <2>1. /\ d \in V[0]
          /\ \A k \in 1 .. n : \A x \in V[k - 1] : step[k][x] \in V[k]
        BY <1>0, <1>2, <1>3
    <2> HIDE DEF V
    <2> QED BY <1>0, <2>1, LoopExists
<1> HIDE DEF f
<1>5. /\ f = [k \in 0 .. n |-> IF k = 0 THEN d ELSE step[k][f[k - 1]]]
      /\ \A k \in 0 .. n : f[k] \in W
    BY <1>4 DEF IsLoop
<1>6. f = [k \in 0 .. n |-> IF k = 0 THEN d ELSE (IF ~IsOpen(f[k - 1]) \/ expired[k].class = 4 THEN f[k - 1] ELSE Run(f[k - 1], scripts[k]))]
    <2>1. \A k \in 1 .. n : step[k][f[k - 1]] = (IF ~IsOpen(f[k - 1]) \/ expired[k].class = 4 THEN f[k - 1] ELSE Run(f[k - 1], scripts[k]))
        BY <1>0, <1>2, <1>5
    <2> QED BY <1>0, <1>5, <2>1
<1>7. F = [k \in 0 .. n |-> IF k = 0 THEN d ELSE (IF ~IsOpen(F[k - 1]) \/ expired[k].class = 4 THEN F[k - 1] ELSE Run(F[k - 1], scripts[k]))]
    BY <1>6, Zenon DEF F
<1>8. F[0] \in V[0]
    BY <1>0, <1>7
<1>9. ASSUME NEW k \in 1 .. n, F[k - 1] \in V[k - 1] PROVE F[k] \in V[k]
    <2>1. F[k] = (IF ~IsOpen(F[k - 1]) \/ expired[k].class = 4 THEN F[k - 1] ELSE Run(F[k - 1], scripts[k])) /\ F[k - 1] \in W
        BY <1>0, <1>7, <1>9
    <2> QED BY <1>3, <2>1
<1>10. F[n] \in V[n]
    <2> HIDE DEF V
    <2> QED BY <1>0, <1>8, <1>9, LoopStays
<1> QED BY <1>0, <1>1, <1>10

\* Nothing the peer sends leaves an operation that is none.
LEMMA ReceiveOneType ==
    ASSUME NEW t, NEW d \in DialoguesOf(t), NEW c \in Components, NEW isEnd \in BOOLEAN
    PROVE  ReceiveComponent(d, c, isEnd) \in DialoguesOf(t)
<1> DEFINE ends == Concludes(c) \/ (c.kind = "ResultPart" /\ ~Fits(d, c))
           ops == IF ends THEN Without(d.outstanding, c.id) ELSE d.outstanding
           rejects == IF Fits(d, c) \/ isEnd THEN d.rejects ELSE d.rejects \cup {c.kind}
<1>1. ops \in Seq(Operations)
    <2>1. d.outstanding \in Seq(Operations)
        BY DEF DialoguesOf
    <2>2. Without(d.outstanding, c.id) \in Seq(Operations)
        <3> DEFINE I == {i \in 1 .. Len(d.outstanding) : d.outstanding[i].id # c.id}
        <3>1. Without(d.outstanding, c.id) = Those(d.outstanding, I)
            BY DEF Without, Only
        <3>2. I \in SUBSET (1 .. Len(d.outstanding))
            OBVIOUS
        <3> HIDE DEF I
        <3> QED BY <2>1, <3>1, <3>2, ThoseKeeps
    <2> QED BY <2>1, <2>2
<1>2. rejects \in SUBSET Refusals
    BY DEF DialoguesOf, Components, Refusals
<1>3. ReceiveComponent(d, c, isEnd) = [d EXCEPT !.outstanding = ops, !.rejects = rejects]
    BY DEF ReceiveComponent
<1> HIDE DEF ops, rejects
<1> QED BY <1>1, <1>2, <1>3 DEF DialoguesOf

\* receive: components read in order leave a dialogue of the same transaction id.
LEMMA ReceiveType ==
    ASSUME NEW t, NEW d \in DialoguesOf(t), NEW components \in Seq(Components),
           NEW isEnd \in BOOLEAN, NEW faulty \in BOOLEAN
    PROVE  StageReject(ReceiveComponents(d, components, isEnd), faulty, isEnd) \in DialoguesOf(t)
<1> DEFINE e == ReceiveComponents(d, components, isEnd)
<1>1. e \in DialoguesOf(t)
    BY ReceiveOneType, ReceiveStays
<1> HIDE DEF e
<1>2. StageReject(e, faulty, isEnd) \in DialoguesOf(t)
    BY <1>1 DEF StageReject, DialoguesOf, Refusals
<1> QED BY <1>2 DEF e

\* A new dialogue.
LEMMA NewType ==
    ASSUME NEW t \in Nat, NEW role \in {"Initiator", "Responder"}, NEW peer \in Peers \cup {NoPeer},
           NEW ac \in BOOLEAN
    PROVE  NewDialogue(role, t, peer, ac) \in DialoguesOf(t)
<1> DEFINE none == <<>>
           nothing == <<>>
           aare == role = "Responder" /\ ac
<1>1. none \in Seq(Operations) /\ nothing \in Seq(Messages) /\ aare \in BOOLEAN
    OBVIOUS
<1>2. NewDialogue(role, t, peer, ac) =
          [role |-> role, our |-> t, peer |-> peer, ac |-> ac, next |-> 1,
           flushed |-> FALSE, aare |-> aare, closed |-> "Open",
           pending |-> {}, staged |-> none, outstanding |-> none, rejects |-> {},
           out |-> nothing, ages |-> TRUE]
    BY DEF NewDialogue
<1> HIDE DEF none, nothing, aare
<1> QED BY <1>1, <1>2 DEF DialoguesOf, Endings

\* on_begin: a Begin that is accepted gives a dialogue of the id allotted to it.
LEMMA OpenedType ==
    ASSUME NEW m \in InboundMessages, counter \in Nat
    PROVE  Opened(m) \in DialoguesOf(counter + 1)
<1> DEFINE portion == m.portion = "Aarq"
           faulty == m.fault = "Component"
           d == NewDialogue("Responder", counter + 1, m.otid, portion)
<1>1. m.otid \in Peers \cup {NoPeer} /\ m.components \in Seq(Components)
    BY DEF InboundMessages, Components
<1>2. portion \in BOOLEAN /\ faulty \in BOOLEAN
    OBVIOUS
<1>3. Opened(m) = StageReject(ReceiveComponents(d, m.components, FALSE), faulty, FALSE)
    BY DEF Opened
<1>4. d \in DialoguesOf(counter + 1)
    <2>1. counter + 1 \in Nat /\ "Responder" \in {"Initiator", "Responder"}
        OBVIOUS
    <2> HIDE DEF portion
    <2> QED BY <1>1, <1>2, <2>1, NewType
<1> HIDE DEF d, faulty
<1> QED BY <1>1, <1>2, <1>3, <1>4, ReceiveType

\* on_turn: a message received leaves the dialogue its transaction id.
LEMMA ReceivedType ==
    ASSUME NEW t, NEW d \in DialoguesOf(t), NEW m \in InboundMessages
    PROVE  Received(d, m) \in DialoguesOf(t)
<1> DEFINE isEnd == m.type = "End"
           faulty == m.fault = "Component"
           known == IF m.type = "Continue" /\ d.peer = NoPeer THEN [d EXCEPT !.peer = m.otid] ELSE d
           read == StageReject(ReceiveComponents(known, m.components, isEnd), faulty, isEnd)
           none == <<>>
<1>1. m.otid \in Peers \cup {NoPeer} /\ m.components \in Seq(Components)
    BY DEF InboundMessages, Components
<1>2. isEnd \in BOOLEAN /\ faulty \in BOOLEAN /\ none \in Seq(Operations)
    OBVIOUS
<1>3. known \in DialoguesOf(t)
    BY <1>1 DEF DialoguesOf
<1>4. read \in DialoguesOf(t)
    <2> HIDE DEF known, isEnd, faulty
    <2> QED BY <1>1, <1>2, <1>3, ReceiveType
<1>5. Received(d, m) =
          IF m.type = "End"
          THEN [read EXCEPT !.outstanding = none, !.rejects = {}, !.closed = "PeerEnded"] ELSE read
    BY DEF Received
<1> HIDE DEF read, none
<1>6. [read EXCEPT !.outstanding = none, !.rejects = {}, !.closed = "PeerEnded"] \in DialoguesOf(t)
    BY <1>2, <1>4 DEF DialoguesOf, Endings
<1> QED BY <1>4, <1>5, <1>6

\* A turn: what happens, to which dialogue, and what was due.
Turns ==
    [kind : {"None", "Begin", "Continue", "End", "Timer", "Start"},
     dlg : UNION {DialoguesOf(t) : t \in Nat}, idle : BOOLEAN, expired : Seq(Operations)]

\* The handler leaves the dialogue the one the turn took.
LEMMA HandledType ==
    ASSUME NEW k \in Turns, k.kind # "None",
           NEW scripts \in [Callbacks(k) -> Scripts]
    PROVE  /\ k.dlg.our \in Nat
           /\ Handled(k, scripts) \in DialoguesOf(k.dlg.our)
<1>1. PICK t \in Nat : k.dlg \in DialoguesOf(t)
    BY DEF Turns
<1>2. k.dlg.our = t
    BY <1>1 DEF DialoguesOf
<1>3. ASSUME NEW d \in DialoguesOf(t), NEW s \in Scripts PROVE Run(d, s) \in DialoguesOf(t)
    <2>1. s \in Seq(Commands)
        BY ScriptsAssumption
    <2> DEFINE W == DialoguesOf(t)
    <2>2. \A e \in W, c \in Commands : Command(e, c) \in W
        BY CommandType
    <2>3. d \in W
        OBVIOUS
    <2> HIDE DEF W
    <2>4. Run(d, s) \in W
        BY <2>1, <2>2, <2>3, RunStays
    <2> QED BY <2>4 DEF W
<1>4. k.kind # "Timer" => scripts[1] \in Scripts
    BY DEF Callbacks
<1>5. CASE k.kind = "Begin"
    <2> DEFINE d == Run(k.dlg, scripts[1])
    <2>1. d \in DialoguesOf(t)
        BY <1>1, <1>3, <1>4, <1>5
    <2>2. "NoAnswer" \in Endings
        BY DEF Endings
    <2>3. Handled(k, scripts) = Answered(d)
        BY <1>5 DEF Handled
    <2> HIDE DEF d
    <2> QED BY <1>2, <2>1, <2>2, <2>3, AbortType DEF Answered
<1>6. CASE k.kind = "Timer"
    <2> DEFINE d == TimedOut(k.dlg, k.expired, scripts)
               W == DialoguesOf(t)
    <2>1. d \in W
        <3>1. scripts \in [DOMAIN k.expired -> Scripts] /\ k.expired \in Seq(Operations)
            BY <1>6 DEF Callbacks, Turns
        <3>2. \A e \in W, s \in Scripts : Run(e, s) \in W
            BY <1>3
        <3>3. k.dlg \in W
            BY <1>1
        <3> HIDE DEF W
        <3> QED BY <3>1, <3>2, <3>3, TimedOutStays
    <2>2. "IdleTimeout" \in Endings
        BY DEF Endings
    <2>3. Handled(k, scripts) = AbortAs(d, "IdleTimeout") \/ Handled(k, scripts) = d
        BY <1>6 DEF Handled
    <2> HIDE DEF d
    <2> QED BY <1>2, <2>1, <2>2, <2>3, AbortType
<1>7. CASE k.kind = "Start"
    <2> DEFINE d == Run(k.dlg, scripts[1])
               none == <<>>
    <2>1. d \in DialoguesOf(t) /\ none \in Seq(Messages)
        BY <1>1, <1>3, <1>4, <1>7
    <2>2. \/ Handled(k, scripts) = d
          \/ Handled(k, scripts) = [d EXCEPT !.out = none, !.closed = "NotSent"]
          \/ Handled(k, scripts) = [d EXCEPT !.out = none, !.closed = d.closed]
        BY <1>7 DEF Handled
    <2>3. "NotSent" \in Endings /\ d.closed \in Endings
        BY <2>1 DEF DialoguesOf, Endings
    <2> HIDE DEF d, none
    <2>4. ASSUME NEW c \in Endings
          PROVE  [d EXCEPT !.out = none, !.closed = c] \in DialoguesOf(t)
        BY <2>1 DEF DialoguesOf
    <2>5. [d EXCEPT !.out = none, !.closed = "NotSent"] \in DialoguesOf(t)
        BY <2>3, <2>4
    <2>6. [d EXCEPT !.out = none, !.closed = d.closed] \in DialoguesOf(t)
        BY <2>3, <2>4
    <2>7. Handled(k, scripts) \in DialoguesOf(t)
        BY <2>1, <2>2, <2>5, <2>6
    <2> QED BY <1>2, <2>7
<1>8. CASE k.kind \in {"Continue", "End"}
    BY <1>1, <1>2, <1>3, <1>4, <1>8 DEF Handled
<1> QED BY <1>2, <1>5, <1>6, <1>7, <1>8 DEF Turns

----------------------------------------------------------------------------
(* The types of the engine's state.                                        *)

Tasks == {Deliver(m) : m \in InboundMessages} \cup {Timers(t) : t \in Nat}

PeerRecords ==
    [state : {"Idle", "Sent", "Open", "Over"}, ours : Nat, asked : SUBSET Int, spoke : BOOLEAN]

Stored(t) == [dlg : DialoguesOf(t), idle : BOOLEAN, claimed : BOOLEAN]

Types ==
    /\ counter \in Nat
    /\ local \in Seq(InboundMessages)
    /\ lanes \in [Lanes -> Seq(Tasks)]
    /\ turn \in [Threads -> Turns]
    /\ wire \in Seq(Messages)
    /\ peers \in [Peers -> PeerRecords]
    /\ told \in [Tids -> Nat]
    /\ \A t \in DOMAIN store : t \in Nat /\ store[t] \in Stored(t)

\* The work a lane takes.
LEMMA TakenWork ==
    ASSUME Types, NEW l \in Lanes, Takes(l)
    PROVE  /\ lanes' \in [Lanes -> Seq(Tasks)]
           /\ Work(l) \in Tasks
           /\ lanes[l] # <<>>
           /\ Work(l).do = "Deliver" => Work(l).m \in InboundMessages /\ Work(l) = Deliver(Work(l).m)
<1>1. lanes[l] \in Seq(Tasks) /\ lanes[l] # <<>>
    BY DEF Types, Takes
<1> DEFINE rest == Tail(lanes[l])
<1>2. rest \in Seq(Tasks) /\ Work(l) \in Tasks
    BY <1>1 DEF Work
<1>3. lanes' = [lanes EXCEPT ![l] = rest]
    BY DEF Takes
<1> HIDE DEF rest
<1>4. lanes' \in [Lanes -> Seq(Tasks)]
    BY <1>2, <1>3 DEF Types
<1>5. ASSUME Work(l).do = "Deliver"
      PROVE  Work(l).m \in InboundMessages /\ Work(l) = Deliver(Work(l).m)
    <2>1. CASE \E m \in InboundMessages : Work(l) = Deliver(m)
        BY <2>1 DEF Deliver
    <2>2. CASE \E t \in Nat : Work(l) = Timers(t)
        BY <1>5, <2>2 DEF Timers
    <2> QED BY <1>2, <2>1, <2>2 DEF Tasks
<1> QED BY <1>1, <1>2, <1>4, <1>5

\* A dialogue that is taken out of the store is none the less one.
LEMMA RemovedType ==
    ASSUME Types, NEW t, store' = Removed(t)
    PROVE  \A x \in DOMAIN store' : x \in Nat /\ store'[x] \in Stored(x)
BY DEF Types, Removed

\* A claim that is given back leaves the dialogue as it was.
LEMMA ReleasedType ==
    ASSUME Types, NEW t, store' = Released(t)
    PROVE  \A x \in DOMAIN store' : x \in Nat /\ store'[x] \in Stored(x)
BY DEF Types, Released, Stored

\* What is answered is a message.
LEMMA PAbortType ==
    ASSUME NEW p \in Peers \cup {NoPeer}, NEW cause \in Notes
    PROVE  PAbort(p, cause) \in Messages
BY DEF PAbort, Message, Messages

\* What is sent joins the messages on their way.
LEMMA SendsType ==
    ASSUME Types, NEW out \in Seq(Messages), Sends(out)
    PROVE  wire' \in Seq(Messages)
BY DEF Types, Sends

\* A lane at rest has a turn of the right shape.
LEMMA NoTurnType == NoTurn \in Turns
<1> DEFINE d == NewDialogue("Responder", 0, NoPeer, FALSE)
           none == <<>>
<1>0. d \in DialoguesOf(0)
    BY NewType
<1>1. d \in DialoguesOf(0) /\ none \in Seq(Operations)
    <2> HIDE DEF d
    <2> QED BY <1>0
<1>2. NoTurn = [kind |-> "None", dlg |-> d, idle |-> FALSE, expired |-> none]
    BY DEF NoTurn, Turn
<1>3. d \in UNION {DialoguesOf(t) : t \in Nat}
    BY <1>1
<1> HIDE DEF d, none
<1> QED BY <1>1, <1>2, <1>3 DEF Turns

\* The node starts with well-formed state.
LEMMA InitTypes == ASSUME Init PROVE Types
<1> DEFINE none == <<>>
<1>1. none \in Seq(Tasks) /\ none \in Seq(InboundMessages) /\ none \in Seq(Messages)
      /\ none \in Seq(Operations)
    OBVIOUS
<1>2. lanes \in [Lanes -> Seq(Tasks)]
    <2>1. lanes = [l \in Lanes |-> none]
        BY DEF Init
    <2> HIDE DEF none
    <2> QED BY <1>1, <2>1
<1>4. DOMAIN store = {}
    BY DEF Init
<1>5. turn \in [Threads -> Turns]
    BY NoTurnType DEF Init
<1>6. local \in Seq(InboundMessages) /\ wire \in Seq(Messages)
    BY <1>1 DEF Init
<1>7. peers \in [Peers -> PeerRecords]
    BY DEF Init, PeerRecords
<1> QED BY <1>2, <1>4, <1>5, <1>6, <1>7 DEF Init, Types

\* The lanes.
LEMMA LaneStepTypes ==
    ASSUME Types, NEW l \in Lanes, LaneStep(l)
    PROVE  Types'
<1> DEFINE w == Work(l)
           m == w.m
<1>0. /\ Takes(l)
      /\ UNCHANGED <<local, peers>>
    BY DEF LaneStep, Discards, ReturnsExhausted, OnProblem, RefuseBegin, UnservedBegin, OnBegin,
           Unknown, OnTurn, OnAbort, ExpireNothing, Expire
<1>1. /\ lanes' \in [Lanes -> Seq(Tasks)]
      /\ w.do = "Deliver" => m \in InboundMessages
      /\ l \in Threads
    BY <1>0, TakenWork DEF Threads
<1>2. m \in InboundMessages => m.otid \in Peers \cup {NoPeer}
    BY DEF InboundMessages
<1>3. SUFFICES /\ counter' \in Nat /\ turn' \in [Threads -> Turns]
               /\ wire' \in Seq(Messages) /\ told' \in [Tids -> Nat]
               /\ \A t \in DOMAIN store' : t \in Nat /\ store'[t] \in Stored(t)
    BY <1>0, <1>1 DEF Types
<1>4. ASSUME NEW p \in Peers \cup {NoPeer}, NEW cause \in Notes
      PROVE  <<PAbort(p, cause)>> \in Seq(Messages)
    <2> DEFINE a == PAbort(p, cause)
    <2>1. a \in Messages
        BY PAbortType
    <2> HIDE DEF a
    <2>2. <<a>> \in Seq(Messages)
        BY <2>1
    <2> QED BY <2>2 DEF a
<1>5. <<>> \in Seq(Messages)
    OBVIOUS
<1>6. CASE Discards(l)
    BY <1>6 DEF Discards, Types
<1>7. CASE ReturnsExhausted(l)
    <2> DEFINE a == Message("Returned", 0, m.otid, {}, {}, "HopCounter")
    <2>1. a \in Messages
        BY <1>1, <1>2, <1>7 DEF ReturnsExhausted, Message, Messages, Notes
    <2>2. Sends(<<a>>) \/ Sends(<<>>)
        BY <1>7 DEF ReturnsExhausted, ReturnOf
    <2> HIDE DEF a
    <2>3. <<a>> \in Seq(Messages)
        BY <2>1
    <2>4. wire' \in Seq(Messages)
        BY <1>5, <2>2, <2>3, SendsType
    <2> QED BY <1>7, <2>4 DEF ReturnsExhausted, Types
<1>8. CASE OnProblem(l)
    <2>1. m \in InboundMessages /\ m.fault \in Notes
        BY <1>1, <1>8 DEF OnProblem, InboundMessages, Notes
    <2>2. Sends(<<PAbort(m.otid, m.fault)>>) \/ Sends(<<>>)
        BY <1>8 DEF OnProblem
    <2>3. wire' \in Seq(Messages)
        BY <1>2, <1>4, <1>5, <2>1, <2>2, SendsType
    <2>4. \A t \in DOMAIN store' : t \in Nat /\ store'[t] \in Stored(t)
        BY <1>8, RemovedType DEF OnProblem
    <2>5. told' \in [Tids -> Nat]
        BY <1>8 DEF OnProblem, Types
    <2> QED BY <1>8, <2>3, <2>4, <2>5 DEF OnProblem, Types
<1>9. CASE RefuseBegin(l)
    <2>1. m \in InboundMessages
        BY <1>1, <1>9 DEF RefuseBegin, Understood
    <2> DEFINE cause == IF Ceiling THEN "Resource" ELSE m.portion
    <2>2. cause \in Notes
        BY <2>1 DEF InboundMessages, Notes
    <2>3. Sends(<<PAbort(m.otid, cause)>>)
        BY <1>9 DEF RefuseBegin
    <2> HIDE DEF cause
    <2>4. wire' \in Seq(Messages)
        BY <1>2, <1>4, <2>1, <2>2, <2>3, SendsType
    <2> QED BY <1>9, <2>4 DEF RefuseBegin, Types
<1>10. CASE UnservedBegin(l)
    <2>1. m \in InboundMessages /\ Sends(UnservedAnswer(m)) /\ counter \in Nat
        BY <1>1, <1>10 DEF UnservedBegin, Understood, Types
    <2>2. Opened(m) \in DialoguesOf(counter + 1) /\ counter + 1 \in Nat
        BY <2>1, OpenedType
    <2>3. UnservedAnswer(m) \in Seq(Messages)
        <3> DEFINE d == Opened(m)
        <3>1. Flush(d, TRUE) \in DialoguesOf(counter + 1)
            BY <2>2, FlushType
        <3>2. AbortAs(d, "Aborted") \in DialoguesOf(counter + 1)
            BY <2>2, AbortType DEF Endings
        <3> QED BY <3>1, <3>2 DEF UnservedAnswer, DialoguesOf
    <2>4. wire' \in Seq(Messages)
        BY <2>1, <2>3, SendsType
    <2> QED BY <1>10, <2>1, <2>4 DEF UnservedBegin, Types
<1>11. ASSUME NEW kind \in {"Begin", "Continue", "End", "Timer", "Start"},
              NEW t \in Nat, NEW d \in DialoguesOf(t), NEW idle \in BOOLEAN,
              NEW expired \in Seq(Operations), Starts(l, Turn(kind, d, idle, expired))
       PROVE  turn' \in [Threads -> Turns]
    <2>1. Turn(kind, d, idle, expired) \in Turns
        <3>1. d \in UNION {DialoguesOf(u) : u \in Nat}
            OBVIOUS
        <3> QED BY <3>1 DEF Turn, Turns
    <2> QED BY <1>11, <2>1 DEF Starts, Types
<1>12. <<>> \in Seq(Operations)
    OBVIOUS
<1>13. CASE OnBegin(l)
    <2>1. m \in InboundMessages /\ counter \in Nat /\ Starts(l, Turn("Begin", Opened(m), FALSE, <<>>))
        BY <1>1, <1>13 DEF OnBegin, Understood, Types
    <2>2. Opened(m) \in DialoguesOf(counter + 1) /\ counter + 1 \in Nat
        BY <2>1, OpenedType
    <2>3. turn' \in [Threads -> Turns]
        BY <1>11, <1>12, <2>1, <2>2
    <2> QED BY <1>13, <2>1, <2>3 DEF OnBegin, Types
<1>14. CASE Unknown(l)
    <2>1. m \in InboundMessages
        BY <1>1, <1>14 DEF Unknown, Understood
    <2>2. Sends(<<PAbort(m.otid, "Unrecognized")>>) \/ Sends(<<>>)
        BY <1>14 DEF Unknown
    <2>3. "Unrecognized" \in Notes
        BY DEF Notes
    <2>4. wire' \in Seq(Messages)
        BY <1>2, <1>4, <1>5, <2>1, <2>2, <2>3, SendsType
    <2> QED BY <1>14, <2>4 DEF Unknown, Types
<1>15. CASE OnTurn(l)
    <2>1. /\ m \in InboundMessages /\ m.type \in {"Continue", "End"} /\ m.dtid \in DOMAIN store
          /\ Starts(l, Turn(m.type, Received(store[m.dtid].dlg, m), FALSE, <<>>))
        BY <1>1, <1>15 DEF OnTurn, Understood
    <2>2. m.dtid \in Nat /\ store[m.dtid].dlg \in DialoguesOf(m.dtid)
        BY <2>1 DEF Types, Stored
    <2>3. Received(store[m.dtid].dlg, m) \in DialoguesOf(m.dtid)
        BY <2>1, <2>2, ReceivedType
    <2>4. turn' \in [Threads -> Turns]
        BY <1>11, <1>12, <2>1, <2>2, <2>3
    <2>5. \A t \in DOMAIN store' : t \in Nat /\ store'[t] \in Stored(t)
        BY <1>15, RemovedType DEF OnTurn
    <2> QED BY <1>15, <2>4, <2>5 DEF OnTurn, Types
<1>16. CASE OnAbort(l)
    <2>1. \A t \in DOMAIN store' : t \in Nat /\ store'[t] \in Stored(t)
        BY <1>16, RemovedType DEF OnAbort
    <2>2. told' \in [Tids -> Nat]
        <3> DEFINE t == m.dtid
        <3>1. told' = [told EXCEPT ![t] = told[t] + 1] /\ told \in [Tids -> Nat]
            BY <1>16 DEF OnAbort, Types
        <3> HIDE DEF t
        <3>2. t \in Tids => told[t] + 1 \in Nat
            BY <3>1
        <3> QED BY <3>1, <3>2
    <2> QED BY <1>16, <2>1, <2>2 DEF OnAbort, Types
<1>17. ASSUME NEW t \in Tids, ExpireNothing(l, t)
       PROVE  \A x \in DOMAIN store' : x \in Nat /\ store'[x] \in Stored(x)
    BY <1>17, ReleasedType DEF ExpireNothing
<1>18. ASSUME NEW t \in Tids, Expire(l, t)
       PROVE  /\ turn' \in [Threads -> Turns]
              /\ \A x \in DOMAIN store' : x \in Nat /\ store'[x] \in Stored(x)
    <2> DEFINE d == store[t].dlg
               left == Only(d.outstanding, IsWaitedFor)
               due == Only(d.outstanding, IsDue)
               idle == IdleExpired(store[t])
               e == [d EXCEPT !.outstanding = left]
    <2>1. t \in Nat /\ d \in DialoguesOf(t) /\ store[t].idle \in BOOLEAN
        BY <1>18 DEF Expire, Types, Stored
    <2>2. d.outstanding \in Seq(Operations) /\ d.ages \in BOOLEAN
        BY <2>1 DEF DialoguesOf
    <2>3. left \in Seq(Operations)
        <3> DEFINE I == {i \in 1 .. Len(d.outstanding) : IsWaitedFor(d.outstanding[i])}
        <3>1. left = Those(d.outstanding, I)
            BY DEF Only
        <3>2. I \in SUBSET (1 .. Len(d.outstanding))
            OBVIOUS
        <3> HIDE DEF I, left, d
        <3> QED BY <2>2, <3>1, <3>2, ThoseKeeps
    <2>4. due \in Seq(Operations)
        <3> DEFINE I == {i \in 1 .. Len(d.outstanding) : IsDue(d.outstanding[i])}
        <3>1. due = Those(d.outstanding, I)
            BY DEF Only
        <3>2. I \in SUBSET (1 .. Len(d.outstanding))
            OBVIOUS
        <3> HIDE DEF I, due, d
        <3> QED BY <2>2, <3>1, <3>2, ThoseKeeps
    <2>5. Starts(l, Turn("Timer", e, idle, due))
        BY <1>18 DEF Expire
    <2>6. idle \in BOOLEAN
        BY <2>1, <2>2, Zenon DEF IdleExpired
    <2>7. e \in DialoguesOf(t)
        <3> HIDE DEF left
        <3> QED BY <2>1, <2>3 DEF DialoguesOf
    <2> HIDE DEF e, idle, due
    <2>8. turn' \in [Threads -> Turns]
        BY <1>11, <2>1, <2>4, <2>5, <2>6, <2>7
    <2> QED BY <1>18, <2>8, RemovedType DEF Expire
<1>19. CASE \E t \in Tids : ExpireNothing(l, t) \/ Expire(l, t)
    BY <1>17, <1>18, <1>19 DEF ExpireNothing, Expire, Types
<1> QED BY <1>6, <1>7, <1>8, <1>9, <1>10, <1>13, <1>14, <1>15, <1>16, <1>19 DEF LaneStep

\* A turn that ends puts back, or tells.
LEMMA TurnEndsTypes ==
    ASSUME Types, NEW l \in Threads, TurnEnds(l)
    PROVE  Types'
<1> DEFINE k == turn[l]
<1>1. k \in Turns /\ k.kind # "None"
    BY DEF TurnEnds, Returns, Types
<1>2. PICK scripts \in [Callbacks(k) -> Scripts] : Finish(k, Handled(k, scripts))
    BY DEF TurnEnds
<1> DEFINE d == Handled(k, scripts)
           t == k.dlg.our
<1>3. t \in Nat /\ d \in DialoguesOf(t)
    BY <1>1, HandledType
<1>4. turn' \in [Threads -> Turns]
    <2>1. turn' = [turn EXCEPT ![l] = NoTurn]
        BY DEF TurnEnds, Returns
    <2> QED BY <2>1, NoTurnType DEF Types
<1>5. wire' \in Seq(Messages)
    <2>1. d.out \in Seq(Messages) /\ Sends(d.out)
        BY <1>2, <1>3 DEF Finish, DialoguesOf
    <2> QED BY <2>1, SendsType
<1>6. told' \in [Tids -> Nat]
    <2> DEFINE u == d.our
    <2>1. told \in [Tids -> Nat]
        BY DEF Types
    <2>2. told' = told \/ told' = [told EXCEPT ![u] = told[u] + 1]
        BY <1>2 DEF Finish
    <2> HIDE DEF u
    <2>3. u \in Tids => told[u] + 1 \in Nat
        BY <2>1
    <2> QED BY <2>1, <2>2, <2>3
<1>7. \A x \in DOMAIN store' : x \in Nat /\ store'[x] \in Stored(x)
    <2> DEFINE none == <<>>
               e == [d EXCEPT !.out = none]
               idle == k.kind = "Timer" /\ d.out = <<>> /\ k.idle
    <2>1. none \in Seq(Messages) /\ d.our = t
        BY <1>3 DEF DialoguesOf
    <2>2. e \in DialoguesOf(t)
        <3> HIDE DEF none, d
        <3> QED BY <1>3, <2>1 DEF DialoguesOf
    <2>3. idle \in BOOLEAN
        BY <1>1, Zenon DEF Turns
    <2>4. store' = store \/ store' = Storing(t, Record(e, idle))
        BY <1>2, <2>1 DEF Finish, StoredBack
    <2> HIDE DEF e, idle, d, t
    <2>5. Record(e, idle) \in Stored(t)
        BY <2>2, <2>3 DEF Record, Stored
    <2> DEFINE r == Record(e, idle)
    <2> HIDE DEF r
    <2>6. r \in Stored(t) /\ (store' = store \/ store' = Storing(t, r))
        BY <2>4, <2>5 DEF r
    <2> QED BY <1>3, <2>6 DEF Types, Storing
<1> QED BY <1>4, <1>5, <1>6, <1>7 DEF TurnEnds, Types

\* The peer says what a peer may say.
LEMMA PeerSendsTypes ==
    ASSUME Types, NEW p \in Peers, NEW m \in InboundMessages, NEW after \in PeerRecords,
           PeerSends(p, m, after)
    PROVE  Types'
<1>1. local' \in Seq(InboundMessages)
    BY DEF PeerSends, Types
<1>2. peers' \in [Peers -> PeerRecords]
    BY DEF PeerSends, Types
<1> QED BY <1>1, <1>2 DEF PeerSends, Types

\* What the peer says is a component that answers what it was asked.
LEMMA SaidType ==
    ASSUME Types, NEW p \in Peers, NEW f, NEW c \in PeerSays(p, f)
    PROVE  c \in Seq(Components)
<1>1. NoComponents \in Seq(Components)
    BY DEF NoComponents
<1>2. ASSUME NEW k \in Answering, NEW i \in peers[p].asked
      PROVE  <<[kind |-> k, id |-> i]>> \in Seq(Components)
    <2>1. k \in Kinds /\ i \in Int
        BY OpeningsAssumption DEF Types, PeerRecords
    <2> DEFINE e == [kind |-> k, id |-> i]
    <2>2. e \in Components
        BY <2>1 DEF Components
    <2> HIDE DEF e
    <2>3. <<e>> \in Seq(Components)
        BY <2>2
    <2> QED BY <2>3 DEF e
<1>3. c = NoComponents \/ \E k \in Answering, i \in peers[p].asked : c = <<[kind |-> k, id |-> i]>>
    <2> DEFINE S == {<<[kind |-> k, id |-> i]>> : k \in Answering, i \in peers[p].asked}
    <2>1. PeerSays(p, f) = {NoComponents} \cup IF f # "None" THEN {} ELSE S
        BY DEF PeerSays
    <2>2. \A e \in S : \E k \in Answering, i \in peers[p].asked : e = <<[kind |-> k, id |-> i]>>
        OBVIOUS
    <2> HIDE DEF S
    <2>3. c = NoComponents \/ c \in S
        BY <2>1
    <2> QED BY <2>2, <2>3
<1> QED BY <1>1, <1>2, <1>3, Zenon

\* A message of the peer is one that can be received.
LEMMA InboundType ==
    ASSUME NEW type \in {"Begin", "Continue", "End", "Abort", "Unidirectional"},
           NEW otid \in Peers \cup {NoPeer}, NEW dtid \in Nat, NEW c \in Seq(Components),
           NEW f \in PeerFaults
    PROVE  Inbound(type, otid, dtid, c, f) \in InboundMessages
<1>1. f \in {"None", "Component", "Transaction", "Dialogue", "Unreadable"}
    BY DEF PeerFaults
<1> QED BY <1>1 DEF Inbound, InboundMessages, Components, Forms

\* What the peer says in an open transaction, however the SCCP brings it.
Spoken(type, otid, dtid, c, f, form) == [Inbound(type, otid, dtid, c, f) EXCEPT !.form = form]

\* It is a message that can be received.
LEMMA SpokenType ==
    ASSUME NEW type \in {"Begin", "Continue", "End", "Abort", "Unidirectional"},
           NEW otid \in Peers \cup {NoPeer}, NEW dtid \in Nat, NEW c \in Seq(Components),
           NEW f \in PeerFaults, NEW form \in PeerForms
    PROVE  Spoken(type, otid, dtid, c, f, form) \in InboundMessages
<1>1. form \in Forms
    BY DEF PeerForms, Forms
<1>2. Inbound(type, otid, dtid, c, f) \in InboundMessages
    BY InboundType
<1> QED BY <1>1, <1>2 DEF Spoken, InboundMessages

\* Under the names it was given.
LEMMA SpokenNames ==
    ASSUME NEW type, NEW otid, NEW dtid, NEW c, NEW f, NEW form, NEW m, m = Spoken(type, otid, dtid, c, f, form)
    PROVE  m.type = type /\ m.otid = otid /\ m.dtid = dtid
BY DEF Spoken, Inbound

\* The peer leaves the state well formed.
LEMMA PeerStepTypes ==
    ASSUME Types, PeerStep
    PROVE  Types'
<1>1. ASSUME NEW p \in Peers, PeerBegins(p) PROVE Types'
    <2>1. PICK o \in Openings :
              PeerSends(p, [o EXCEPT !.otid = p],
                        [peers[p] EXCEPT !.state = IF o.type = "Begin" THEN "Sent" ELSE "Over",
                                         !.spoke = TRUE])
        BY <1>1 DEF PeerBegins
    <2>2. [o EXCEPT !.otid = p] \in InboundMessages
        <3>1. o \in InboundMessages
            BY OpeningsAssumption
        <3> QED BY <3>1 DEF InboundMessages
    <2>3. [peers[p] EXCEPT !.state = IF o.type = "Begin" THEN "Sent" ELSE "Over", !.spoke = TRUE]
              \in PeerRecords
        BY DEF Types, PeerRecords
    <2> QED BY <2>1, <2>2, <2>3, PeerSendsTypes
<1>2. ASSUME NEW p \in Peers
      PROVE  /\ peers[p] \in PeerRecords /\ peers[p].ours \in Nat /\ p \in Peers \cup {NoPeer}
             /\ [peers[p] EXCEPT !.state = "Over"] \in PeerRecords
             /\ \A S : [peers[p] EXCEPT !.spoke = TRUE, !.asked = peers[p].asked \ S] \in PeerRecords
    BY DEF Types, PeerRecords
<1>3. ASSUME NEW p \in Peers, PeerContinues(p) PROVE Types'
    <2>1. PICK f \in PeerFaults, form \in PeerForms : \E c \in PeerSays(p, f) :
              PeerSends(p, Spoken("Continue", p, peers[p].ours, c, f, form),
                        [peers[p] EXCEPT !.spoke = TRUE, !.asked = peers[p].asked \ Answers(c)])
        BY <1>3 DEF PeerContinues, Spoken
    <2>2. PICK c \in PeerSays(p, f) :
              PeerSends(p, Spoken("Continue", p, peers[p].ours, c, f, form),
                        [peers[p] EXCEPT !.spoke = TRUE, !.asked = peers[p].asked \ Answers(c)])
        BY <2>1
    <2>3. Spoken("Continue", p, peers[p].ours, c, f, form) \in InboundMessages
        BY <1>2, SaidType, SpokenType
    <2>4. [peers[p] EXCEPT !.spoke = TRUE, !.asked = peers[p].asked \ Answers(c)] \in PeerRecords
        BY <1>2
    <2> QED BY <2>2, <2>3, <2>4, PeerSendsTypes
<1>5. NoComponents \in Seq(Components) /\ NoPeer \in Peers \cup {NoPeer}
    BY DEF NoComponents
<1>4. ASSUME NEW p \in Peers, PeerEnds(p) PROVE Types'
    <2>1. PICK f \in PeerFaults, form \in PeerForms : \E c \in PeerSays(p, f) :
              PeerSends(p, Spoken("End", NoPeer, peers[p].ours, c, f, form),
                        [peers[p] EXCEPT !.state = "Over"])
        BY <1>4 DEF PeerEnds, Spoken
    <2>2. PICK c \in PeerSays(p, f) :
              PeerSends(p, Spoken("End", NoPeer, peers[p].ours, c, f, form),
                        [peers[p] EXCEPT !.state = "Over"])
        BY <2>1
    <2>3. Spoken("End", NoPeer, peers[p].ours, c, f, form) \in InboundMessages
        BY <1>2, <1>5, SaidType, SpokenType
    <2> QED BY <1>2, <2>2, <2>3, PeerSendsTypes
<1>6. ASSUME NEW p \in Peers, PeerAborts(p) PROVE Types'
    <2>1. PICK f \in PeerFaults, form \in PeerForms :
              PeerSends(p, Spoken("Abort", NoPeer, peers[p].ours, NoComponents, f, form),
                        [peers[p] EXCEPT !.state = "Over"])
        BY <1>6 DEF PeerAborts, Spoken
    <2>2. Spoken("Abort", NoPeer, peers[p].ours, NoComponents, f, form) \in InboundMessages
        BY <1>2, <1>5, SpokenType
    <2> QED BY <1>2, <2>1, <2>2, PeerSendsTypes
<1>7. ASSUME PeerReceives PROVE Types'
    <2> DEFINE m == Head(wire)
    <2>1. m \in Messages /\ Tail(wire) \in Seq(Messages)
        BY <1>7 DEF PeerReceives, Types
    <2>2. m.otid \in Nat /\ m.asks \in SUBSET Int
        BY <2>1 DEF Messages
    <2>3. local' \in Seq(InboundMessages)
        <3> DEFINE a == Inbound("Abort", NoPeer, m.otid, NoComponents, "None")
        <3>1. a \in InboundMessages
            <4>1. "None" \in PeerFaults
                BY DEF PeerFaults
            <4> HIDE DEF m
            <4> QED BY <1>5, <2>2, <4>1, InboundType
        <3>2. local' = local \/ local' = Append(local, a)
            BY <1>7 DEF PeerReceives
        <3>3. local \in Seq(InboundMessages)
            BY DEF Types
        <3> HIDE DEF a
        <3> QED BY <3>1, <3>2, <3>3
    <2>4. peers' \in [Peers -> PeerRecords]
        <3>1. \/ peers' = peers
              \/ \E p \in IdlePeers \cup {m.dtid} : peers' = [peers EXCEPT ![p] = PeerHears(p, m)]
            BY <1>7 DEF PeerReceives
        <3>2. ASSUME NEW p \in Peers PROVE PeerHears(p, m) \in PeerRecords
            <4> HIDE DEF m
            <4> QED BY <1>2, <2>2 DEF PeerHears, PeerRecords
        <3> HIDE DEF m
        <3> QED BY <3>1, <3>2 DEF Types
    <2> QED BY <1>7, <2>1, <2>3, <2>4 DEF PeerReceives, Types
<1> QED BY <1>1, <1>3, <1>4, <1>6, <1>7 DEF PeerStep

\* The peer moves nothing of this node but its channel.
LEMMA PeerKeeps ==
    ASSUME PeerStep
    PROVE  UNCHANGED <<store, turn, told, untold, counter, sweeping, lanes>>
<1>1. ASSUME NEW p, NEW m, NEW after, PeerSends(p, m, after)
      PROVE  UNCHANGED <<store, turn, told, untold, counter, sweeping, lanes>>
    BY <1>1 DEF PeerSends
<1>2. PeerReceives => UNCHANGED <<store, turn, told, untold, counter, sweeping, lanes>>
    BY DEF PeerReceives
<1>3. ASSUME NEW p \in Peers, PeerBegins(p) \/ PeerContinues(p) \/ PeerEnds(p) \/ PeerAborts(p)
      PROVE  UNCHANGED <<store, turn, told, untold, counter, sweeping, lanes>>
    BY <1>1, <1>3, Zenon DEF PeerBegins, PeerContinues, PeerEnds, PeerAborts
<1> QED BY <1>2, <1>3 DEF PeerStep

\* Every step keeps the types.
LEMMA NextTypes == ASSUME Types, [Next]_vars PROVE Types'
<1>0. \A t \in Tids : t \in Nat
    BY DEF Tids
<1>1. CASE Dispatch
    <2>1. PICK l \in Lanes :
              /\ local # <<>> /\ local' = Tail(local)
              /\ lanes' = [lanes EXCEPT ![l] = Append(lanes[l], Deliver(Head(local)))]
        BY <1>1 DEF Dispatch, Dispatches
    <2> DEFINE w == Deliver(Head(local))
    <2>2. w \in Tasks /\ local' \in Seq(InboundMessages)
        BY <2>1 DEF Types, Tasks
    <2> HIDE DEF w
    <2>3. Append(lanes[l], w) \in Seq(Tasks)
        BY <2>2 DEF Types
    <2>4. lanes' \in [Lanes -> Seq(Tasks)]
        BY <2>1, <2>3 DEF Types, w
    <2> QED BY <1>1, <2>2, <2>4 DEF Dispatch, Types
<1>2. CASE Sweep
    <2>1. \A t \in DOMAIN store' : t \in Nat /\ store'[t] \in Stored(t)
        BY <1>2 DEF Sweep, Claims, Types, Stored
    <2> QED BY <1>2, <2>1 DEF Sweep, Types
<1>3. ASSUME NEW t \in Tids, QueueTimers(t) PROVE Types'
    <2> DEFINE w == Timers(t)
               l == LaneOfTid[t]
    <2>1. w \in Tasks /\ l \in Lanes
        BY <1>0, LaneOfAssumption DEF Tasks
    <2>2. \/ UNCHANGED store /\ lanes' = [lanes EXCEPT ![l] = Append(lanes[l], w)]
          \/ UNCHANGED lanes /\ store' = Released(t)
        BY <1>3 DEF QueueTimers
    <2> HIDE DEF w, l
    <2>3. Append(lanes[l], w) \in Seq(Tasks)
        BY <2>1 DEF Types
    <2>4. lanes' \in [Lanes -> Seq(Tasks)]
        BY <2>1, <2>2, <2>3 DEF Types
    <2>5. \A x \in DOMAIN store' : x \in Nat /\ store'[x] \in Stored(x)
        BY <2>2, ReleasedType DEF Types
    <2> QED BY <1>3, <2>4, <2>5 DEF QueueTimers, Types
<1>4. ASSUME NEW t \in Tids, Elapses(t) PROVE Types'
    <2>1. \A x \in DOMAIN store' : x \in Nat /\ store'[x] \in Stored(x)
        <3>1. CASE IdleElapses(t)
            BY <3>1 DEF IdleElapses, Types, Stored
        <3>2. ASSUME NEW i, InvokeElapses(t, i)
              PROVE  \A x \in DOMAIN store' : x \in Nat /\ store'[x] \in Stored(x)
            <4> DEFINE d == store[t].dlg
                       ops == [d.outstanding EXCEPT ![i] = [d.outstanding[i] EXCEPT !.due = TRUE]]
                       e == [d EXCEPT !.outstanding = ops]
            <4>1. /\ t \in DOMAIN store /\ store[t] \in Stored(t) /\ d \in DialoguesOf(t)
                  /\ store' = [store EXCEPT ![t] = [store[t] EXCEPT !.dlg = e]]
                BY <3>2 DEF InvokeElapses, Types, Stored
            <4>2. ops \in Seq(Operations)
                <5>1. d.outstanding \in Seq(Operations)
                    BY <4>1 DEF DialoguesOf
                <5>2. i \in 1 .. Len(d.outstanding)
                    BY <3>2, <5>1 DEF InvokeElapses
                <5> DEFINE o == [d.outstanding[i] EXCEPT !.due = TRUE]
                <5>3. o \in Operations
                    <6> DEFINE p == d.outstanding[i]
                    <6>1. p \in Operations
                        <7> HIDE DEF d
                        <7> QED BY <5>1, <5>2
                    <6> HIDE DEF p
                    <6>2. [p EXCEPT !.due = TRUE] \in Operations
                        BY <6>1 DEF Operations
                    <6> QED BY <6>2 DEF p
                <5> HIDE DEF o, d
                <5>4. [d.outstanding EXCEPT ![i] = o] \in Seq(Operations)
                    BY <5>1, <5>2, <5>3
                <5> QED BY <5>4 DEF o
            <4>3. e \in DialoguesOf(t)
                <5> HIDE DEF ops, d
                <5> QED BY <4>1, <4>2 DEF DialoguesOf
            <4> HIDE DEF e
            <4>4. [store[t] EXCEPT !.dlg = e] \in Stored(t)
                BY <4>1, <4>3 DEF Stored
            <4> QED BY <4>1, <4>4 DEF Types
        <3> QED BY <1>4, <3>1, <3>2 DEF Elapses
    <2> QED BY <1>4, <2>1 DEF Elapses, Types
<1>5. ASSUME NEW l \in Lanes, LaneStep(l) PROVE Types'
    BY <1>5, LaneStepTypes
<1>6. ASSUME NEW l \in Threads, TurnEnds(l) PROVE Types'
    BY <1>6, TurnEndsTypes
<1>7. ASSUME NEW l \in Threads, Panics(l) PROVE Types'
    BY <1>7, NoTurnType DEF Panics, Returns, Types
<1>8. CASE Originate
    <2> DEFINE d == NewDialogue("Initiator", counter + 1, NoPeer, TRUE)
               none == <<>>
               k == Turn("Start", d, FALSE, none)
    <2>1. counter + 1 \in Nat /\ none \in Seq(Operations)
        BY DEF Types
    <2>2. d \in DialoguesOf(counter + 1)
        BY <2>1, NewType
    <2>3. k \in Turns
        <3>1. d \in UNION {DialoguesOf(t) : t \in Nat}
            BY <2>1, <2>2
        <3> HIDE DEF d, none
        <3> QED BY <2>1, <3>1 DEF Turn, Turns
    <2>4. turn' = [turn EXCEPT ![Origin] = k]
        BY <1>8 DEF Originate, Starts
    <2> HIDE DEF k
    <2>5. turn' \in [Threads -> Turns]
        BY <2>3, <2>4 DEF Types
    <2> QED BY <1>8, <2>1, <2>5 DEF Originate, Types
<1>9. CASE PeerStep
    BY <1>9, PeerStepTypes
<1>10. CASE Loses
    BY <1>10 DEF Loses, Types
<1>11. CASE UNCHANGED vars
    BY <1>11 DEF vars, Types
<1> QED BY <1>1, <1>2, <1>3, <1>4, <1>5, <1>6, <1>7, <1>8, <1>9, <1>10, <1>11 DEF Next

----------------------------------------------------------------------------
(* A dialogue is in one place, and its handler told once.                  *)

\* The dialogue a thread has in hand is t.
Runs(l, t) == turn[l].kind # "None" /\ turn[l].dlg.our = t

\* Nobody else has a dialogue that is stored or in a turn, and what is gone
\* does not come back: the ids are taken from a counter.
OwnedInv ==
    /\ ToldOnce
    /\ \A t \in DOMAIN store, l \in Threads : ~Runs(l, t)
    /\ \A k, l \in Threads : \A t : Runs(k, t) /\ Runs(l, t) => k = l
    /\ \A t \in DOMAIN store : t <= counter
    /\ \A l \in Threads : \A t : Runs(l, t) => t \in Nat /\ t <= counter
    /\ \A t \in untold : t \in Nat /\ t <= counter /\ ~Alive(t)
    /\ \A t \in Tids : told[t] # 0 => t <= counter

\* The node starts with no dialogue to own.
LEMMA InitOwned == ASSUME Init PROVE OwnedInv
<1>1. DOMAIN store = {} /\ untold = {} /\ \A t \in Tids : told[t] = 0
    BY DEF Init
<1>2. \A l \in Threads : turn[l].kind = "None"
    BY DEF Init, NoTurn, Turn
<1>3. \A t \in Tids : t > counter
    BY DEF Init, Tids
<1> QED BY <1>1, <1>2, <1>3 DEF OwnedInv, Runs, ToldOnce, Alive, InTurn

\* Nothing begins, ends or moves.
LEMMA NobodyMoves ==
    ASSUME OwnedInv, DOMAIN store' = DOMAIN store, UNCHANGED <<turn, told, untold, counter>>
    PROVE  OwnedInv'
<1>1. \A t : Alive(t)' <=> Alive(t)
    BY DEF Alive, InTurn
<1>2. \A l, t : Runs(l, t)' <=> Runs(l, t)
    BY DEF Runs
<1>3. ToldOnce'
    BY <1>1 DEF OwnedInv, ToldOnce
<1> QED BY <1>1, <1>2, <1>3 DEF OwnedInv

\* A Begin found no handler: its dialogue has an id, and nobody to tell.
LEMMA NobodyIsServed ==
    ASSUME Types, OwnedInv, UNCHANGED <<store, turn, told>>,
           counter' = counter + 1, untold' = untold \cup {counter + 1}
    PROVE  OwnedInv'
<1>1. counter \in Nat /\ counter < counter' /\ counter' \in Nat
    BY DEF Types
<1>2. \A t : Alive(t)' <=> Alive(t)
    BY DEF Alive, InTurn
<1>3. \A l, t : Runs(l, t)' <=> Runs(l, t)
    BY DEF Runs
<1>4. \A t : Alive(t) => t <= counter
    BY DEF OwnedInv, Alive, InTurn, Runs
<1>5. ~Alive(counter')
    BY <1>1, <1>4
<1>6. \A t \in Nat : t > counter' \/ t \in untold' <=> t > counter \/ t \in untold
    BY <1>1
<1>7. ToldOnce'
    BY <1>2, <1>6 DEF OwnedInv, ToldOnce, Tids
<1>8. \A t \in DOMAIN store' : t <= counter'
    BY <1>1 DEF OwnedInv, Types
<1>9. \A t \in Tids : told'[t] # 0 => t <= counter'
    BY <1>1 DEF OwnedInv, Tids
<1>10. \A t \in untold' : t \in Nat /\ t <= counter' /\ ~Alive(t)'
    BY <1>1, <1>2, <1>5 DEF OwnedInv
<1>11. \A l \in Threads : \A t : Runs(l, t)' => t \in Nat /\ t <= counter'
    BY <1>1, <1>3 DEF OwnedInv
<1> QED BY <1>3, <1>7, <1>8, <1>9, <1>10, <1>11 DEF OwnedInv

\* A turn begins, with a dialogue from the store or a new one.
LEMMA TurnBegins ==
    ASSUME Types, OwnedInv, UNCHANGED <<told, untold>>,
           NEW l \in Threads, turn[l].kind = "None",
           NEW k, k.kind # "None", turn' = [turn EXCEPT ![l] = k],
           NEW t \in Nat, k.dlg.our = t, DOMAIN store' = DOMAIN store \ {t},
           \/ t \in DOMAIN store /\ counter' = counter
           \/ t = counter + 1 /\ counter' = counter + 1
    PROVE  OwnedInv'
<1>1. counter \in Nat /\ counter <= counter' /\ counter' \in Nat /\ t <= counter'
    BY DEF Types, OwnedInv
<1>2. turn'[l] = k /\ \A j \in Threads \ {l} : turn'[j] = turn[j]
    BY DEF Types
<1>3. \A j \in Threads : \A u : Runs(j, u)' <=> IF j = l THEN u = t ELSE Runs(j, u)
    BY <1>2 DEF Runs
<1>4. \A u : Alive(u) <=> u \in DOMAIN store \/ \E j \in Threads : Runs(j, u)
    BY DEF Alive, InTurn, Runs
<1>5. \A u : Alive(u)' <=> u \in DOMAIN store' \/ \E j \in Threads : Runs(j, u)'
    BY DEF Alive, InTurn, Runs
<1>6. ~Runs(l, t) /\ \A j \in Threads : ~Runs(j, t)
    BY <1>1 DEF OwnedInv
<1>7. \A u : Alive(u)' <=> Alive(u) \/ u = t
    <2>1. \A u : ~Runs(l, u)
        BY DEF Runs
    <2> QED BY <1>3, <1>4, <1>5, <2>1
<1>8. t \notin untold /\ (t \in Tids => told[t] = 0)
    <2>1. CASE t \in DOMAIN store
        <3>1. Alive(t)
            BY <2>1 DEF Alive
        <3> QED BY <3>1 DEF OwnedInv, ToldOnce
    <2>2. CASE t = counter + 1
        BY <1>1, <2>2 DEF OwnedInv
    <2> QED BY <2>1, <2>2
<1>9. ToldOnce'
    <2>1. \A u \in Nat : u # t => (u > counter' <=> u > counter)
        BY <1>1
    <2> QED BY <1>7, <1>8, <2>1 DEF OwnedInv, ToldOnce, Tids
<1>10. /\ \A u \in DOMAIN store', j \in Threads : ~Runs(j, u)'
       /\ \A i, j \in Threads : \A u : Runs(i, u)' /\ Runs(j, u)' => i = j
    BY <1>3, <1>6 DEF OwnedInv
<1>11. \A u \in DOMAIN store' : u <= counter'
    BY <1>1 DEF OwnedInv, Types
<1>12. \A j \in Threads : \A u : Runs(j, u)' => u \in Nat /\ u <= counter'
    BY <1>1, <1>3 DEF OwnedInv
<1>13. \A u \in untold' : u \in Nat /\ u <= counter' /\ ~Alive(u)'
    BY <1>1, <1>7, <1>8 DEF OwnedInv
<1>14. \A u \in Tids : told'[u] # 0 => u <= counter'
    BY <1>1 DEF OwnedInv, Tids
<1> QED BY <1>9, <1>10, <1>11, <1>12, <1>13, <1>14 DEF OwnedInv

\* A dialogue is closed without a turn.
LEMMA ClosesStored ==
    ASSUME Types, OwnedInv, UNCHANGED <<turn, untold, counter>>, NEW t,
           DOMAIN store' = DOMAIN store \ {t},
           \A u \in Tids : told'[u] = told[u] + IF u = t /\ u \in DOMAIN store THEN 1 ELSE 0
    PROVE  OwnedInv'
<1>1. counter \in Nat /\ \A u \in Tids : told[u] \in Nat
    BY DEF Types
<1>2. \A j, u : Runs(j, u)' <=> Runs(j, u)
    BY DEF Runs
<1>3. \A u : Alive(u)' <=> Alive(u) /\ (u = t => u \notin DOMAIN store)
    <2>1. \A u : InTurn(u)' <=> InTurn(u)
        BY DEF InTurn
    <2>2. \A u \in DOMAIN store : ~InTurn(u)
        BY DEF OwnedInv, InTurn, Runs
    <2> QED BY <2>1, <2>2 DEF Alive
<1>4. \A u \in DOMAIN store : Alive(u) /\ u \notin untold /\ u \in Nat /\ u <= counter
    BY DEF OwnedInv, Alive, Types
<1>5. ToldOnce'
    <2>1. \A u \in DOMAIN store : ~(u > counter)
        BY <1>1, <1>4
    <2> QED BY <1>1, <1>3, <1>4, <2>1 DEF OwnedInv, ToldOnce
<1>6. \A u \in Tids : told'[u] # 0 => u <= counter'
    BY <1>1, <1>4 DEF OwnedInv
<1> QED BY <1>2, <1>3, <1>5, <1>6 DEF OwnedInv

\* A turn ends: the dialogue goes back, is closed, or is lost with its handler.
LEMMA TurnIsOver ==
    ASSUME Types, OwnedInv, UNCHANGED counter,
           NEW l \in Threads, turn' = [turn EXCEPT ![l] = NoTurn],
           NEW t, Runs(l, t),
           \/ DOMAIN store' = DOMAIN store \cup {t} /\ told' = told /\ untold' = untold
           \/ /\ DOMAIN store' = DOMAIN store /\ untold' = untold
              /\ told' = [told EXCEPT ![t] = told[t] + 1]
           \/ DOMAIN store' = DOMAIN store /\ told' = told /\ untold' = untold \cup {t}
    PROVE  OwnedInv'
<1>0. counter \in Nat /\ told \in [Tids -> Nat]
    BY DEF Types
<1>1. \A j \in Threads : turn'[j].kind = (IF j = l THEN "None" ELSE turn[j].kind)
                         /\ (j # l => turn'[j] = turn[j])
    BY DEF Types, NoTurn, Turn
<1>2. \A j \in Threads : \A u : Runs(j, u)' <=> j # l /\ Runs(j, u)
    BY <1>1 DEF Runs
<1>3. \A u : Alive(u) <=> u \in DOMAIN store \/ \E j \in Threads : Runs(j, u)
    BY DEF Alive, InTurn, Runs
<1>4. \A u : Alive(u)' <=> u \in DOMAIN store' \/ \E j \in Threads : Runs(j, u)'
    BY DEF Alive, InTurn, Runs
<1>5. Alive(t) /\ t \notin DOMAIN store /\ t \in Nat /\ t <= counter /\ t \notin untold
    BY <1>3 DEF OwnedInv
<1>6. \A j \in Threads : ~Runs(j, t)'
    BY <1>2 DEF OwnedInv
<1>7. \A u : u # t => (Alive(u)' <=> Alive(u))
    <2>1. \A u : u # t => ~Runs(l, u)
        BY DEF Runs
    <2> QED BY <1>2, <1>3, <1>4, <2>1
<1>8. t \in Tids => told[t] = 0
    BY <1>5 DEF OwnedInv, ToldOnce
<1>9. /\ \A u \in DOMAIN store', j \in Threads : ~Runs(j, u)'
      /\ \A i, j \in Threads : \A u : Runs(i, u)' /\ Runs(j, u)' => i = j
      /\ \A u \in DOMAIN store' : u <= counter'
      /\ \A j \in Threads : \A u : Runs(j, u)' => u \in Nat /\ u <= counter'
    BY <1>2, <1>5, <1>6 DEF OwnedInv
<1>10. CASE DOMAIN store' = DOMAIN store \cup {t} /\ told' = told /\ untold' = untold
    <2>0. Alive(t)'
        BY <1>4, <1>10
    <2>1. ToldOnce'
        BY <2>0, <1>7, <1>8, <1>10 DEF OwnedInv, ToldOnce
    <2>2. \A u \in untold' : u \in Nat /\ u <= counter' /\ ~Alive(u)'
        BY <1>5, <1>7, <1>10 DEF OwnedInv
    <2> QED BY <1>9, <1>10, <2>1, <2>2 DEF OwnedInv
<1>11. CASE /\ DOMAIN store' = DOMAIN store
            /\ \/ untold' = untold /\ told' = [told EXCEPT ![t] = told[t] + 1]
               \/ untold' = untold \cup {t} /\ told' = told
    <2>1. ~Alive(t)' /\ ~(t > counter')
        BY <1>0, <1>4, <1>5, <1>6, <1>11
    <2>2. \A u \in Tids : u # t => told'[u] = told[u] /\ (u \in untold' <=> u \in untold)
        BY <1>0, <1>11
    <2>3. t \in Tids => told'[t] = IF t \in untold' THEN 0 ELSE 1
        BY <1>0, <1>5, <1>8, <1>11
    <2>4. ToldOnce'
        BY <1>7, <2>1, <2>2, <2>3 DEF OwnedInv, ToldOnce
    <2>5. \A u \in untold' : u \in Nat /\ u <= counter' /\ ~Alive(u)'
        BY <1>5, <1>7, <1>11, <2>1 DEF OwnedInv
    <2>6. \A u \in Tids : told'[u] # 0 => u <= counter'
        BY <1>5, <2>2 DEF OwnedInv
    <2> QED BY <1>9, <2>4, <2>5, <2>6 DEF OwnedInv
<1> QED BY <1>10, <1>11

\* No step of the engine, and none of what goes on around it, gives a dialogue
\* to two turns, loses one untold or tells twice.
LEMMA NextOwned == ASSUME Types, OwnedInv, [Next]_vars PROVE OwnedInv'
<1>1. CASE Dispatch
    BY <1>1, NobodyMoves DEF Dispatch
<1>2. CASE Sweep
    BY <1>2, NobodyMoves DEF Sweep, Claims
<1>3. ASSUME NEW t \in Tids, QueueTimers(t) PROVE OwnedInv'
    BY <1>3, NobodyMoves DEF QueueTimers, Released
<1>4. ASSUME NEW t \in Tids, Elapses(t) PROVE OwnedInv'
    BY <1>4, NobodyMoves DEF Elapses, IdleElapses, InvokeElapses
<1>5. ASSUME NEW l \in Lanes, LaneStep(l) PROVE OwnedInv'
    <2>1. l \in Threads /\ Takes(l) /\ turn[l].kind = "None"
        BY <1>5 DEF Threads, Takes, LaneStep, Discards, ReturnsExhausted, OnProblem, RefuseBegin,
               UnservedBegin, OnBegin, Unknown, OnTurn, OnAbort, ExpireNothing, Expire
    <2> DEFINE m == Work(l).m
    <2>2. Work(l).do = "Deliver" => m \in InboundMessages
        BY <2>1, TakenWork
    <2>3. CASE Discards(l) \/ ReturnsExhausted(l) \/ RefuseBegin(l) \/ Unknown(l)
        BY <2>3, NobodyMoves DEF Discards, ReturnsExhausted, RefuseBegin, Unknown
    <2>4. CASE UnservedBegin(l)
        BY <2>4, NobodyIsServed DEF UnservedBegin
    <2>5. ASSUME NEW t \in Tids, ExpireNothing(l, t) PROVE OwnedInv'
        BY <2>5, NobodyMoves DEF ExpireNothing, Released
    <2>6. CASE OnProblem(l)
        <3>1. /\ DOMAIN store' = DOMAIN store \ {m.dtid}
              /\ \A u \in Tids : told'[u] = told[u] + IF u = m.dtid /\ u \in DOMAIN store THEN 1 ELSE 0
            BY <2>6 DEF OnProblem, Removed
        <3>2. UNCHANGED <<turn, untold, counter>>
            BY <2>6 DEF OnProblem
        <3> HIDE DEF m
        <3> QED BY <3>1, <3>2, ClosesStored
    <2>7. CASE OnAbort(l)
        <3> DEFINE t == m.dtid
        <3>1. t \in DOMAIN store /\ DOMAIN store' = DOMAIN store \ {t}
            BY <2>7 DEF OnAbort, Removed
        <3>2. \A u \in Tids : told'[u] = told[u] + IF u = t /\ u \in DOMAIN store THEN 1 ELSE 0
            <4>1. told' = [told EXCEPT ![t] = told[t] + 1] /\ told \in [Tids -> Nat]
                BY <2>7 DEF OnAbort, Types
            <4> HIDE DEF t
            <4> QED BY <3>1, <4>1
        <3>3. UNCHANGED <<turn, untold, counter>>
            BY <2>7 DEF OnAbort
        <3> HIDE DEF t
        <3> QED BY <3>1, <3>2, <3>3, ClosesStored
    <2>8. CASE OnBegin(l)
        <3> DEFINE t == counter + 1
                   k == Turn("Begin", Opened(m), FALSE, <<>>)
        <3>1. m \in InboundMessages /\ counter \in Nat
            BY <2>2, <2>8 DEF OnBegin, Understood, Types
        <3>2. k.dlg.our = t /\ k.kind # "None"
            BY <3>1, OpenedType DEF DialoguesOf, Turn
        <3>3. turn' = [turn EXCEPT ![l] = k] /\ counter' = counter + 1
            BY <2>8 DEF OnBegin, Starts
        <3>4. t \notin DOMAIN store /\ t \in Nat
            BY <3>1 DEF OwnedInv
        <3>5. UNCHANGED <<told, untold>> /\ DOMAIN store' = DOMAIN store \ {t}
            BY <2>8, <3>4 DEF OnBegin
        <3> HIDE DEF k
        <3> QED BY <2>1, <3>2, <3>3, <3>4, <3>5, TurnBegins
    <2>9. CASE OnTurn(l)
        <3> DEFINE t == m.dtid
                   k == Turn(m.type, Received(store[t].dlg, m), FALSE, <<>>)
        <3>1. m \in InboundMessages /\ t \in DOMAIN store /\ m.type # "None"
            BY <2>2, <2>9 DEF OnTurn, Understood
        <3>2. store[t].dlg \in DialoguesOf(t) /\ t \in Nat
            BY <3>1 DEF Types, Stored
        <3> DEFINE d == Received(store[t].dlg, m)
        <3>a. d \in DialoguesOf(t)
            BY <3>1, <3>2, ReceivedType
        <3> HIDE DEF d
        <3>b. k.dlg.our = d.our /\ k.kind = m.type
            BY DEF Turn, d
        <3>c. d.our = t
            BY <3>a DEF DialoguesOf
        <3>3. k.dlg.our = t /\ k.kind # "None"
            BY <3>1, <3>b, <3>c
        <3>4. turn' = [turn EXCEPT ![l] = k] /\ DOMAIN store' = DOMAIN store \ {t}
            BY <2>9 DEF OnTurn, Starts, Removed
        <3>5. UNCHANGED <<told, untold, counter>>
            BY <2>9 DEF OnTurn
        <3> HIDE DEF k, t
        <3> QED BY <2>1, <3>1, <3>2, <3>3, <3>4, <3>5, TurnBegins
    <2>10. ASSUME NEW t \in Tids, Expire(l, t) PROVE OwnedInv'
        <3> DEFINE d == store[t].dlg
                   k == Turn("Timer", [d EXCEPT !.outstanding = Only(d.outstanding, IsWaitedFor)],
                             IdleExpired(store[t]), Only(d.outstanding, IsDue))
        <3>1. t \in DOMAIN store /\ t \in Nat /\ d \in DialoguesOf(t)
            BY <2>10 DEF Expire, Types, Stored
        <3>2. k.dlg.our = t /\ k.kind # "None"
            BY <3>1 DEF DialoguesOf, Turn
        <3>3. turn' = [turn EXCEPT ![l] = k] /\ DOMAIN store' = DOMAIN store \ {t}
            BY <2>10 DEF Expire, Starts, Removed
        <3>4. UNCHANGED <<told, untold, counter>>
            BY <2>10 DEF Expire
        <3> HIDE DEF k
        <3> QED BY <2>1, <3>1, <3>2, <3>3, <3>4, TurnBegins
    <2> QED BY <1>5, <2>3, <2>4, <2>5, <2>6, <2>7, <2>8, <2>9, <2>10 DEF LaneStep
<1>6. ASSUME NEW l \in Threads, Returns(l)
      PROVE  turn[l] \in Turns /\ turn[l].kind # "None" /\ Runs(l, turn[l].dlg.our)
             /\ turn' = [turn EXCEPT ![l] = NoTurn]
    BY <1>6 DEF Returns, Types, Runs
<1>7. ASSUME NEW l \in Threads, TurnEnds(l) PROVE OwnedInv'
    <2> DEFINE k == turn[l]
               t == k.dlg.our
    <2>1. k \in Turns /\ k.kind # "None" /\ Runs(l, t) /\ turn' = [turn EXCEPT ![l] = NoTurn]
        BY <1>6, <1>7 DEF TurnEnds
    <2>2. PICK scripts \in [Callbacks(k) -> Scripts] : Finish(k, Handled(k, scripts))
        BY <1>7 DEF TurnEnds
    <2> DEFINE d == Handled(k, scripts)
    <2>3. d.our = t
        BY <2>1, HandledType DEF DialoguesOf
    <2>4. \/ DOMAIN store' = DOMAIN store \cup {t} /\ told' = told
          \/ store' = store /\ told' = [told EXCEPT ![t] = told[t] + 1]
        BY <2>2, <2>3 DEF Finish, StoredBack, Storing
    <2>5. untold' = untold /\ UNCHANGED counter
        BY <1>7 DEF TurnEnds
    <2> HIDE DEF t
    <2> QED BY <2>1, <2>4, <2>5, TurnIsOver
<1>8. ASSUME NEW l \in Threads, Panics(l) PROVE OwnedInv'
    <2> DEFINE t == turn[l].dlg.our
    <2>1. Runs(l, t) /\ turn' = [turn EXCEPT ![l] = NoTurn]
        BY <1>6, <1>8 DEF Panics
    <2>2. DOMAIN store' = DOMAIN store /\ told' = told /\ untold' = untold \cup {t}
          /\ UNCHANGED counter
        BY <1>8 DEF Panics
    <2> HIDE DEF t
    <2> QED BY <2>1, <2>2, TurnIsOver
<1>9. CASE Originate
    <2> DEFINE t == counter + 1
               k == Turn("Start", NewDialogue("Initiator", counter + 1, NoPeer, TRUE), FALSE, <<>>)
    <2>1. counter \in Nat /\ Origin \in Threads /\ turn[Origin].kind = "None"
        BY <1>9 DEF Originate, Types, Threads
    <2>2. k.dlg.our = t /\ k.kind # "None"
        BY DEF Turn, NewDialogue
    <2>3. turn' = [turn EXCEPT ![Origin] = k] /\ counter' = counter + 1
        BY <1>9 DEF Originate, Starts
    <2>4. t \notin DOMAIN store /\ t \in Nat
        BY <2>1 DEF OwnedInv
    <2>5. UNCHANGED <<store, told, untold>>
        BY <1>9 DEF Originate
    <2>6. DOMAIN store' = DOMAIN store \ {t}
        BY <2>4, <2>5
    <2> HIDE DEF k
    <2> QED BY <2>1, <2>2, <2>3, <2>4, <2>5, <2>6, TurnBegins
<1>10. CASE PeerStep
    BY <1>10, PeerKeeps, NobodyMoves
<1>11. CASE Loses
    BY <1>11, NobodyMoves DEF Loses
<1>12. CASE UNCHANGED vars
    BY <1>12, NobodyMoves DEF vars
<1> QED BY <1>1, <1>2, <1>3, <1>4, <1>5, <1>7, <1>8, <1>9, <1>10, <1>11, <1>12 DEF Next

----------------------------------------------------------------------------
(* A claim is on its way to expire.                                        *)

\* What waits on the lanes is what waited, but for the work that is taken.
LEMMA WorksThatStay ==
    ASSUME Types, NEW l \in Lanes, Takes(l)
    PROVE  \A w \in Works : w \in Works' \/ w = Work(l)
<1>1. lanes[l] \in Seq(Tasks) /\ lanes[l] # <<>> /\ lanes' = [lanes EXCEPT ![l] = Tail(lanes[l])]
      /\ DOMAIN lanes = Lanes
    BY DEF Types, Takes
<1>2. ASSUME NEW j \in Lanes, NEW i \in DOMAIN lanes[j]
      PROVE  lanes[j][i] \in Works' \/ lanes[j][i] = Work(l)
    <2>1. CASE j # l
        <3>1. lanes'[j] = lanes[j]
            BY <1>1, <2>1
        <3> QED BY <3>1 DEF Works
    <2>2. CASE j = l /\ i = 1
        BY <1>1, <2>2 DEF Work
    <2>3. CASE j = l /\ i # 1
        <3>1. lanes'[l] = Tail(lanes[l])
            BY <1>1
        <3>2. i - 1 \in DOMAIN Tail(lanes[l]) /\ Tail(lanes[l])[i - 1] = lanes[l][i]
            BY <1>1, <2>3
        <3>3. i - 1 \in DOMAIN lanes'[l] /\ lanes'[l][i - 1] = lanes[j][i]
            BY <2>3, <3>1, <3>2
        <3>4. \E x \in DOMAIN lanes'[l] : lanes'[l][x] = lanes[j][i]
            BY <3>3
        <3>5. lanes[j][i] \in Works'
            BY <3>4 DEF Works
        <3> QED BY <3>5
    <2> QED BY <2>1, <2>2, <2>3
<1> QED BY <1>2 DEF Works

\* What is queued comes after what waits.
LEMMA WorksThatCome ==
    ASSUME Types, NEW l \in Lanes, NEW w \in Tasks, lanes' = [lanes EXCEPT ![l] = Append(lanes[l], w)]
    PROVE  Works \cup {w} \subseteq Works'
<1>1. lanes[l] \in Seq(Tasks) /\ DOMAIN lanes = Lanes
    BY DEF Types
<1>2. \A j \in Lanes : \A i \in DOMAIN lanes[j] : i \in DOMAIN lanes'[j] /\ lanes'[j][i] = lanes[j][i]
    BY <1>1
<1>3. Len(lanes[l]) + 1 \in DOMAIN lanes'[l] /\ lanes'[l][Len(lanes[l]) + 1] = w
    BY <1>1
<1> QED BY <1>2, <1>3 DEF Works

\* The only claims are those there were, their dialogues as before.
LEMMA ClaimsStay ==
    ASSUME ClaimIsQueued, UNCHANGED sweeping, Works \subseteq Works',
           \A t \in DOMAIN store' : store'[t].claimed => t \in DOMAIN store /\ store[t].claimed
    PROVE  ClaimIsQueued'
<1>1. \A t : Timers(t)' = Timers(t)
    BY DEF Timers, NoMessage, Inbound
<1> QED BY <1>1 DEF ClaimIsQueued

\* Whoever takes the Timers work of a dialogue takes the claim.
LEMMA NextClaimed == ASSUME Types, ClaimIsQueued, [Next]_vars PROVE ClaimIsQueued'
<1>0. /\ \A t : Timers(t)' = Timers(t)
      /\ \A t \in Tids : t \in Nat
      /\ \A t, u : Timers(t) = Timers(u) => t = u
      /\ UNCHANGED lanes => Works' = Works
    BY DEF Timers, NoMessage, Inbound, Tids, Works
<1>1. CASE Dispatch
    <2>1. PICK l \in Lanes :
              /\ local # <<>>
              /\ lanes' = [lanes EXCEPT ![l] = Append(lanes[l], Deliver(Head(local)))]
        BY <1>1 DEF Dispatch, Dispatches
    <2> DEFINE w == Deliver(Head(local))
    <2>2. w \in Tasks
        BY <2>1 DEF Types, Tasks
    <2>3. Works \subseteq Works'
        <3> HIDE DEF w
        <3>1. lanes' = [lanes EXCEPT ![l] = Append(lanes[l], w)]
            BY <2>1 DEF w
        <3> QED BY <2>2, <3>1, WorksThatCome
    <2> QED BY <1>1, <2>3, ClaimsStay DEF Dispatch
<1>2. CASE Sweep
    <2>1. \A t \in DOMAIN store' : store'[t].claimed => t \in sweeping' \/ store[t].claimed
        BY <1>2 DEF Sweep, Claims, Types, Stored
    <2>2. DOMAIN store' = DOMAIN store /\ sweeping = {} /\ Works' = Works
        BY <1>0, <1>2 DEF Sweep, Claims
    <2> QED BY <1>0, <2>1, <2>2 DEF ClaimIsQueued
<1>3. ASSUME NEW t \in Tids, QueueTimers(t) PROVE ClaimIsQueued'
    <2> DEFINE w == Timers(t)
               l == LaneOfTid[t]
    <2>1. w \in Tasks /\ l \in Lanes
        BY <1>0, LaneOfAssumption DEF Tasks
    <2>2. sweeping' = sweeping \ {t}
        BY <1>3 DEF QueueTimers, HandsOver
    <2>3. CASE UNCHANGED store /\ lanes' = [lanes EXCEPT ![l] = Append(lanes[l], w)]
        <3>1. Works \cup {w} \subseteq Works'
            <4> HIDE DEF w, l
            <4> QED BY <2>1, <2>3, WorksThatCome
        <3> QED BY <1>0, <2>2, <2>3, <3>1 DEF ClaimIsQueued
    <2>4. CASE UNCHANGED lanes /\ store' = Released(t)
        <3>1. /\ DOMAIN store' = DOMAIN store
              /\ \A x \in DOMAIN store : store'[x].claimed => x # t /\ store[x].claimed
            BY <2>4 DEF Released, Types, Stored
        <3> QED BY <1>0, <2>2, <2>4, <3>1 DEF ClaimIsQueued
    <2> QED BY <1>3, <2>3, <2>4 DEF QueueTimers
<1>4. ASSUME NEW t \in Tids, Elapses(t) PROVE ClaimIsQueued'
    <2>1. \A x \in DOMAIN store' : store'[x].claimed => x \in DOMAIN store /\ store[x].claimed
        <3>1. CASE IdleElapses(t)
            BY <3>1 DEF IdleElapses, Types, Stored
        <3>2. ASSUME NEW i, InvokeElapses(t, i)
              PROVE  \A x \in DOMAIN store' : store'[x].claimed => x \in DOMAIN store /\ store[x].claimed
            <4> DEFINE d == store[t].dlg
                       e == [d EXCEPT !.outstanding =
                                [d.outstanding EXCEPT ![i] = [d.outstanding[i] EXCEPT !.due = TRUE]]]
            <4>1. t \in DOMAIN store /\ store' = [store EXCEPT ![t] = [store[t] EXCEPT !.dlg = e]]
                BY <3>2 DEF InvokeElapses
            <4> HIDE DEF e
            <4> QED BY <4>1 DEF Types, Stored
        <3> QED BY <1>4, <3>1, <3>2 DEF Elapses
    <2> QED BY <1>0, <1>4, <2>1, ClaimsStay DEF Elapses
<1>5. ASSUME NEW l \in Lanes, LaneStep(l) PROVE ClaimIsQueued'
    <2>1. Takes(l) /\ UNCHANGED sweeping
        BY <1>5 DEF LaneStep, Discards, ReturnsExhausted, OnProblem, RefuseBegin,
               UnservedBegin, OnBegin, Unknown, OnTurn, OnAbort, ExpireNothing, Expire
    <2>2. \A w \in Works : w \in Works' \/ w = Work(l)
        BY <2>1, WorksThatStay
    <2>3. ASSUME NEW t, Work(l) = Timers(t) PROVE Work(l).do = "Timers" /\ Work(l).tid = t
        BY <2>3 DEF Timers
    <2>4. CASE Work(l).do = "Deliver"
        <3>1. \A t : Timers(t) \in Works => Timers(t) \in Works'
            BY <2>2, <2>3, <2>4
        <3>2. store' = store \/ \E t : store' = Removed(t)
            BY <1>5, <2>4 DEF LaneStep, Discards, ReturnsExhausted, OnProblem, RefuseBegin,
                   UnservedBegin, OnBegin, Unknown, OnTurn, OnAbort, ExpireNothing, Expire, IsTimers
        <3>3. \A x \in DOMAIN store' : x \in DOMAIN store /\ store'[x] = store[x]
            BY <3>2 DEF Removed
        <3> QED BY <1>0, <2>1, <3>1, <3>3 DEF ClaimIsQueued
    <2>5. ASSUME NEW t \in Tids, ExpireNothing(l, t) \/ Expire(l, t) PROVE ClaimIsQueued'
        <3>1. Work(l).tid = t
            BY <2>5 DEF ExpireNothing, Expire, IsTimers
        <3>2. /\ DOMAIN store' \subseteq DOMAIN store
              /\ \A x \in DOMAIN store' : store'[x].claimed => x # t /\ store[x].claimed
            BY <2>5 DEF ExpireNothing, Expire, Released, Removed, Types, Stored
        <3>3. \A x : x # t /\ Timers(x) \in Works => Timers(x) \in Works'
            BY <2>2, <2>3, <3>1
        <3> QED BY <1>0, <2>1, <3>2, <3>3 DEF ClaimIsQueued
    <2>6. Work(l).do = "Deliver" \/ \E t \in Tids : ExpireNothing(l, t) \/ Expire(l, t)
        BY <1>5 DEF LaneStep, Discards, ReturnsExhausted, OnProblem, RefuseBegin,
               UnservedBegin, OnBegin, Unknown, OnTurn, OnAbort, Understood
    <2> QED BY <2>4, <2>5, <2>6
<1>6. ASSUME NEW l \in Threads, TurnEnds(l) PROVE ClaimIsQueued'
    <2>1. PICK scripts \in [Callbacks(turn[l]) -> Scripts] : Finish(turn[l], Handled(turn[l], scripts))
        BY <1>6 DEF TurnEnds
    <2> DEFINE d == Handled(turn[l], scripts)
               r == Record([d EXCEPT !.out = <<>>],
                           turn[l].kind = "Timer" /\ d.out = <<>> /\ turn[l].idle)
    <2>2. store' = store \/ store' = Storing(d.our, r)
        BY <2>1 DEF Finish, StoredBack
    <2>3. r.claimed = FALSE
        BY DEF Record
    <2> HIDE DEF r, d
    <2>4. \A x \in DOMAIN store' : store'[x].claimed => x \in DOMAIN store /\ store[x].claimed
        BY <2>2, <2>3 DEF Storing
    <2> QED BY <1>0, <1>6, <2>4, ClaimsStay DEF TurnEnds
<1>7. ASSUME NEW l \in Threads, Panics(l) PROVE ClaimIsQueued'
    BY <1>0, <1>7, ClaimsStay DEF Panics
<1>8. CASE Originate
    BY <1>0, <1>8, ClaimsStay DEF Originate
<1>9. CASE PeerStep
    BY <1>0, <1>9, PeerKeeps, ClaimsStay
<1>10. CASE Loses
    BY <1>0, <1>10, ClaimsStay DEF Loses
<1>11. CASE UNCHANGED vars
    BY <1>0, <1>11, ClaimsStay DEF vars
<1> QED BY <1>1, <1>2, <1>3, <1>4, <1>5, <1>6, <1>7, <1>8, <1>9, <1>10, <1>11 DEF Next

----------------------------------------------------------------------------

\* The inductive invariant of the engine.
EngineInv == Types /\ OwnedInv /\ ClaimIsQueued

\* The dispatcher, the sweep, the lanes, the originating task and the peer keep
\* it, whatever the handlers do.
THEOREM EngineInvariant == Spec => []EngineInv
<1>1. Init => EngineInv
    BY InitTypes, InitOwned DEF EngineInv, ClaimIsQueued, Init
<1>2. EngineInv /\ [Next]_vars => EngineInv'
    BY NextTypes, NextOwned, NextClaimed DEF EngineInv
<1> QED BY <1>1, <1>2, PTL DEF Spec

\* closed: a handler that was given a dialogue is told exactly once that it is over, when the
\* engine no longer has it, whatever the lanes and the sweep do at the same time; nobody is told
\* of a Begin that found no handler, nor a handler that panicked.
THEOREM ClosedIsToldOnce == Spec => []ToldOnce
<1>1. EngineInv => ToldOnce
    BY DEF EngineInv, OwnedInv
<1> QED BY <1>1, EngineInvariant, PTL

\* claim_expired: no claim outlives the work it was made for.
THEOREM NoClaimIsLeft == Spec => []ClaimIsQueued
<1>1. EngineInv => ClaimIsQueued
    BY DEF EngineInv
<1> QED BY <1>1, EngineInvariant, PTL

----------------------------------------------------------------------------
(* What a turn says to the peer.                                           *)

\* As far as the peer can tell, nothing happened.
Alike(e, d) ==
    /\ e.role = d.role /\ e.our = d.our /\ e.peer = d.peer
    /\ e.flushed = d.flushed /\ e.closed = d.closed /\ e.out = d.out

\* A message went, and if it was the last one the dialogue is closed.
Says(e, d, m, flushed, closed) ==
    /\ e.role = d.role /\ e.our = d.our /\ e.peer = d.peer
    /\ e.flushed = flushed /\ e.closed = closed /\ e.out = Append(d.out, m)

\* A leg of the dialogue t to the transaction p of the peer.
Leg(m, t, p) == m.type \in {"Continue", "End", "Abort"} /\ m.otid = t /\ m.dtid = p

\* The message that opens the dialogue t.
First(m, t) == m.type = "Begin" /\ m.otid = t /\ m.dtid = NoPeer

\* Send and End: a flush sends a leg of an open dialogue, or nothing.
LEMMA FlushSpeaks ==
    ASSUME NEW t \in Nat, NEW d \in DialoguesOf(t), NEW closing \in BOOLEAN
    PROVE  \/ Alike(Flush(d, closing), d)
           \/ /\ IsOpen(d) /\ (Opening(d) \/ d.peer # NoPeer)
              /\ Says(Flush(d, closing), d, LegOf(d, closing), TRUE,
                      IF closing THEN "Ended" ELSE d.closed)
<1> DEFINE taken == [d EXCEPT !.pending = {}, !.staged = <<>>]
           ops == IF closing THEN <<>> ELSE d.outstanding \o d.staged
           m == LegOf(d, closing)
           closed == IF closing THEN "Ended" ELSE d.closed
           gone == [taken EXCEPT !.out = Append(d.out, m), !.rejects = {}, !.aare = FALSE, !.flushed = TRUE,
                                 !.outstanding = ops, !.closed = closed]
<1>1. \/ Flush(d, closing) = d
      \/ Flush(d, closing) = taken
      \/ IsOpen(d) /\ (Opening(d) \/ d.peer # NoPeer) /\ Flush(d, closing) = gone
    BY DEF Flush, DialoguesOf
<1>2. Alike(d, d) /\ Alike(taken, d)
    BY DEF Alike, DialoguesOf
<1>3. Says(gone, d, m, TRUE, closed)
    <2> HIDE DEF m, ops, closed
    <2> QED BY DEF Says, DialoguesOf
<1> HIDE DEF gone, taken, m
<1>4. CASE Flush(d, closing) = d \/ Flush(d, closing) = taken
    BY <1>2, <1>4
<1>5. CASE IsOpen(d) /\ (Opening(d) \/ d.peer # NoPeer) /\ Flush(d, closing) = gone
    BY <1>3, <1>5 DEF m
<1> QED BY <1>1, <1>4, <1>5

\* abort: an open dialogue with a peer tells it, one without is closed in silence.
LEMMA AbortSpeaks ==
    ASSUME NEW t \in Nat, NEW d \in DialoguesOf(t), NEW reason \in Endings
    PROVE  /\ ~IsOpen(d) => AbortAs(d, reason) = d
           /\ IsOpen(d) /\ d.peer = NoPeer =>
                 Alike([AbortAs(d, reason) EXCEPT !.closed = d.closed], d)
                 /\ AbortAs(d, reason).closed = reason
           /\ IsOpen(d) /\ d.peer # NoPeer =>
                 \E m : m.type = "Abort" /\ Leg(m, t, d.peer)
                        /\ Says(AbortAs(d, reason), d, m, d.flushed, reason)
<1> DEFINE m == Message("Abort", d.our, d.peer, {}, {}, IF d.ac THEN "Abrt" ELSE "None")
           out == IF d.peer = NoPeer THEN d.out ELSE Append(d.out, m)
           e == AbortAs(d, reason)
<1>1. CASE ~IsOpen(d)
    BY <1>1 DEF AbortAs
<1>2. CASE IsOpen(d)
    <2>1. e = [d EXCEPT !.pending = {}, !.staged = <<>>, !.outstanding = <<>>, !.rejects = {},
                        !.closed = reason, !.out = out]
        BY <1>2 DEF AbortAs
    <2>2. m.type = "Abort" /\ Leg(m, t, d.peer)
        BY DEF Message, Leg, DialoguesOf
    <2> HIDE DEF out, m
    <2>3. /\ e.role = d.role /\ e.our = d.our /\ e.peer = d.peer /\ e.flushed = d.flushed
          /\ e.closed = reason /\ e.out = out
        BY <2>1 DEF DialoguesOf
    <2>4. LET x == [e EXCEPT !.closed = d.closed] IN
          /\ x.role = d.role /\ x.our = d.our /\ x.peer = d.peer /\ x.flushed = d.flushed
          /\ x.closed = d.closed /\ x.out = out
        BY <2>1 DEF DialoguesOf
    <2> HIDE DEF e
    <2>5. CASE d.peer = NoPeer
        BY <1>2, <2>3, <2>4, <2>5 DEF Alike, out, e
    <2>6. CASE d.peer # NoPeer
        <3>1. Says(e, d, m, d.flushed, reason)
            BY <2>3, <2>6 DEF Says, out
        <3> QED BY <1>2, <2>2, <2>6, <3>1 DEF e
    <2> QED BY <2>5, <2>6
<1> QED BY <1>1, <1>2

\* What a command of a handler says.
LEMMA CommandSpeaks ==
    ASSUME NEW t \in Nat, NEW d \in DialoguesOf(t), NEW c \in Commands
    PROVE  \/ Alike(Command(d, c), d)
           \/ Command(d, c) = AbortAs(d, "Aborted")
           \/ \E closing \in BOOLEAN : Command(d, c) = Flush(d, closing)
<1>1. CASE c.do = "Invoke"
    <2>1. Command(d, c) = InvokeWith(d, c.class)
        BY <1>1 DEF Command
    <2>2. PICK staged, next : InvokeWith(d, c.class) = d
              \/ InvokeWith(d, c.class) = [d EXCEPT !.staged = staged, !.next = next]
        BY DEF InvokeWith
    <2>3. Alike(d, d) /\ Alike([d EXCEPT !.staged = staged, !.next = next], d)
        BY DEF Alike, DialoguesOf
    <2> QED BY <2>1, <2>2, <2>3
<1>2. CASE c.do \in {"Answer", "Garble", "Discard", "Wait"}
    BY <1>2 DEF Command, DiscardStaged, StageComponent, Alike, DialoguesOf
<1>3. CASE c.do \in {"Send", "End"}
    BY <1>3 DEF Command
<1>4. CASE c.do = "Abort"
    BY <1>4 DEF Command
<1> QED BY <1>1, <1>2, <1>3, <1>4 DEF Commands

\* A dialogue past its opening: what it has said this turn were legs, and one of
\* them told the peer that it is over if it is.
Underway(t, p, r) ==
    {d \in DialoguesOf(t) :
        /\ d.peer = p /\ d.role = r /\ ~Opening(d)
        /\ \A i \in DOMAIN d.out : /\ p # NoPeer /\ Leg(d.out[i], t, p)
                                   /\ IsOpen(d) => d.out[i].type = "Continue"
        /\ ~IsOpen(d) /\ p # NoPeer => \E i \in DOMAIN d.out : Closes(d.out[i], p)}

\* One that has said nothing but its Begin.
Beginning(t) ==
    {d \in DialoguesOf(t) :
        /\ d.peer = NoPeer /\ d.role = "Initiator"
        /\ IF d.flushed THEN \E m : First(m, t) /\ d.out = <<m>> ELSE d.out = <<>>}

\* One that is over and says nothing.
Silent(t, p) == {d \in DialoguesOf(t) : d.peer = p /\ ~IsOpen(d) /\ d.out = <<>>}

\* A leg more.
LEMMA UnderwaySays ==
    ASSUME NEW t \in Nat, NEW p \in Peers, NEW r, NEW d \in Underway(t, p, r),
           NEW e \in DialoguesOf(t), NEW m, Leg(m, t, p), NEW flushed, NEW closed,
           Says(e, d, m, flushed, closed), flushed \in {TRUE, d.flushed},
           IF closed = "Open" THEN IsOpen(d) /\ m.type = "Continue" ELSE Closes(m, p)
    PROVE  e \in Underway(t, p, r) /\ e.out # <<>>
<1>1. d.out \in Seq(Messages) /\ e.out = Append(d.out, m) /\ p # NoPeer
    BY LanesAssumption DEF Underway, DialoguesOf, Says
<1>2. DOMAIN e.out = 1 .. (Len(d.out) + 1) /\ e.out[Len(d.out) + 1] = m
      /\ \A i \in DOMAIN d.out : i \in DOMAIN e.out /\ e.out[i] = d.out[i]
    <2> DEFINE s == d.out
    <2> HIDE DEF s
    <2>1. s \in Seq(Messages) /\ e.out = Append(s, m)
        BY <1>1 DEF s
    <2>2. DOMAIN e.out = 1 .. (Len(s) + 1) /\ e.out[Len(s) + 1] = m
          /\ \A i \in DOMAIN s : i \in DOMAIN e.out /\ e.out[i] = s[i]
        BY <2>1
    <2> QED BY <2>2 DEF s
<1>3. DOMAIN d.out = 1 .. Len(d.out) /\ Len(d.out) \in Nat
    BY <1>1
<1>4. \A i \in DOMAIN e.out : Leg(e.out[i], t, p) /\ (IsOpen(e) => e.out[i].type = "Continue")
    <2>1. \A i \in DOMAIN e.out : i \in DOMAIN d.out \/ i = Len(d.out) + 1
        BY <1>2, <1>3
    <2>2. Leg(m, t, p) /\ (IsOpen(e) => IsOpen(d) /\ m.type = "Continue")
        BY DEF Says, IsOpen
    <2>3. \A i \in DOMAIN d.out : Leg(d.out[i], t, p) /\ (IsOpen(d) => d.out[i].type = "Continue")
        BY DEF Underway
    <2> HIDE DEF Leg
    <2> QED BY <1>2, <2>1, <2>2, <2>3
<1>5. e.peer = p /\ e.role = r /\ ~Opening(e)
    BY DEF Underway, Says, Opening
<1>6. ~IsOpen(e) => \E i \in DOMAIN e.out : Closes(e.out[i], p)
    <2>1. CASE Closes(m, p)
        <3>1. Len(d.out) + 1 \in DOMAIN e.out
            BY <1>2, <1>3
        <3> QED BY <1>2, <2>1, <3>1
    <2>2. CASE closed = "Open"
        BY <2>2 DEF Says, IsOpen
    <2> QED BY <2>1, <2>2
<1>7. e.out # <<>>
    BY <1>2, <1>3
<1> QED BY <1>1, <1>4, <1>5, <1>6, <1>7 DEF Underway

\* A handler leaves a dialogue past its opening there.
LEMMA UnderwayCommand ==
    ASSUME NEW t \in Nat, NEW p \in Peers \cup {NoPeer}, NEW r, NEW d \in Underway(t, p, r),
           NEW c \in Commands
    PROVE  Command(d, c) \in Underway(t, p, r)
<1> DEFINE e == Command(d, c)
<1>1. d \in DialoguesOf(t) /\ e \in DialoguesOf(t) /\ d.our = t /\ d.peer = p
    BY CommandType DEF Underway, DialoguesOf
<1>2. ASSUME NEW x \in DialoguesOf(t), Alike(x, d) PROVE x \in Underway(t, p, r)
    BY <1>2 DEF Alike, Underway, Opening, IsOpen
<1>3. CASE e = AbortAs(d, "Aborted")
    <2>1. "Aborted" \in Endings
        BY DEF Endings
    <2>2. CASE ~IsOpen(d)
        BY <1>1, <1>3, <2>1, <2>2, AbortSpeaks
    <2>3. CASE IsOpen(d) /\ p = NoPeer
        <3>1. /\ e.role = d.role /\ e.peer = d.peer /\ e.flushed = d.flushed /\ e.out = d.out
            <4>1. Alike([e EXCEPT !.closed = d.closed], d)
                BY <1>1, <1>3, <2>1, <2>3, AbortSpeaks
            <4> HIDE DEF e
            <4> QED BY <1>1, <4>1 DEF Alike, DialoguesOf
        <3> QED BY <1>1, <2>3, <3>1 DEF Underway, Opening
    <2>4. CASE IsOpen(d) /\ p # NoPeer
        <3>1. PICK m : m.type = "Abort" /\ Leg(m, t, p) /\ Says(e, d, m, d.flushed, "Aborted")
            BY <1>1, <1>3, <2>1, <2>4, AbortSpeaks
        <3>2. Closes(m, p) /\ p \in Peers
            BY <2>4, <3>1 DEF Closes, Leg
        <3> HIDE DEF e
        <3>3. e \in Underway(t, p, r)
            BY <1>1, <3>1, <3>2, UnderwaySays
        <3> QED BY <3>3 DEF e
    <2> QED BY <2>2, <2>3, <2>4
<1>4. ASSUME NEW closing \in BOOLEAN, e = Flush(d, closing) PROVE e \in Underway(t, p, r)
    <2> DEFINE m == LegOf(d, closing)
               closed == IF closing THEN "Ended" ELSE d.closed
    <2>1. Alike(e, d) \/ (IsOpen(d) /\ d.peer # NoPeer /\ Says(e, d, m, TRUE, closed))
        <3>1. ~Opening(d)
            BY DEF Underway
        <3> QED BY <1>1, <1>4, <3>1, FlushSpeaks
    <2>2. Leg(m, t, p) /\ (IsOpen(d) => IF closed = "Open" THEN m.type = "Continue" ELSE Closes(m, p))
        BY <1>1 DEF Underway, LegOf, Message, Leg, Closes, IsOpen
    <2> HIDE DEF m, closed, e
    <2>3. CASE IsOpen(d) /\ d.peer # NoPeer /\ Says(e, d, m, TRUE, closed)
        <3>1. p \in Peers
            BY <1>1, <2>3
        <3> QED BY <1>1, <2>2, <2>3, <3>1, UnderwaySays
    <2> QED BY <1>1, <1>2, <2>1, <2>3
<1>5. Alike(e, d) \/ e = AbortAs(d, "Aborted") \/ \E closing \in BOOLEAN : e = Flush(d, closing)
    BY <1>1, CommandSpeaks
<1> QED BY <1>1, <1>2, <1>3, <1>4, <1>5

\* The handler of a dialogue that is opened sends its Begin at most.
LEMMA BeginningCommand ==
    ASSUME NEW t \in Nat, NEW d \in Beginning(t), NEW c \in Commands
    PROVE  Command(d, c) \in Beginning(t)
<1> DEFINE e == Command(d, c)
<1>1. d \in DialoguesOf(t) /\ e \in DialoguesOf(t) /\ d.our = t /\ d.peer = NoPeer
      /\ d.role = "Initiator"
    BY CommandType DEF Beginning, DialoguesOf
<1>2. ASSUME NEW x \in DialoguesOf(t), x.role = d.role, x.peer = d.peer, x.flushed = d.flushed, x.out = d.out
      PROVE  x \in Beginning(t)
    BY <1>2 DEF Beginning
<1>3. CASE e = AbortAs(d, "Aborted")
    <2>1. "Aborted" \in Endings
        BY DEF Endings
    <2>2. CASE ~IsOpen(d)
        BY <1>1, <1>3, <2>1, <2>2, AbortSpeaks
    <2>3. CASE IsOpen(d)
        <3>1. Alike([e EXCEPT !.closed = d.closed], d)
            BY <1>1, <1>3, <2>1, <2>3, AbortSpeaks
        <3> HIDE DEF e
        <3>2. /\ e.role = d.role /\ e.peer = d.peer /\ e.flushed = d.flushed /\ e.out = d.out
            BY <1>1, <3>1 DEF Alike, DialoguesOf
        <3>3. e \in Beginning(t)
            BY <1>1, <1>2, <3>2
        <3> QED BY <3>3 DEF e
    <2> QED BY <2>2, <2>3
<1>4. ASSUME NEW closing \in BOOLEAN, e = Flush(d, closing) PROVE e \in Beginning(t)
    <2> DEFINE m == LegOf(d, closing)
               closed == IF closing THEN "Ended" ELSE d.closed
    <2>1. Alike(e, d) \/ (Opening(d) /\ Says(e, d, m, TRUE, closed))
        BY <1>1, <1>4, FlushSpeaks
    <2>2. Opening(d) => First(m, t)
        BY <1>1 DEF LegOf, Message, First
    <2>3. Opening(d) => d.out = <<>>
        BY DEF Opening, Beginning
    <2> HIDE DEF m, closed, e
    <2>4. CASE Opening(d) /\ Says(e, d, m, TRUE, closed)
        <3>1. e.out = <<m>>
            <4>1. e.out = Append(<<>>, m)
                BY <2>3, <2>4, Zenon DEF Says
            <4> QED BY <4>1
        <3> QED BY <1>1, <2>2, <2>4, <3>1 DEF Says, Beginning
    <2>5. CASE Alike(e, d)
        BY <1>1, <1>2, <2>5 DEF Alike
    <2> QED BY <2>1, <2>4, <2>5
<1>5. Alike(e, d) \/ e = AbortAs(d, "Aborted") \/ \E closing \in BOOLEAN : e = Flush(d, closing)
    BY <1>1, CommandSpeaks
<1>6. CASE Alike(e, d)
    BY <1>1, <1>2, <1>6 DEF Alike
<1> QED BY <1>3, <1>4, <1>5, <1>6

\* The handler of a dialogue that the peer has ended cannot say any more.
LEMMA SilentCommand ==
    ASSUME NEW t \in Nat, NEW p, NEW d \in Silent(t, p), NEW c \in Commands
    PROVE  Command(d, c) \in Silent(t, p)
<1>1. d \in DialoguesOf(t) /\ Command(d, c) \in DialoguesOf(t) /\ ~IsOpen(d)
    BY CommandType DEF Silent
<1>2. Alike(Command(d, c), d)
    <2>1. Alike(d, d)
        BY DEF Alike
    <2>2. "Aborted" \in Endings
        BY DEF Endings
    <2>3. \A closing \in BOOLEAN : Alike(Flush(d, closing), d)
        BY <1>1, FlushSpeaks
    <2>4. AbortAs(d, "Aborted") = d
        BY <1>1, <2>2, AbortSpeaks
    <2> QED BY <1>1, <2>1, <2>3, <2>4, CommandSpeaks
<1> QED BY <1>1, <1>2 DEF Alike, Silent, IsOpen

\* A dialogue between its turns: all it had to say is sent, and unless it was
\* opened here its peer is known.
Settled(d) == d.out = <<>> /\ (d.peer = NoPeer => d.role = "Initiator")

\* A turn takes an open dialogue unless the peer has ended it, and one that is yet
\* to send its Begin only to start it.
TurnFits(k) ==
    /\ k.dlg.our > 0 /\ Settled(k.dlg)
    /\ k.kind = "End" <=> ~IsOpen(k.dlg)
    /\ k.kind = "Start" <=> Opening(k.dlg)
    /\ k.kind = "Start" => k.dlg.peer = NoPeer
    /\ k.kind = "Begin" => k.dlg.peer # NoPeer

\* What is left of the dialogue, by the kind of turn.
LEMMA HandledSpeaks ==
    ASSUME NEW k \in Turns, k.kind # "None", TurnFits(k),
           NEW scripts \in [Callbacks(k) -> Scripts],
           NEW t, t = k.dlg.our, NEW p, p = k.dlg.peer, NEW e, e = Handled(k, scripts)
    PROVE  /\ t \in Nat /\ t > 0 /\ e \in DialoguesOf(t) /\ e.peer = p /\ p \in Peers \cup {NoPeer}
           /\ k.kind \notin {"Start", "End"} => e \in Underway(t, p, k.dlg.role)
           /\ k.kind = "Begin" => e.out # <<>>
           /\ k.kind = "End" => ~IsOpen(e) /\ e.out = <<>>
           /\ k.kind = "Start" /\ ~IsOpen(e) => e.out = <<>>
           /\ k.kind = "Start" /\ IsOpen(e) =>
                 e.flushed /\ e.role = "Initiator" /\ \E m : First(m, t) /\ e.out = <<m>>
<1> DEFINE d == k.dlg
<1>1. t \in Nat /\ e \in DialoguesOf(t)
    BY HandledType
<1>2. d \in DialoguesOf(t) /\ d.out = <<>> /\ d.our = t /\ t > 0 /\ d.peer = p
    BY DEF Turns, DialoguesOf, TurnFits, Settled
<1>3. p \in Peers \cup {NoPeer}
    BY <1>2 DEF DialoguesOf
<1>4. \A s \in Scripts : s \in Seq(Commands)
    BY ScriptsAssumption
<1>5. k.kind # "Timer" => scripts[1] \in Scripts
    BY DEF Callbacks
<1>6. CASE k.kind \notin {"Start", "End"}
    <2> DEFINE W == Underway(t, p, d.role)
    <2>1. d \in W
        <3>1. \A i \in DOMAIN d.out : FALSE
            BY <1>2
        <3> QED BY <1>2, <1>6, <3>1 DEF TurnFits, Underway
    <2>2. ASSUME NEW x \in W, NEW s \in Scripts PROVE Run(x, s) \in W
        <3>1. \A y \in W, c \in Commands : Command(y, c) \in W
            BY <1>1, <1>3, UnderwayCommand
        <3> HIDE DEF W
        <3> QED BY <1>4, <3>1, RunStays
    <2>3. ASSUME NEW x \in W, NEW reason \in Endings \ {"Open"}
          PROVE  AbortAs(x, reason) \in W /\ (p # NoPeer /\ IsOpen(x) => AbortAs(x, reason).out # <<>>)
        <3> DEFINE a == AbortAs(x, reason)
        <3>1. x \in DialoguesOf(t) /\ a \in DialoguesOf(t) /\ x.peer = p
            BY <1>1, AbortType DEF Underway
        <3>2. CASE ~IsOpen(x)
            <4>1. a = x
                BY <3>2 DEF AbortAs
            <4> QED BY <3>2, <4>1
        <3>3. CASE IsOpen(x) /\ p = NoPeer
            <4>1. Alike([a EXCEPT !.closed = x.closed], x)
                BY <1>1, <3>1, <3>3, AbortSpeaks
            <4> HIDE DEF a
            <4>2. a.role = x.role /\ a.peer = x.peer /\ a.flushed = x.flushed /\ a.out = x.out
                BY <3>1, <4>1 DEF Alike, DialoguesOf
            <4>3. a \in W
                BY <3>1, <3>3, <4>2 DEF Underway, Opening
            <4> QED BY <3>3, <4>3 DEF a
        <3>4. CASE IsOpen(x) /\ p # NoPeer
            <4>1. PICK m : m.type = "Abort" /\ Leg(m, t, p) /\ Says(a, x, m, x.flushed, reason)
                BY <1>1, <3>1, <3>4, AbortSpeaks
            <4>2. Closes(m, p) /\ p \in Peers
                BY <1>3, <3>4, <4>1 DEF Closes, Leg
            <4> HIDE DEF a
            <4>3. a \in W /\ a.out # <<>>
                BY <1>1, <3>1, <4>1, <4>2, UnderwaySays
            <4> QED BY <4>3 DEF a
        <3> QED BY <3>2, <3>3, <3>4
    <2>4. "NoAnswer" \in Endings \ {"Open"} /\ "IdleTimeout" \in Endings \ {"Open"}
        BY DEF Endings
    <2>5. CASE k.kind = "Begin"
        <3> DEFINE x == Run(d, scripts[1])
        <3>1. x \in W
            BY <1>5, <2>1, <2>2, <2>5
        <3>2. e = Answered(x)
            BY <2>5 DEF Handled
        <3>3. p # NoPeer
            BY <1>2, <2>5 DEF TurnFits
        <3> HIDE DEF x
        <3>4. e \in W
            <4> HIDE DEF W
            <4> QED BY <2>3, <2>4, <3>1, <3>2 DEF Answered
        <3>5. e.out # <<>>
            <4>1. CASE x.out # <<>>
                BY <3>2, <4>1 DEF Answered
            <4>2. CASE x.out = <<>>
                <5>1. IsOpen(x)
                    <6>1. \A i \in DOMAIN x.out : FALSE
                        BY <4>2
                    <6> QED BY <3>1, <3>3, <6>1 DEF Underway
                <5> HIDE DEF W
                <5> QED BY <2>3, <2>4, <3>1, <3>2, <3>3, <4>2, <5>1 DEF Answered
            <4> QED BY <4>1, <4>2
        <3> QED BY <1>1, <1>2, <1>3, <2>5, <3>4, <3>5 DEF Underway
    <2>6. CASE k.kind = "Timer"
        <3> DEFINE x == TimedOut(d, k.expired, scripts)
        <3>1. x \in W
            <4>1. scripts \in [DOMAIN k.expired -> Scripts] /\ k.expired \in Seq(Operations)
                BY <2>6 DEF Callbacks, Turns
            <4> HIDE DEF W
            <4> QED BY <2>1, <2>2, <4>1, TimedOutStays
        <3>2. e = x \/ e = AbortAs(x, "IdleTimeout")
            BY <2>6 DEF Handled
        <3> HIDE DEF x
        <3>3. e \in W
            <4> HIDE DEF W
            <4> QED BY <2>3, <2>4, <3>1, <3>2
        <3> QED BY <1>1, <1>2, <1>3, <2>6, <3>3 DEF Underway
    <2>7. CASE k.kind = "Continue"
        <3>1. e = Run(d, scripts[1])
            BY <2>7 DEF Handled
        <3>2. e \in W
            <4> HIDE DEF W
            <4> QED BY <1>5, <2>1, <2>2, <2>7, <3>1
        <3> QED BY <1>1, <1>2, <1>3, <2>7, <3>2 DEF Underway
    <2> QED BY <1>6, <2>5, <2>6, <2>7 DEF Turns
<1>7. CASE k.kind = "End"
    <2> DEFINE W == Silent(t, p)
    <2>1. d \in W
        BY <1>2, <1>7 DEF TurnFits, Silent
    <2>2. \A x \in W, c \in Commands : Command(x, c) \in W
        BY <1>1, SilentCommand
    <2>3. e = Run(d, scripts[1])
        BY <1>7 DEF Handled
    <2>4. e \in W
        <3> HIDE DEF W
        <3> QED BY <1>4, <1>5, <1>7, <2>1, <2>2, <2>3, RunStays
    <2> QED BY <1>1, <1>2, <1>3, <1>7, <2>4 DEF Silent
<1>8. CASE k.kind = "Start"
    <2> DEFINE W == Beginning(t)
               x == Run(d, scripts[1])
               none == <<>>
    <2>1. d \in W
        BY <1>2, <1>8 DEF TurnFits, Opening, Beginning
    <2>2. \A y \in W, c \in Commands : Command(y, c) \in W
        BY <1>1, BeginningCommand
    <2>3. x \in W
        <3> HIDE DEF W
        <3> QED BY <1>4, <1>5, <1>8, <2>1, <2>2, RunStays
    <2>4. x \in DialoguesOf(t) /\ x.peer = NoPeer /\ x.role = "Initiator" /\ p = NoPeer
          /\ (x.out # none => x.flushed /\ \E m : First(m, t) /\ x.out = <<m>>)
        BY <1>2, <1>8, <2>3 DEF Beginning, TurnFits
    <2>5. e = IF IsOpen(x) /\ x.out # none THEN x
              ELSE [x EXCEPT !.out = none, !.closed = IF IsOpen(x) THEN "NotSent" ELSE x.closed]
        BY <1>8 DEF Handled
    <2> DEFINE closed == IF IsOpen(x) THEN "NotSent" ELSE x.closed
    <2>6. closed # "Open"
        BY DEF IsOpen
    <2> HIDE DEF x, none, closed
    <2>7. CASE IsOpen(x) /\ x.out # none
        BY <1>1, <1>2, <1>3, <1>8, <2>4, <2>5, <2>7
    <2>8. CASE ~(IsOpen(x) /\ x.out # none)
        <3>1. e = [x EXCEPT !.out = none, !.closed = closed]
            BY <2>5, <2>8 DEF closed
        <3>2. e.out = none /\ e.closed = closed /\ e.peer = NoPeer
            BY <2>4, <3>1 DEF DialoguesOf
        <3>3. ~IsOpen(e)
            BY <2>6, <3>2 DEF IsOpen
        <3> QED BY <1>1, <1>2, <1>3, <1>8, <2>4, <3>2, <3>3 DEF none
    <2> QED BY <2>7, <2>8
<1> QED BY <1>6, <1>7, <1>8

----------------------------------------------------------------------------
(* What a message received makes of a dialogue.                            *)

\* receive_components: the components concern the operations only.
LEMMA ReceiveAlike ==
    ASSUME NEW t, NEW d \in DialoguesOf(t), NEW components \in Seq(Components),
           NEW isEnd \in BOOLEAN, NEW faulty \in BOOLEAN,
           NEW e, e = StageReject(ReceiveComponents(d, components, isEnd), faulty, isEnd)
    PROVE  e \in DialoguesOf(t) /\ Alike(e, d) /\ e.pending = d.pending
<1> DEFINE W == {x \in DialoguesOf(t) : Alike(x, d) /\ x.pending = d.pending}
           r == ReceiveComponents(d, components, isEnd)
<1>1. d \in W
    BY DEF Alike
<1>2. ASSUME NEW x \in W, NEW c \in Components PROVE ReceiveComponent(x, c, isEnd) \in W
    <2>1. ReceiveComponent(x, c, isEnd) \in DialoguesOf(t)
        BY <1>2, ReceiveOneType
    <2>2. \E ops, rejects : ReceiveComponent(x, c, isEnd) = [x EXCEPT !.outstanding = ops, !.rejects = rejects]
        BY DEF ReceiveComponent
    <2>3. x \in DialoguesOf(t) /\ Alike(x, d) /\ x.pending = d.pending
        BY <1>2
    <2>4. ASSUME NEW ops, NEW rejects, NEW y, y = [x EXCEPT !.outstanding = ops, !.rejects = rejects]
          PROVE  Alike(y, d) /\ y.pending = d.pending
        BY <2>3, <2>4 DEF Alike, DialoguesOf
    <2> QED BY <2>1, <2>2, <2>4
<1>3. r \in W
    <2> HIDE DEF W
    <2> QED BY <1>1, <1>2, ReceiveStays
<1>4. e = r \/ e = [r EXCEPT !.rejects = r.rejects \cup {"Unreadable"}]
    BY DEF StageReject
<1>5. e \in DialoguesOf(t)
    BY ReceiveType
<1> HIDE DEF r
<1> QED BY <1>3, <1>4, <1>5 DEF Alike, DialoguesOf

\* on_turn: a Continue names the peer of a dialogue that had none, an End closes it.
LEMMA ReceivedSpeaks ==
    ASSUME NEW t, NEW d \in DialoguesOf(t), NEW m \in InboundMessages, NEW e, e = Received(d, m)
    PROVE  /\ e \in DialoguesOf(t) /\ e.role = d.role /\ e.our = t
           /\ e.flushed = d.flushed /\ e.out = d.out
           /\ e.peer = IF m.type = "Continue" /\ d.peer = NoPeer THEN m.otid ELSE d.peer
           /\ e.closed = IF m.type = "End" THEN "PeerEnded" ELSE d.closed
<1> DEFINE isEnd == m.type = "End"
           faulty == m.fault = "Component"
           known == IF m.type = "Continue" /\ d.peer = NoPeer THEN [d EXCEPT !.peer = m.otid] ELSE d
           read == StageReject(ReceiveComponents(known, m.components, isEnd), faulty, isEnd)
           none == <<>>
<1>1. m.otid \in Peers \cup {NoPeer} /\ m.components \in Seq(Components)
    BY DEF InboundMessages, Components
<1>2. isEnd \in BOOLEAN /\ faulty \in BOOLEAN
    OBVIOUS
<1>3. /\ known \in DialoguesOf(t) /\ known.role = d.role /\ known.our = t /\ known.closed = d.closed
      /\ known.flushed = d.flushed /\ known.out = d.out
      /\ known.peer = IF m.type = "Continue" /\ d.peer = NoPeer THEN m.otid ELSE d.peer
    BY <1>1 DEF DialoguesOf
<1>4. read \in DialoguesOf(t) /\ Alike(read, known)
    <2> HIDE DEF known, isEnd, faulty
    <2> QED BY <1>1, <1>2, <1>3, ReceiveAlike
<1>5. e = IF m.type = "End"
          THEN [read EXCEPT !.outstanding = none, !.rejects = {}, !.closed = "PeerEnded"] ELSE read
    BY DEF Received
<1>6. e \in DialoguesOf(t)
    BY ReceivedType
<1> HIDE DEF read, known, none
<1>7. e.role = read.role /\ e.our = read.our /\ e.flushed = read.flushed /\ e.out = read.out
      /\ e.peer = read.peer /\ e.closed = IF m.type = "End" THEN "PeerEnded" ELSE read.closed
    BY <1>4, <1>5 DEF DialoguesOf
<1> QED BY <1>3, <1>4, <1>6, <1>7 DEF Alike

\* on_begin: the dialogue of a Begin has its peer.
LEMMA OpenedSpeaks ==
    ASSUME NEW m \in InboundMessages, counter \in Nat, NEW e, e = Opened(m)
    PROVE  /\ e \in DialoguesOf(counter + 1) /\ e.role = "Responder" /\ e.our = counter + 1
           /\ e.peer = m.otid /\ IsOpen(e) /\ e.out = <<>> /\ e.pending = {} /\ ~Opening(e)
<1> DEFINE portion == m.portion = "Aarq"
           faulty == m.fault = "Component"
           d == NewDialogue("Responder", counter + 1, m.otid, portion)
<1>1. m.otid \in Peers \cup {NoPeer} /\ m.components \in Seq(Components)
    BY DEF InboundMessages, Components
<1>2. portion \in BOOLEAN /\ faulty \in BOOLEAN
    OBVIOUS
<1>3. e = StageReject(ReceiveComponents(d, m.components, FALSE), faulty, FALSE)
    BY DEF Opened
<1>4. d \in DialoguesOf(counter + 1)
    <2>1. counter + 1 \in Nat /\ "Responder" \in {"Initiator", "Responder"}
        OBVIOUS
    <2> HIDE DEF portion
    <2> QED BY <1>1, <1>2, <2>1, NewType
<1>5. d.role = "Responder" /\ d.our = counter + 1 /\ d.peer = m.otid /\ d.closed = "Open"
      /\ d.out = <<>> /\ d.pending = {}
    BY DEF NewDialogue
<1> HIDE DEF d, faulty
<1>6. e \in DialoguesOf(counter + 1) /\ Alike(e, d) /\ e.pending = d.pending
    <2>1. ASSUME NEW isEnd \in BOOLEAN, NEW x,
                 x = StageReject(ReceiveComponents(d, m.components, isEnd), faulty, isEnd)
          PROVE  x \in DialoguesOf(counter + 1) /\ Alike(x, d) /\ x.pending = d.pending
        BY <1>1, <1>2, <1>4, <2>1, ReceiveAlike
    <2> QED BY <1>3, <2>1
<1> QED BY <1>5, <1>6 DEF Alike, IsOpen, Opening

\* unserved: the one message that answers a Begin nobody takes ends the dialogue.
LEMMA UnservedSpeaks ==
    ASSUME NEW m \in InboundMessages, counter \in Nat, m.otid # NoPeer
    PROVE  \E a : Leg(a, counter + 1, m.otid) /\ Closes(a, m.otid) /\ UnservedAnswer(m) = <<a>>
<1> DEFINE d == Opened(m)
           t == counter + 1
<1>1. /\ d \in DialoguesOf(t) /\ d.peer = m.otid /\ IsOpen(d) /\ d.out = <<>>
      /\ d.pending = {} /\ ~Opening(d) /\ d.our = t /\ t \in Nat
    BY OpenedSpeaks
<1> HIDE DEF d
<1>2. \E a : Leg(a, t, m.otid) /\ Closes(a, m.otid) /\ Flush(d, TRUE).out = <<a>>
    <2> DEFINE a == LegOf(d, TRUE)
               taken == [d EXCEPT !.pending = {}, !.staged = <<>>]
               out == Append(d.out, a)
    <2>1. Leg(a, t, m.otid) /\ Closes(a, m.otid)
        BY <1>1 DEF LegOf, Message, Leg, Closes
    <2>2. Flush(d, TRUE) = [taken EXCEPT !.out = out, !.rejects = {}, !.aare = FALSE, !.flushed = TRUE,
                                 !.outstanding = <<>>, !.closed = "Ended"]
        BY <1>1 DEF Flush
    <2> HIDE DEF a, out
    <2>3. Flush(d, TRUE).out = out
        BY <1>1, <2>2 DEF DialoguesOf
    <2>4. out = <<a>>
        <3>1. out = Append(<<>>, a)
            BY <1>1 DEF out
        <3> QED BY <3>1
    <2> QED BY <2>1, <2>3, <2>4
<1>3. \E a : Leg(a, t, m.otid) /\ Closes(a, m.otid) /\ AbortAs(d, "Aborted").out = <<a>>
    <2>1. "Aborted" \in Endings
        BY DEF Endings
    <2>2. PICK a : a.type = "Abort" /\ Leg(a, t, m.otid) /\ Says(AbortAs(d, "Aborted"), d, a, d.flushed, "Aborted")
        BY <1>1, <2>1, AbortSpeaks
    <2>3. AbortAs(d, "Aborted").out = Append(<<>>, a)
        BY <1>1, <2>2 DEF Says
    <2>4. AbortAs(d, "Aborted").out = <<a>>
        BY <2>3
    <2> QED BY <2>2, <2>4 DEF Closes, Leg
<1>4. UnservedAnswer(m) = Flush(d, TRUE).out \/ UnservedAnswer(m) = AbortAs(d, "Aborted").out
    BY DEF UnservedAnswer, d
<1> QED BY <1>2, <1>3, <1>4

----------------------------------------------------------------------------
(* The dialogues in store and in the turns.                                *)

\* A stored dialogue is open and has sent its Begin.
StoredFits(t, d) == t > 0 /\ Settled(d) /\ IsOpen(d) /\ ~Opening(d)

ShapeInv ==
    /\ \A t \in DOMAIN store : StoredFits(t, store[t].dlg)
    /\ \A l \in Threads : turn[l].kind # "None" => TurnFits(turn[l])

\* What changed in the store concerns no dialogue's standing with its peer.
SameDialogues ==
    /\ DOMAIN store' = DOMAIN store
    /\ \A t \in DOMAIN store : Alike(store'[t].dlg, store[t].dlg)

\* Sweeping, ageing and giving claims back leave the dialogues alone.
LEMMA StoreKept ==
    ASSUME Types,
           \/ store' = store
           \/ Claims
           \/ \E t : store' = Released(t)
           \/ \E t : IdleElapses(t)
           \/ \E t, i : InvokeElapses(t, i)
    PROVE  SameDialogues
<1>0. \A d : Alike(d, d)
    BY DEF Alike
<1>1. CASE store' = store
    BY <1>0, <1>1 DEF SameDialogues
<1>2. CASE Claims
    <2>1. /\ DOMAIN store' = DOMAIN store
          /\ \A t \in DOMAIN store : store'[t].dlg = store[t].dlg
        BY <1>2 DEF Claims, Types, Stored
    <2> QED BY <1>0, <2>1 DEF SameDialogues
<1>3. ASSUME NEW t, store' = Released(t) PROVE SameDialogues
    <2>1. /\ DOMAIN store' = DOMAIN store
          /\ \A x \in DOMAIN store : store'[x].dlg = store[x].dlg
        BY <1>3 DEF Released, Types, Stored
    <2> QED BY <1>0, <2>1 DEF SameDialogues
<1>4. ASSUME NEW t, IdleElapses(t) PROVE SameDialogues
    <2>1. /\ DOMAIN store' = DOMAIN store
          /\ \A x \in DOMAIN store : store'[x].dlg = store[x].dlg
        BY <1>4 DEF IdleElapses, Types, Stored
    <2> QED BY <1>0, <2>1 DEF SameDialogues
<1>5. ASSUME NEW t, NEW i, InvokeElapses(t, i) PROVE SameDialogues
    <2> DEFINE d == store[t].dlg
               ops == [d.outstanding EXCEPT ![i] = [d.outstanding[i] EXCEPT !.due = TRUE]]
               e == [d EXCEPT !.outstanding = ops]
    <2>1. /\ t \in DOMAIN store /\ store[t] \in Stored(t) /\ d \in DialoguesOf(t)
          /\ store' = [store EXCEPT ![t] = [store[t] EXCEPT !.dlg = e]]
        BY <1>5 DEF InvokeElapses, Types, Stored
    <2>2. Alike(e, d)
        <3> HIDE DEF ops, d
        <3> QED BY <2>1 DEF Alike, DialoguesOf
    <2> HIDE DEF e
    <2>3. /\ DOMAIN store' = DOMAIN store /\ store'[t].dlg = e
          /\ \A x \in DOMAIN store \ {t} : store'[x].dlg = store[x].dlg
        BY <2>1 DEF Stored
    <2> QED BY <1>0, <2>2, <2>3 DEF SameDialogues
<1> QED BY <1>1, <1>2, <1>3, <1>4, <1>5

\* The stored dialogues keep their shape.
LEMMA ShapeKept ==
    ASSUME ShapeInv, SameDialogues, turn' = turn
    PROVE  ShapeInv'
BY DEF ShapeInv, SameDialogues, StoredFits, Settled, IsOpen, Opening, Alike

\* A dialogue that is taken out leaves the others theirs.
LEMMA ShapeTaken ==
    ASSUME Types, ShapeInv, NEW t, store' = Removed(t),
           \/ turn' = turn
           \/ \E l \in Threads : \E k : turn' = [turn EXCEPT ![l] = k] /\ TurnFits(k)
    PROVE  ShapeInv'
<1>1. \A u \in DOMAIN store' : u \in DOMAIN store /\ store'[u] = store[u]
    BY DEF Removed
<1>2. ASSUME NEW j \in Threads, turn'[j].kind # "None" PROVE TurnFits(turn'[j])
    BY <1>2 DEF ShapeInv, Types
<1> QED BY <1>1, <1>2 DEF ShapeInv

\* The turns of the lanes.
LEMMA OpenedTurn ==
    ASSUME NEW m \in InboundMessages, counter \in Nat, m.otid # NoPeer,
           NEW k, k = Turn("Begin", Opened(m), FALSE, <<>>)
    PROVE  /\ TurnFits(k) /\ k.kind = "Begin" /\ k.dlg.our = counter + 1 /\ k.dlg.peer = m.otid
<1> DEFINE d == Opened(m)
<1>1. /\ d.our = counter + 1 /\ d.peer = m.otid /\ IsOpen(d) /\ d.out = <<>> /\ ~Opening(d)
    BY OpenedSpeaks
<1> HIDE DEF d
<1>2. k.dlg = d /\ k.kind = "Begin"
    BY DEF Turn, d
<1>3. counter + 1 > 0
    OBVIOUS
<1>4. Settled(d)
    BY <1>1 DEF Settled
<1>5. TurnFits(k)
    BY <1>1, <1>2, <1>3, <1>4 DEF TurnFits
<1> QED BY <1>1, <1>2, <1>5

\* The turn of a Continue or an End of a stored dialogue.
LEMMA ReceivedTurn ==
    ASSUME NEW t, NEW d \in DialoguesOf(t), StoredFits(t, d), NEW m \in InboundMessages,
           m.type \in {"Continue", "End"},
           NEW k, k.kind = m.type, k.dlg = Received(d, m)
    PROVE  /\ TurnFits(k) /\ k.kind = m.type /\ k.dlg.our = t
           /\ k.dlg.peer = IF m.type = "Continue" /\ d.peer = NoPeer THEN m.otid ELSE d.peer
<1> DEFINE e == Received(d, m)
<1>1. /\ e.role = d.role /\ e.our = t /\ e.flushed = d.flushed /\ e.out = d.out
      /\ e.peer = IF m.type = "Continue" /\ d.peer = NoPeer THEN m.otid ELSE d.peer
      /\ e.closed = IF m.type = "End" THEN "PeerEnded" ELSE d.closed
    BY ReceivedSpeaks
<1> HIDE DEF e
<1>2. k.dlg = e /\ k.kind = m.type
    BY DEF e
<1>3. Settled(e)
    BY <1>1 DEF StoredFits, Settled
<1>4. IsOpen(e) <=> m.type # "End"
    BY <1>1 DEF StoredFits, IsOpen
<1>5. ~Opening(e)
    BY <1>1 DEF StoredFits, Opening
<1> QED BY <1>1, <1>2, <1>3, <1>4, <1>5 DEF TurnFits, StoredFits

\* The turn of the timers of a stored dialogue.
LEMMA ExpiredTurn ==
    ASSUME NEW t, NEW d \in DialoguesOf(t), StoredFits(t, d), NEW idle,
           NEW k, k = Turn("Timer", [d EXCEPT !.outstanding = Only(d.outstanding, IsWaitedFor)],
                           idle, Only(d.outstanding, IsDue))
    PROVE  TurnFits(k) /\ k.kind = "Timer" /\ k.dlg.our = t /\ k.dlg.peer = d.peer
<1> DEFINE ops == Only(d.outstanding, IsWaitedFor)
           e == [d EXCEPT !.outstanding = ops]
<1> HIDE DEF ops
<1>1. Alike(e, d) /\ d.our = t
    BY DEF Alike, DialoguesOf
<1>2. k.dlg = e /\ k.kind = "Timer"
    BY DEF Turn, ops
<1> HIDE DEF e
<1> QED BY <1>1, <1>2 DEF TurnFits, StoredFits, Settled, Alike, IsOpen, Opening

\* The node starts with nothing to keep in shape.
LEMMA InitShape == ASSUME Init PROVE ShapeInv
<1>1. DOMAIN store = {} /\ \A l \in Threads : turn[l].kind = "None"
    BY DEF Init, NoTurn, Turn
<1> QED BY <1>1 DEF ShapeInv

----------------------------------------------------------------------------
(* What is under way to this node and to the peer.                         *)

OnWire == {wire[i] : i \in DOMAIN wire}

\* What is said of messages under way.
LEMMA UnderWayHas ==
    /\ \A i \in DOMAIN local : local[i] \in UnderWay
    /\ \A w \in Works : w.do = "Deliver" => w.m \in UnderWay
    /\ \A m \in UnderWay : \/ \E i \in DOMAIN local : m = local[i]
                           \/ \E w \in Works : w.do = "Deliver" /\ m = w.m
BY DEF UnderWay

\* Nothing that is under way is none.
LEMMA UnderWayType == ASSUME Types PROVE UnderWay \subseteq InboundMessages
<1>1. \A i \in DOMAIN local : local[i] \in InboundMessages
    BY DEF Types
<1>2. ASSUME NEW w \in Works, w.do = "Deliver" PROVE w.m \in InboundMessages
    <2>1. PICK l \in Lanes : \E i \in DOMAIN lanes[l] : w = lanes[l][i]
        BY DEF Works
    <2>2. PICK i \in DOMAIN lanes[l] : w = lanes[l][i]
        BY <2>1
    <2>3. w \in Tasks
        BY <2>2 DEF Types
    <2>4. CASE \E m \in InboundMessages : w = Deliver(m)
        BY <2>4 DEF Deliver
    <2>5. CASE \E t \in Nat : w = Timers(t)
        BY <1>2, <2>5 DEF Timers
    <2> QED BY <2>3, <2>4, <2>5 DEF Tasks
<1> QED BY <1>1, <1>2, UnderWayHas

\* A lane that takes its work takes that alone.
LEMMA WorksThatGo ==
    ASSUME Types, NEW l \in Lanes, Takes(l)
    PROVE  Works' \subseteq Works /\ Work(l) \in Works
<1>1. lanes[l] \in Seq(Tasks) /\ lanes[l] # <<>> /\ lanes' = [lanes EXCEPT ![l] = Tail(lanes[l])]
      /\ DOMAIN lanes = Lanes
    BY DEF Types, Takes
<1>2. Work(l) \in Works
    <2>1. 1 \in DOMAIN lanes[l] /\ Work(l) = lanes[l][1]
        BY <1>1 DEF Work
    <2> QED BY <2>1 DEF Works
<1>3. ASSUME NEW j \in Lanes, NEW i \in DOMAIN lanes'[j] PROVE lanes'[j][i] \in Works
    <2>1. CASE j # l
        <3>1. lanes'[j] = lanes[j]
            BY <1>1, <2>1
        <3> QED BY <3>1 DEF Works
    <2>2. CASE j = l
        <3> DEFINE s == lanes[l]
        <3> HIDE DEF s
        <3>1. s \in Seq(Tasks) /\ s # <<>> /\ lanes'[l] = Tail(s)
            BY <1>1 DEF s
        <3>2. \A x \in DOMAIN Tail(s) : x + 1 \in DOMAIN s /\ Tail(s)[x] = s[x + 1]
            BY <3>1
        <3>3. i + 1 \in DOMAIN s /\ lanes'[l][i] = s[i + 1]
            BY <2>2, <3>1, <3>2
        <3>4. \E x \in DOMAIN lanes[l] : lanes[l][x] = lanes'[j][i]
            BY <2>2, <3>3 DEF s
        <3> QED BY <3>4 DEF Works
    <2> QED BY <2>1, <2>2
<1> QED BY <1>2, <1>3 DEF Works

\* ... and what was queued was not there before.
LEMMA WorksThatCame ==
    ASSUME Types, NEW l \in Lanes, NEW w \in Tasks, lanes' = [lanes EXCEPT ![l] = Append(lanes[l], w)]
    PROVE  Works' = Works \cup {w}
<1>1. lanes[l] \in Seq(Tasks) /\ DOMAIN lanes = Lanes
    BY DEF Types
<1>2. ASSUME NEW j \in Lanes, NEW i \in DOMAIN lanes'[j] PROVE lanes'[j][i] \in Works \cup {w}
    <2>1. CASE j # l
        <3>1. lanes'[j] = lanes[j]
            BY <1>1, <2>1
        <3> QED BY <3>1 DEF Works
    <2>2. CASE j = l
        <3> DEFINE s == lanes[l]
        <3> HIDE DEF s
        <3>1. s \in Seq(Tasks) /\ lanes'[l] = Append(s, w)
            BY <1>1 DEF s
        <3>2. \A x \in DOMAIN Append(s, w) : Append(s, w)[x] = w \/ (x \in DOMAIN s /\ Append(s, w)[x] = s[x])
            BY <3>1
        <3>3. lanes'[l][i] = w \/ \E x \in DOMAIN lanes[l] : lanes[l][x] = lanes'[l][i]
            BY <2>2, <3>1, <3>2 DEF s
        <3> QED BY <2>2, <3>3 DEF Works
    <2> QED BY <2>1, <2>2
<1>3. Works' \subseteq Works \cup {w}
    BY <1>2 DEF Works
<1> QED BY <1>3, WorksThatCome

\* What a lane delivers is under way until then.
LEMMA MailTaken ==
    ASSUME Types, NEW l \in Lanes, Takes(l), local' = local
    PROVE  /\ UnderWay' \subseteq UnderWay
           /\ Work(l).do = "Deliver" => Work(l).m \in UnderWay
           /\ \A m \in UnderWay : m \in UnderWay' \/ (Work(l).do = "Deliver" /\ m = Work(l).m)
<1>1. Works' \subseteq Works /\ Work(l) \in Works
    BY WorksThatGo
<1>2. \A w \in Works : w \in Works' \/ w = Work(l)
    BY WorksThatStay
<1> QED BY <1>1, <1>2 DEF UnderWay

\* What the dispatcher hands over stays under way.
LEMMA MailQueued ==
    ASSUME Types, Dispatch
    PROVE  UnderWay' = UnderWay
<1>1. PICK l \in Lanes :
          /\ local # <<>> /\ local' = Tail(local)
          /\ lanes' = [lanes EXCEPT ![l] = Append(lanes[l], Deliver(Head(local)))]
    BY DEF Dispatch, Dispatches
<1> DEFINE w == Deliver(Head(local))
<1>2. w \in Tasks
    BY <1>1 DEF Types, Tasks
<1>3. Works' = Works \cup {w}
    <2> HIDE DEF w
    <2>1. lanes' = [lanes EXCEPT ![l] = Append(lanes[l], w)]
        BY <1>1 DEF w
    <2> QED BY <1>2, <2>1, WorksThatCame
<1>4. w.do = "Deliver" /\ w.m = Head(local)
    BY DEF Deliver
<1>5. {local[i] : i \in DOMAIN local} = {local'[i] : i \in DOMAIN local'} \cup {Head(local)}
    <2>1. local \in Seq(InboundMessages) /\ local # <<>>
        BY <1>1 DEF Types
    <2>2. /\ 1 \in DOMAIN local /\ local[1] = Head(local)
          /\ \A i \in DOMAIN Tail(local) : i + 1 \in DOMAIN local /\ Tail(local)[i] = local[i + 1]
          /\ \A i \in DOMAIN local : i = 1 \/ (i - 1 \in DOMAIN Tail(local) /\ Tail(local)[i - 1] = local[i])
        BY <2>1
    <2>3. \A i \in DOMAIN local : local[i] = Head(local) \/ \E j \in DOMAIN local' : local'[j] = local[i]
        BY <1>1, <2>2
    <2>4. \A i \in DOMAIN local' : \E j \in DOMAIN local : local[j] = local'[i]
        BY <1>1, <2>2
    <2> QED BY <2>2, <2>3, <2>4
<1> HIDE DEF w
<1>6. ASSUME NEW m PROVE m \in UnderWay' <=> m \in UnderWay
    <2>1. m \in {v.m : v \in {v \in Works' : v.do = "Deliver"}}
             <=> m \in {v.m : v \in {v \in Works : v.do = "Deliver"}} \/ m = Head(local)
        BY <1>3, <1>4
    <2> QED BY <1>5, <2>1 DEF UnderWay
<1> QED BY <1>6

\* Timers are none of the peer's messages.
LEMMA TimersQueued ==
    ASSUME Types, NEW t \in Tids, QueueTimers(t)
    PROVE  UnderWay' = UnderWay
<1> DEFINE w == Timers(t)
           l == LaneOfTid[t]
<1>1. w \in Tasks /\ l \in Lanes /\ w.do # "Deliver"
    BY LaneOfAssumption DEF Tasks, Tids, Timers
<1>2. \/ lanes' = [lanes EXCEPT ![l] = Append(lanes[l], w)]
      \/ UNCHANGED lanes
    BY DEF QueueTimers
<1>3. Works' = Works \cup {w} \/ Works' = Works
    <2> HIDE DEF w, l
    <2>1. CASE lanes' = [lanes EXCEPT ![l] = Append(lanes[l], w)]
        BY <1>1, <2>1, WorksThatCame
    <2>2. CASE UNCHANGED lanes
        BY <2>2 DEF Works
    <2> QED BY <1>2, <2>1, <2>2
<1>4. local' = local
    BY DEF QueueTimers
<1> HIDE DEF w
<1>5. {v \in Works' : v.do = "Deliver"} = {v \in Works : v.do = "Deliver"}
    BY <1>1, <1>3
<1> QED BY <1>4, <1>5 DEF UnderWay

\* The peer's messages join the channel.
LEMMA MailComes ==
    ASSUME Types, NEW m \in InboundMessages, local' = Append(local, m), UNCHANGED lanes
    PROVE  UnderWay' = UnderWay \cup {m}
<1>1. Works' = Works
    BY DEF Works
<1>2. {local'[i] : i \in DOMAIN local'} = {local[i] : i \in DOMAIN local} \cup {m}
    <2>1. local \in Seq(InboundMessages)
        BY DEF Types
    <2>2. /\ Len(local) + 1 \in DOMAIN local' /\ local'[Len(local) + 1] = m
          /\ \A i \in DOMAIN local : i \in DOMAIN local' /\ local'[i] = local[i]
          /\ \A i \in DOMAIN local' : i \in DOMAIN local \/ local'[i] = m
        BY <2>1
    <2> QED BY <2>2
<1> QED BY <1>1, <1>2 DEF UnderWay

\* What leaves the channel and the lanes alone leaves what is under way.
LEMMA MailSame == ASSUME UNCHANGED <<local, lanes>> PROVE UnderWay' = UnderWay
BY DEF UnderWay, Works

\* What is sent joins what is on the wire, and the first of it goes.
LEMMA WireGrows ==
    ASSUME Types, NEW out \in Seq(Messages), Sends(out)
    PROVE  OnWire' = OnWire \cup {out[i] : i \in DOMAIN out}
<1>1. wire \in Seq(Messages) /\ wire' = wire \o out
    BY DEF Types, Sends
<1>2. /\ \A i \in DOMAIN wire : i \in DOMAIN wire' /\ wire'[i] = wire[i]
      /\ \A i \in DOMAIN out : Len(wire) + i \in DOMAIN wire' /\ wire'[Len(wire) + i] = out[i]
      /\ \A i \in DOMAIN wire' : \/ i \in DOMAIN wire /\ wire'[i] = wire[i]
                                 \/ i - Len(wire) \in DOMAIN out /\ wire'[i] = out[i - Len(wire)]
    BY <1>1
<1> QED BY <1>2 DEF OnWire

\* The first message on the wire is taken, and no other.
LEMMA WireShrinks ==
    ASSUME Types, wire # <<>>, wire' = Tail(wire)
    PROVE  OnWire = OnWire' \cup {Head(wire)}
<1>1. wire \in Seq(Messages)
    BY DEF Types
<1>2. /\ 1 \in DOMAIN wire /\ wire[1] = Head(wire)
      /\ \A i \in DOMAIN Tail(wire) : i + 1 \in DOMAIN wire /\ Tail(wire)[i] = wire[i + 1]
      /\ \A i \in DOMAIN wire : i = 1 \/ (i - 1 \in DOMAIN Tail(wire) /\ Tail(wire)[i - 1] = wire[i])
    BY <1>1
<1>3. \A i \in DOMAIN wire : wire[i] = Head(wire) \/ \E j \in DOMAIN wire' : wire'[j] = wire[i]
    BY <1>2
<1>4. \A i \in DOMAIN wire' : \E j \in DOMAIN wire : wire[j] = wire'[i]
    BY <1>2
<1> QED BY <1>2, <1>3, <1>4 DEF OnWire

\* What is on the wire is a message.
LEMMA WireType == ASSUME Types PROVE OnWire \subseteq Messages
BY DEF Types, OnWire

----------------------------------------------------------------------------
(* Who the messages are for, and the shape of the dialogues.               *)

\* A first message names the peer's transaction; a later one names ours, and the
\* peer's too if it is a Continue.
MailFor(m) ==
    IF m.dtid = 0 THEN m.otid \in Peers
    ELSE /\ m.type \in {"Continue", "End", "Abort"}
         /\ IF m.type = "Continue" THEN m.otid \in Peers ELSE m.otid = NoPeer

MailInv ==
    /\ \A m \in UnderWay : MailFor(m)
    /\ \A p \in Peers : peers[p].state = "Open" => peers[p].ours # 0
    /\ \A m \in OnWire : m.type \in {"Begin", "Continue"} => m.otid # 0

\* What a lane answers without a handler ends the peer's transaction.
LEMMA LaneSends ==
    ASSUME Types, MailInv, NEW l \in Lanes, LaneStep(l), NEW m, m = Work(l).m
    PROVE  \/ wire' = wire
           \/ /\ Work(l).do = "Deliver" /\ m \in UnderWay /\ m.otid \in Peers
              /\ \E a \in Messages : /\ Closes(a, m.otid) /\ Sends(<<a>>)
                                     /\ a.otid = 0 \/ (UnservedBegin(l) /\ a.otid = counter + 1)
<1>0. Takes(l) /\ local' = local /\ NoPeer \notin Peers
    BY LanesAssumption DEF LaneStep, Discards, ReturnsExhausted, OnProblem, RefuseBegin, UnservedBegin,
           OnBegin, Unknown, OnTurn, OnAbort, ExpireNothing, Expire
<1>1. Work(l).do = "Deliver" => m \in UnderWay /\ m \in InboundMessages /\ MailFor(m)
    BY <1>0, MailTaken, UnderWayType DEF MailInv
<1>2. Sends(<<>>) => wire' = wire
    BY DEF Sends, Types
<1>3. ASSUME NEW p \in Peers, NEW cause \in Notes
      PROVE  LET a == PAbort(p, cause) IN a \in Messages /\ Closes(a, p) /\ a.otid = 0
    BY <1>3, PAbortType DEF PAbort, Message, Closes
<1>4. CASE ReturnsExhausted(l)
    <2> DEFINE a == Message("Returned", 0, m.otid, {}, {}, "HopCounter")
    <2>1. Work(l).do = "Deliver" /\ Sends(ReturnOf(m))
        BY <1>4 DEF ReturnsExhausted
    <2>2. CASE m.otid = NoPeer
        BY <1>2, <2>1, <2>2 DEF ReturnOf
    <2>3. CASE m.otid \in Peers
        <3>1. a \in Messages /\ Closes(a, m.otid) /\ a.otid = 0
            BY <2>3 DEF Message, Messages, Notes, Closes
        <3>2. Sends(<<a>>) \/ wire' = wire
            BY <1>2, <2>1 DEF ReturnOf
        <3> HIDE DEF a
        <3> QED BY <1>1, <2>1, <2>3, <3>1, <3>2
    <2> QED BY <1>1, <2>1, <2>2, <2>3 DEF InboundMessages
<1>5. CASE OnProblem(l)
    <2>1. Work(l).do = "Deliver" /\ m.fault \in Notes
        BY <1>5 DEF OnProblem, Notes
    <2>2. CASE m.type \in {"Begin", "Continue"}
        <3>1. m.otid \in Peers
            BY <1>1, <2>1, <2>2 DEF MailFor
        <3> DEFINE a == PAbort(m.otid, m.fault)
        <3>2. a \in Messages /\ Closes(a, m.otid) /\ a.otid = 0
            BY <1>3, <2>1, <3>1
        <3>3. Sends(<<a>>)
            BY <1>5, <2>2 DEF OnProblem
        <3> HIDE DEF a
        <3> QED BY <1>1, <2>1, <3>1, <3>2, <3>3
    <2>3. CASE m.type \notin {"Begin", "Continue"}
        BY <1>2, <1>5, <2>3 DEF OnProblem
    <2> QED BY <2>2, <2>3
<1>6. CASE RefuseBegin(l)
    <2>1. Work(l).do = "Deliver" /\ m.type = "Begin" /\ m \in InboundMessages
        BY <1>1, <1>6 DEF RefuseBegin, Understood
    <2>2. m.otid \in Peers
        BY <1>1, <2>1 DEF MailFor
    <2> DEFINE cause == IF Ceiling THEN "Resource" ELSE m.portion
               a == PAbort(m.otid, cause)
    <2>3. cause \in Notes
        BY <2>1 DEF InboundMessages, Notes
    <2>4. Sends(<<a>>)
        BY <1>6 DEF RefuseBegin
    <2>5. a \in Messages /\ Closes(a, m.otid) /\ a.otid = 0
        <3> HIDE DEF cause
        <3> QED BY <1>3, <2>2, <2>3
    <2> HIDE DEF a
    <2> QED BY <1>1, <2>1, <2>2, <2>4, <2>5
<1>7. CASE UnservedBegin(l)
    <2>1. Work(l).do = "Deliver" /\ m.type = "Begin" /\ m \in InboundMessages /\ counter \in Nat
        BY <1>1, <1>7 DEF UnservedBegin, Understood, Types
    <2>2. m.otid \in Peers
        BY <1>1, <2>1 DEF MailFor
    <2>3. PICK a : Leg(a, counter + 1, m.otid) /\ Closes(a, m.otid) /\ UnservedAnswer(m) = <<a>>
        BY <1>0, <2>1, <2>2, UnservedSpeaks
    <2>4. Sends(<<a>>)
        BY <1>7, <2>3 DEF UnservedBegin
    <2>5. a \in Messages
        <3>1. Types'
            BY LaneStepTypes
        <3>2. wire' = wire \o <<a>> /\ wire \in Seq(Messages) /\ wire' \in Seq(Messages)
            BY <2>4, <3>1 DEF Sends, Types
        <3>3. a \in Range(wire')
            <4>1. Len(wire) + 1 \in DOMAIN wire' /\ wire'[Len(wire) + 1] = a
                BY <3>2
            <4> QED BY <4>1 DEF Range
        <3> QED BY <3>2, <3>3 DEF Range
    <2> QED BY <1>1, <1>7, <2>1, <2>2, <2>3, <2>4, <2>5 DEF Leg
<1>8. CASE Unknown(l)
    <2>1. Work(l).do = "Deliver"
        BY <1>8 DEF Unknown, Understood
    <2>2. CASE m.type = "Continue"
        <3>1. m.otid \in Peers /\ "Unrecognized" \in Notes
            BY <1>1, <2>1, <2>2 DEF MailFor, Notes
        <3> DEFINE a == PAbort(m.otid, "Unrecognized")
        <3>2. a \in Messages /\ Closes(a, m.otid) /\ a.otid = 0
            BY <1>3, <3>1
        <3>3. Sends(<<a>>)
            BY <1>8, <2>2 DEF Unknown
        <3> HIDE DEF a
        <3> QED BY <1>1, <2>1, <3>1, <3>2, <3>3
    <2>3. CASE m.type # "Continue"
        BY <1>2, <1>8, <2>3 DEF Unknown
    <2> QED BY <2>2, <2>3
<1>9. CASE wire' = wire
    BY <1>9
<1> QED BY <1>4, <1>5, <1>6, <1>7, <1>8, <1>9 DEF LaneStep, Discards, OnBegin, OnTurn, OnAbort, ExpireNothing, Expire

\* The dialogues keep their shape.
LEMMA NextShape == ASSUME Types, ShapeInv, MailInv, [Next]_vars PROVE ShapeInv'
<1>0. NoPeer \notin Peers
    BY LanesAssumption
<1>1. ASSUME SameDialogues, turn' = turn PROVE ShapeInv'
    BY <1>1, ShapeKept
<1>2. CASE Dispatch
    BY <1>1, <1>2, StoreKept DEF Dispatch
<1>3. CASE Sweep
    BY <1>1, <1>3, StoreKept DEF Sweep
<1>4. ASSUME NEW t \in Tids, QueueTimers(t) PROVE ShapeInv'
    BY <1>1, <1>4, StoreKept DEF QueueTimers
<1>5. ASSUME NEW t \in Tids, Elapses(t) PROVE ShapeInv'
    BY <1>1, <1>5, StoreKept DEF Elapses
<1>6. ASSUME NEW l \in Lanes, LaneStep(l) PROVE ShapeInv'
    <2> DEFINE m == Work(l).m
    <2>1. Takes(l) /\ local' = local
        BY <1>6 DEF LaneStep, Discards, ReturnsExhausted, OnProblem, RefuseBegin, UnservedBegin, OnBegin,
               Unknown, OnTurn, OnAbort, ExpireNothing, Expire
    <2>2. Work(l).do = "Deliver" => m \in UnderWay /\ m \in InboundMessages /\ MailFor(m)
        BY <2>1, MailTaken, UnderWayType DEF MailInv
    <2>3. l \in Threads
        BY DEF Threads
    <2>4. CASE Discards(l) \/ ReturnsExhausted(l) \/ RefuseBegin(l) \/ UnservedBegin(l) \/ Unknown(l)
        BY <1>1, <2>4, StoreKept DEF Discards, ReturnsExhausted, RefuseBegin, UnservedBegin, Unknown
    <2>5. CASE OnProblem(l) \/ OnAbort(l)
        BY <2>5, ShapeTaken DEF OnProblem, OnAbort
    <2>6. CASE OnBegin(l)
        <3> DEFINE k == Turn("Begin", Opened(m), FALSE, <<>>)
        <3>1. m \in InboundMessages /\ m.otid # NoPeer /\ counter \in Nat
            BY <1>0, <2>2, <2>6 DEF OnBegin, Understood, MailFor, Types
        <3>2. TurnFits(k)
            BY <3>1, OpenedTurn
        <3>3. turn' = [turn EXCEPT ![l] = k] /\ store' = store
            BY <2>6 DEF OnBegin, Starts
        <3> HIDE DEF k
        <3>4. ASSUME NEW j \in Threads, turn'[j].kind # "None" PROVE TurnFits(turn'[j])
            BY <3>2, <3>3, <3>4 DEF ShapeInv, Types
        <3> QED BY <3>3, <3>4 DEF ShapeInv
    <2>7. CASE OnTurn(l)
        <3> DEFINE t == m.dtid
                   d == store[t].dlg
                   k == Turn(m.type, Received(d, m), FALSE, <<>>)
        <3>1. m \in InboundMessages /\ t \in DOMAIN store /\ m.type \in {"Continue", "End"}
            BY <2>2, <2>7 DEF OnTurn, Understood
        <3>2. d \in DialoguesOf(t) /\ StoredFits(t, d)
            BY <3>1 DEF Types, Stored, ShapeInv
        <3>3. TurnFits(k)
            <4>1. k.kind = m.type /\ k.dlg = Received(d, m)
                BY DEF Turn
            <4> HIDE DEF d, t, k
            <4> QED BY <3>1, <3>2, <4>1, ReceivedTurn
        <3>4. turn' = [turn EXCEPT ![l] = k] /\ store' = Removed(t)
            BY <2>7 DEF OnTurn, Starts
        <3> HIDE DEF k, t
        <3> QED BY <2>3, <3>3, <3>4, ShapeTaken
    <2>8. ASSUME NEW t \in Tids, Expire(l, t) PROVE ShapeInv'
        <3> DEFINE d == store[t].dlg
                   idle == IdleExpired(store[t])
                   k == Turn("Timer", [d EXCEPT !.outstanding = Only(d.outstanding, IsWaitedFor)],
                             idle, Only(d.outstanding, IsDue))
        <3>1. d \in DialoguesOf(t) /\ StoredFits(t, d)
            BY <2>8 DEF Expire, Types, Stored, ShapeInv
        <3>2. TurnFits(k)
            <4> HIDE DEF d, idle
            <4> QED BY <3>1, ExpiredTurn
        <3>3. turn' = [turn EXCEPT ![l] = k] /\ store' = Removed(t)
            BY <2>8 DEF Expire, Starts
        <3> HIDE DEF k
        <3> QED BY <2>3, <3>2, <3>3, ShapeTaken
    <2>9. ASSUME NEW t \in Tids, ExpireNothing(l, t) PROVE ShapeInv'
        BY <1>1, <2>9, StoreKept DEF ExpireNothing
    <2> QED BY <1>6, <2>4, <2>5, <2>6, <2>7, <2>8, <2>9 DEF LaneStep
<1>7. ASSUME NEW l \in Threads, turn' = [turn EXCEPT ![l] = NoTurn]
      PROVE  \A j \in Threads : turn'[j].kind # "None" => TurnFits(turn'[j])
    <2>1. NoTurn.kind = "None"
        BY DEF NoTurn, Turn
    <2> QED BY <1>7, <2>1 DEF ShapeInv, Types
<1>8. ASSUME NEW l \in Threads, TurnEnds(l) PROVE ShapeInv'
    <2> DEFINE k == turn[l]
               t == k.dlg.our
               p == k.dlg.peer
    <2>1. k \in Turns /\ k.kind # "None" /\ TurnFits(k) /\ turn' = [turn EXCEPT ![l] = NoTurn]
        BY <1>8 DEF TurnEnds, Returns, Types, ShapeInv
    <2>2. PICK scripts \in [Callbacks(k) -> Scripts] : Finish(k, Handled(k, scripts))
        BY <1>8 DEF TurnEnds
    <2> DEFINE e == Handled(k, scripts)
    <2>3. /\ t > 0 /\ e \in DialoguesOf(t) /\ e.peer = p
          /\ k.kind \notin {"Start", "End"} => e \in Underway(t, p, k.dlg.role)
          /\ k.kind = "End" => ~IsOpen(e)
          /\ k.kind = "Start" /\ IsOpen(e) => e.flushed /\ e.role = "Initiator"
        BY <2>1, HandledSpeaks
    <2> DEFINE none == <<>>
               x == [e EXCEPT !.out = none]
    <2>4. e.our = t
        BY <2>3 DEF DialoguesOf
    <2>5. store' = store \/ (IsOpen(e) /\ \E idle : store' = Storing(t, Record(x, idle)))
        BY <2>2, <2>4 DEF Finish, StoredBack
    <2>6. IsOpen(e) => StoredFits(t, x)
        <3>1. x.role = e.role /\ x.our = e.our /\ x.peer = e.peer /\ x.flushed = e.flushed
              /\ x.closed = e.closed /\ x.out = <<>>
            <4> HIDE DEF e
            <4> QED BY <2>3 DEF DialoguesOf
        <3>2. k.dlg.peer = NoPeer => k.dlg.role = "Initiator"
            BY <2>1 DEF TurnFits, Settled
        <3> HIDE DEF x, e, k
        <3>3. IsOpen(e) => ~Opening(e) /\ (e.peer = NoPeer => e.role = "Initiator")
            <4>1. CASE k.kind \notin {"Start", "End"}
                BY <2>3, <3>2, <4>1 DEF Underway
            <4>2. CASE k.kind = "Start"
                BY <2>3, <4>2 DEF Opening
            <4>3. CASE k.kind = "End"
                BY <2>3, <4>3
            <4> QED BY <4>1, <4>2, <4>3
        <3> QED BY <2>3, <3>1, <3>3 DEF StoredFits, Settled, IsOpen, Opening
    <2> HIDE DEF e, x, t
    <2>7. \A u \in DOMAIN store' : StoredFits(u, store'[u].dlg)
        <3>1. ASSUME NEW idle, IsOpen(e), store' = Storing(t, Record(x, idle)), NEW u \in DOMAIN store'
              PROVE  StoredFits(u, store'[u].dlg)
            <4>1. u = t => store'[u].dlg = x
                BY <3>1 DEF Storing, Record
            <4>2. u # t => u \in DOMAIN store /\ store'[u] = store[u]
                BY <3>1 DEF Storing
            <4> QED BY <2>6, <3>1, <4>1, <4>2 DEF ShapeInv
        <3>2. CASE store' = store
            BY <3>2 DEF ShapeInv
        <3> QED BY <2>5, <3>1, <3>2
    <2> QED BY <1>7, <2>1, <2>7 DEF ShapeInv
<1>9. ASSUME NEW l \in Threads, Panics(l) PROVE ShapeInv'
    BY <1>7, <1>9 DEF Panics, Returns, ShapeInv
<1>10. CASE Originate
    <2> DEFINE d == NewDialogue("Initiator", counter + 1, NoPeer, TRUE)
               k == Turn("Start", d, FALSE, <<>>)
    <2>1. /\ d.our = counter + 1 /\ d.peer = NoPeer /\ d.role = "Initiator" /\ d.out = <<>>
          /\ ~d.flushed /\ d.closed = "Open"
        BY DEF NewDialogue
    <2> HIDE DEF d
    <2>2. k.dlg = d /\ k.kind = "Start" /\ counter + 1 > 0
        BY DEF Turn, Types
    <2>3. TurnFits(k)
        <3>1. Settled(d) /\ IsOpen(d) /\ Opening(d)
            BY <2>1 DEF Settled, IsOpen, Opening
        <3> QED BY <2>1, <2>2, <3>1 DEF TurnFits
    <2>4. turn' = [turn EXCEPT ![Origin] = k] /\ store' = store
        BY <1>10 DEF Originate, Starts, d
    <2> HIDE DEF k
    <2>5. ASSUME NEW j \in Threads, turn'[j].kind # "None" PROVE TurnFits(turn'[j])
        BY <2>3, <2>4, <2>5 DEF ShapeInv, Types
    <2> QED BY <2>4, <2>5 DEF ShapeInv
<1>11. CASE PeerStep
    BY <1>1, <1>11, PeerKeeps, StoreKept
<1>12. CASE Loses
    BY <1>1, <1>12, StoreKept DEF Loses
<1>13. CASE UNCHANGED vars
    BY <1>1, <1>13, StoreKept DEF vars
<1> QED BY <1>2, <1>3, <1>4, <1>5, <1>6, <1>8, <1>9, <1>10, <1>11, <1>12, <1>13 DEF Next

\* What a turn makes of its dialogue and says.
Leaves(k, e) ==
    /\ e \in DialoguesOf(k.dlg.our) /\ e.peer = k.dlg.peer
    /\ \A i \in DOMAIN e.out : IF k.kind = "Start" THEN Len(e.out) = 1 /\ First(e.out[i], k.dlg.our)
                               ELSE /\ k.dlg.peer \in Peers /\ Leg(e.out[i], k.dlg.our, k.dlg.peer)
                                    /\ IsOpen(e) => e.out[i].type = "Continue"
    /\ ~IsOpen(e) /\ k.dlg.peer \in Peers /\ k.kind # "End" =>
           \E i \in DOMAIN e.out : Closes(e.out[i], k.dlg.peer)
    /\ k.kind = "Begin" => e.out # <<>>
    /\ k.kind = "End" => ~IsOpen(e) /\ e.out = <<>>

\* It goes back to the store if it is open, and what it said is sent.
Ended(l, e) ==
    /\ Leaves(turn[l], e)
    /\ Sends(e.out)
    /\ turn' = [turn EXCEPT ![l] = NoTurn]
    /\ DOMAIN store' = DOMAIN store \cup (IF IsOpen(e) THEN {turn[l].dlg.our} ELSE {})
    /\ IsOpen(e) => store'[turn[l].dlg.our].dlg.peer = e.peer
    /\ \A u \in DOMAIN store \ {turn[l].dlg.our} : store'[u] = store[u]

\* finish_turn: a turn ends by what its handler made of the dialogue.
LEMMA TurnLeaves ==
    ASSUME Types, ShapeInv, NEW l \in Threads, TurnEnds(l)
    PROVE  \E e : Ended(l, e)
<1> DEFINE k == turn[l]
           t == k.dlg.our
           p == k.dlg.peer
<1>1. k \in Turns /\ k.kind # "None" /\ TurnFits(k) /\ turn' = [turn EXCEPT ![l] = NoTurn]
    BY DEF TurnEnds, Returns, Types, ShapeInv
<1>2. PICK scripts \in [Callbacks(k) -> Scripts] : Finish(k, Handled(k, scripts))
    BY DEF TurnEnds
<1> DEFINE e == Handled(k, scripts)
<1>3. /\ t \in Nat /\ t > 0 /\ e \in DialoguesOf(t) /\ e.peer = p /\ p \in Peers \cup {NoPeer}
      /\ k.kind \notin {"Start", "End"} => e \in Underway(t, p, k.dlg.role)
      /\ k.kind = "Begin" => e.out # <<>>
      /\ k.kind = "End" => ~IsOpen(e) /\ e.out = <<>>
      /\ k.kind = "Start" /\ ~IsOpen(e) => e.out = <<>>
      /\ k.kind = "Start" /\ IsOpen(e) => \E m : First(m, t) /\ e.out = <<m>>
    BY <1>1, HandledSpeaks
<1>4. k.kind = "Start" => p = NoPeer
    BY <1>1 DEF TurnFits
<1> DEFINE none == <<>>
           x == [e EXCEPT !.out = none]
<1>5. e.our = t
    BY <1>3 DEF DialoguesOf
<1>6. /\ Sends(e.out)
      /\ IF IsOpen(e) THEN \E idle : store' = Storing(t, Record(x, idle)) ELSE store' = store
    BY <1>2, <1>5 DEF Finish, StoredBack
<1>7. x.peer = e.peer
    <2> HIDE DEF e
    <2> QED BY <1>3 DEF DialoguesOf
<1> HIDE DEF e, x
<1>8. /\ DOMAIN store' = DOMAIN store \cup (IF IsOpen(e) THEN {t} ELSE {})
      /\ IsOpen(e) => store'[t].dlg.peer = e.peer
      /\ \A u \in DOMAIN store \ {t} : store'[u] = store[u]
    BY <1>6, <1>7 DEF Storing, Record
<1>9. /\ \A i \in DOMAIN e.out : IF k.kind = "Start" THEN Len(e.out) = 1 /\ First(e.out[i], t)
                                  ELSE /\ p \in Peers /\ Leg(e.out[i], t, p)
                                       /\ IsOpen(e) => e.out[i].type = "Continue"
      /\ ~IsOpen(e) /\ p \in Peers /\ k.kind # "End" => \E i \in DOMAIN e.out : Closes(e.out[i], p)
    <2> HIDE DEF k, t, p
    <2>1. CASE k.kind = "End"
        BY <1>3, <2>1
    <2>2. CASE k.kind = "Start" /\ ~IsOpen(e)
        BY <1>3, <1>4, <2>2, LanesAssumption
    <2>3. CASE k.kind = "Start" /\ IsOpen(e)
        <3>1. PICK m : First(m, t) /\ e.out = <<m>>
            BY <1>3, <2>3
        <3>2. Len(e.out) = 1 /\ \A i \in DOMAIN e.out : e.out[i] = m
            BY <3>1
        <3> QED BY <2>3, <3>1, <3>2
    <2>4. CASE k.kind \notin {"Start", "End"}
        <3>1. e \in Underway(t, p, k.dlg.role)
            BY <1>3, <2>4
        <3>2. \A i \in DOMAIN e.out : p # NoPeer /\ Leg(e.out[i], t, p)
                                      /\ (IsOpen(e) => e.out[i].type = "Continue")
            BY <3>1 DEF Underway
        <3>3. ~IsOpen(e) /\ p # NoPeer => \E i \in DOMAIN e.out : Closes(e.out[i], p)
            BY <3>1 DEF Underway
        <3> QED BY <1>3, <2>4, <3>2, <3>3, LanesAssumption
    <2> QED BY <2>1, <2>2, <2>3, <2>4
<1>10. Ended(l, e)
    BY <1>1, <1>3, <1>6, <1>8, <1>9 DEF Ended, Leaves
<1> QED BY <1>10

\* What is said is on the wire.
LEMMA EndedSends ==
    ASSUME Types, NEW l \in Threads, turn[l].kind # "None", NEW e, Ended(l, e)
    PROVE  /\ e.out \in Seq(Messages)
           /\ OnWire' = OnWire \cup {e.out[i] : i \in DOMAIN e.out}
<1>1. e.out \in Seq(Messages) /\ Sends(e.out)
    BY DEF Ended, Leaves, DialoguesOf
<1> QED BY <1>1, WireGrows

\* The peer opens a transaction, answers in one, or closes one.
Speaks(p, m, after) ==
    /\ PeerSends(p, m, after) /\ m \in InboundMessages /\ after.ours = peers[p].ours
    /\ \/ /\ peers[p].state = "Idle" /\ m.dtid = 0 /\ m.otid = p /\ after.spoke
          /\ after.state = IF m.type = "Begin" THEN "Sent" ELSE "Over"
       \/ /\ peers[p].state = "Open" /\ m.dtid = peers[p].ours
          /\ m.type = "Continue" /\ m.otid = p /\ after.state = "Open" /\ after.spoke
       \/ /\ peers[p].state = "Open" /\ m.dtid = peers[p].ours
          /\ m.type \in {"End", "Abort"} /\ m.otid = NoPeer /\ after.state = "Over"

\* What the peer makes of the message it hears.
Hearing(p, m) ==
    /\ IF m.type = "Begin" THEN peers[p].state = "Idle" ELSE p = m.dtid
    /\ peers' = [peers EXCEPT ![p] = PeerHears(p, m)]
    /\ peers'[p] = PeerHears(p, m)
    /\ \A q \in Peers \ {p} : peers'[q] = peers[q]

\* What it answers where it has no transaction.
Refusal(m) == Inbound("Abort", NoPeer, m.otid, NoComponents, "None")

Hears(m) ==
    /\ wire # <<>> /\ m = Head(wire) /\ wire' = Tail(wire)
    /\ m \in Messages /\ OnWire = OnWire' \cup {m}
    /\ IF Refuses(m) THEN peers' = peers /\ UnderWay' = UnderWay \cup {Refusal(m)}
       ELSE /\ UnderWay' = UnderWay
            /\ \/ peers' = peers /\ m.type # "Begin" /\ m.dtid \notin Peers
               \/ \E p \in Peers : Hearing(p, m)

\* A step of the peer that hears nothing says something.
LEMMA PeerSpeaking ==
    ASSUME Types, PeerStep, ~PeerReceives
    PROVE  \E p \in Peers : \E m, after : Speaks(p, m, after)
<1>1. ASSUME NEW p \in Peers
      PROVE  /\ peers[p] \in PeerRecords /\ peers[p].ours \in Nat /\ p \in Peers \cup {NoPeer}
             /\ NoComponents \in Seq(Components) /\ NoPeer \in Peers \cup {NoPeer}
    BY DEF Types, PeerRecords, NoComponents
<1>2. ASSUME NEW p \in Peers, PeerBegins(p) PROVE \E m, after : Speaks(p, m, after)
    <2>1. PICK o \in Openings :
              PeerSends(p, [o EXCEPT !.otid = p],
                        [peers[p] EXCEPT !.state = IF o.type = "Begin" THEN "Sent" ELSE "Over", !.spoke = TRUE])
        BY <1>2 DEF PeerBegins
    <2> DEFINE m == [o EXCEPT !.otid = p]
               state == IF o.type = "Begin" THEN "Sent" ELSE "Over"
               after == [peers[p] EXCEPT !.state = state, !.spoke = TRUE]
    <2>2. m \in InboundMessages /\ m.dtid = 0 /\ m.otid = p /\ m.type = o.type
        <3>1. o \in InboundMessages /\ o.dtid = 0
            BY OpeningsAssumption, FirstAssumption
        <3> QED BY <3>1 DEF InboundMessages
    <2>3. after.spoke /\ after.state = state /\ after.ours = peers[p].ours
        <3> HIDE DEF state
        <3> QED BY <1>1 DEF PeerRecords
    <2>4. PeerSends(p, m, after) /\ peers[p].state = "Idle"
        BY <1>2, <2>1 DEF PeerBegins
    <2> HIDE DEF m, after
    <2>5. Speaks(p, m, after)
        BY <2>2, <2>3, <2>4 DEF Speaks
    <2> QED BY <2>5
<1>3. ASSUME NEW p \in Peers, PeerContinues(p) PROVE \E m, after : Speaks(p, m, after)
    <2>1. PICK f \in PeerFaults, form \in PeerForms : \E c \in PeerSays(p, f) :
              PeerSends(p, Spoken("Continue", p, peers[p].ours, c, f, form),
                        [peers[p] EXCEPT !.spoke = TRUE, !.asked = peers[p].asked \ Answers(c)])
        BY <1>3 DEF PeerContinues, Spoken
    <2>2. PICK c \in PeerSays(p, f) :
              PeerSends(p, Spoken("Continue", p, peers[p].ours, c, f, form),
                        [peers[p] EXCEPT !.spoke = TRUE, !.asked = peers[p].asked \ Answers(c)])
        BY <2>1
    <2> DEFINE m == Spoken("Continue", p, peers[p].ours, c, f, form)
               asked == peers[p].asked \ Answers(c)
               after == [peers[p] EXCEPT !.spoke = TRUE, !.asked = asked]
    <2>3. m \in InboundMessages
        BY <1>1, SaidType, SpokenType
    <2>4. m.type = "Continue" /\ m.otid = p /\ m.dtid = peers[p].ours
        BY SpokenNames
    <2>5. PeerSends(p, m, after) /\ peers[p].state = "Open"
        BY <1>3, <2>2 DEF PeerContinues
    <2>6. after.spoke /\ after.state = "Open" /\ after.ours = peers[p].ours
        <3> HIDE DEF asked
        <3> QED BY <1>1, <2>5 DEF PeerRecords
    <2> HIDE DEF m, after
    <2>7. Speaks(p, m, after)
        BY <2>3, <2>4, <2>5, <2>6 DEF Speaks
    <2> QED BY <2>7
<1>4. ASSUME NEW p \in Peers, PeerEnds(p) \/ PeerAborts(p) PROVE \E m, after : Speaks(p, m, after)
    <2> DEFINE after == [peers[p] EXCEPT !.state = "Over"]
    <2> HIDE DEF after
    <2>1. PICK m \in InboundMessages :
              /\ m.type \in {"End", "Abort"} /\ m.otid = NoPeer /\ m.dtid = peers[p].ours
              /\ PeerSends(p, m, after)
        <3>1. CASE PeerEnds(p)
            <4>1. PICK f \in PeerFaults, form \in PeerForms : \E c \in PeerSays(p, f) :
                      PeerSends(p, Spoken("End", NoPeer, peers[p].ours, c, f, form), after)
                BY <3>1 DEF PeerEnds, Spoken, after
            <4>2. PICK c \in PeerSays(p, f) :
                      PeerSends(p, Spoken("End", NoPeer, peers[p].ours, c, f, form), after)
                BY <4>1
            <4> DEFINE m == Spoken("End", NoPeer, peers[p].ours, c, f, form)
            <4>3. m \in InboundMessages
                BY <1>1, SaidType, SpokenType
            <4>4. m.type = "End" /\ m.otid = NoPeer /\ m.dtid = peers[p].ours
                BY SpokenNames
            <4> HIDE DEF m
            <4> QED BY <4>2, <4>3, <4>4 DEF m
        <3>2. CASE PeerAborts(p)
            <4>1. PICK f \in PeerFaults, form \in PeerForms :
                      PeerSends(p, Spoken("Abort", NoPeer, peers[p].ours, NoComponents, f, form), after)
                BY <3>2 DEF PeerAborts, Spoken, after
            <4> DEFINE m == Spoken("Abort", NoPeer, peers[p].ours, NoComponents, f, form)
            <4>2. m \in InboundMessages
                BY <1>1, SpokenType
            <4>3. m.type = "Abort" /\ m.otid = NoPeer /\ m.dtid = peers[p].ours
                BY SpokenNames
            <4> HIDE DEF m
            <4> QED BY <4>1, <4>2, <4>3 DEF m
        <3> QED BY <1>4, <3>1, <3>2
    <2>2. after.state = "Over" /\ after.ours = peers[p].ours
        BY <1>1 DEF PeerRecords, after
    <2>3. peers[p].state = "Open"
        BY <1>4 DEF PeerEnds, PeerAborts
    <2>4. Speaks(p, m, after)
        BY <2>1, <2>2, <2>3 DEF Speaks
    <2> QED BY <2>4
<1> QED BY <1>2, <1>3, <1>4 DEF PeerStep

\* A message that reaches the peer is refused or heard.
LEMMA PeerHearing ==
    ASSUME Types, PeerReceives
    PROVE  \E m : Hears(m)
<1> DEFINE m == Head(wire)
<1>1. wire # <<>> /\ wire' = Tail(wire) /\ UNCHANGED lanes
    BY DEF PeerReceives
<1>2. OnWire = OnWire' \cup {m}
    BY <1>1, WireShrinks
<1>3. m \in Messages /\ m.otid \in Nat
    BY <1>2, WireType DEF Messages
<1>4. IF Refuses(m) THEN peers' = peers /\ local' = Append(local, Refusal(m))
      ELSE local' = local /\ \E p \in IF m.type = "Begin" THEN IdlePeers ELSE {m.dtid} :
                                peers' = [peers EXCEPT ![p] = PeerHears(p, m)]
    BY DEF PeerReceives, Refusal
<1> HIDE DEF m
<1>5. Refusal(m) \in InboundMessages
    <2>1. "None" \in PeerFaults /\ NoComponents \in Seq(Components) /\ NoPeer \in Peers \cup {NoPeer}
        BY DEF PeerFaults, NoComponents
    <2> QED BY <1>3, <2>1, InboundType DEF Refusal
<1>6. CASE Refuses(m)
    <2> DEFINE a == Refusal(m)
    <2> HIDE DEF a
    <2>1. UnderWay' = UnderWay \cup {a}
        <3>1. a \in InboundMessages /\ local' = Append(local, a)
            BY <1>4, <1>5, <1>6 DEF a
        <3> QED BY <1>1, <3>1, MailComes
    <2>2. Hears(m)
        BY <1>1, <1>2, <1>3, <1>4, <1>6, <2>1 DEF Hears, m, a
    <2> QED BY <2>2
<1>7. CASE ~Refuses(m)
    <2>1. PICK p \in IF m.type = "Begin" THEN IdlePeers ELSE {m.dtid} :
              peers' = [peers EXCEPT ![p] = PeerHears(p, m)]
        BY <1>4, <1>7
    <2>2. UnderWay' = UnderWay
        BY <1>1, <1>4, <1>7, MailSame
    <2>3. IF m.type = "Begin" THEN p \in Peers /\ peers[p].state = "Idle" ELSE p = m.dtid
        BY <2>1 DEF IdlePeers
    <2> DEFINE h == PeerHears(p, m)
    <2> HIDE DEF h
    <2>4. peers' = [peers EXCEPT ![p] = h] /\ peers \in [Peers -> PeerRecords]
        BY <2>1 DEF h, Types
    <2>5. p \in Peers => peers'[p] = h /\ \A q \in Peers \ {p} : peers'[q] = peers[q]
        BY <2>4
    <2>6. p \notin Peers => peers' = peers /\ m.type # "Begin" /\ m.dtid \notin Peers
        BY <2>3, <2>4
    <2>7. p \in Peers => Hearing(p, m)
        BY <2>3, <2>4, <2>5 DEF Hearing, h
    <2>8. Hears(m)
        BY <1>1, <1>2, <1>3, <1>7, <2>2, <2>6, <2>7 DEF Hears, m
    <2> QED BY <2>8
<1> QED BY <1>6, <1>7

\* Nothing is said under a transaction id that there is none of.
LEMMA NextMail == ASSUME Types, ShapeInv, MailInv, [Next]_vars PROVE MailInv'
<1>0. NoPeer \notin Peers
    BY LanesAssumption
<1>1. ASSUME UnderWay' \subseteq UnderWay, peers' = peers,
             \A m \in OnWire' : m \in OnWire \/ (m.type \in {"Begin", "Continue"} => m.otid # 0)
      PROVE  MailInv'
    BY <1>1 DEF MailInv
<1>2. CASE Dispatch
    BY <1>1, <1>2, MailQueued DEF Dispatch, OnWire
<1>3. CASE Sweep
    BY <1>1, <1>3, MailSame DEF Sweep, OnWire
<1>4. ASSUME NEW t \in Tids, QueueTimers(t) PROVE MailInv'
    BY <1>1, <1>4, TimersQueued DEF QueueTimers, OnWire
<1>5. ASSUME NEW t \in Tids, Elapses(t) PROVE MailInv'
    BY <1>1, <1>5, MailSame DEF Elapses, OnWire
<1>6. ASSUME NEW l \in Lanes, LaneStep(l) PROVE MailInv'
    <2>1. Takes(l) /\ local' = local /\ peers' = peers
        BY <1>6 DEF LaneStep, Discards, ReturnsExhausted, OnProblem, RefuseBegin, UnservedBegin, OnBegin,
               Unknown, OnTurn, OnAbort, ExpireNothing, Expire
    <2>2. UnderWay' \subseteq UnderWay
        BY <2>1, MailTaken
    <2>3. CASE wire' = wire
        BY <1>1, <2>1, <2>2, <2>3 DEF OnWire
    <2>4. ASSUME NEW a \in Messages, Sends(<<a>>), Closes(a, Work(l).m.otid) PROVE MailInv'
        <3>1. <<a>> \in Seq(Messages) /\ \A i \in DOMAIN <<a>> : <<a>>[i] = a
            OBVIOUS
        <3>2. \A m \in OnWire' : m \in OnWire \/ m = a
            BY <2>4, <3>1, WireGrows
        <3> QED BY <1>1, <2>1, <2>2, <2>4, <3>2 DEF Closes
    <2> QED BY <1>6, <2>3, <2>4, LaneSends
<1>7. ASSUME NEW l \in Threads, TurnEnds(l) PROVE MailInv'
    <2>1. PICK e : Ended(l, e)
        BY <1>7, TurnLeaves
    <2>2. turn[l].kind # "None" /\ turn[l].dlg.our > 0 /\ turn[l].dlg.our \in Nat
        BY <1>7 DEF TurnEnds, Returns, ShapeInv, TurnFits, Types, Turns, DialoguesOf
    <2>3. \A m \in OnWire' : m \in OnWire \/ m.otid = turn[l].dlg.our
        <3>1. \A i \in DOMAIN e.out : e.out[i].otid = turn[l].dlg.our
            BY <2>1 DEF Ended, Leaves, First, Leg
        <3>2. OnWire' = OnWire \cup {e.out[i] : i \in DOMAIN e.out}
            BY <2>1, <2>2, EndedSends
        <3> QED BY <3>1, <3>2
    <2> QED BY <1>1, <1>7, <2>2, <2>3, MailSame DEF TurnEnds
<1>8. ASSUME NEW l \in Threads, Panics(l) PROVE MailInv'
    BY <1>1, <1>8, MailSame DEF Panics, OnWire
<1>9. CASE Originate
    BY <1>1, <1>9, MailSame DEF Originate, OnWire
<1>10. ASSUME NEW p \in Peers, NEW m \in InboundMessages, NEW after, PeerSends(p, m, after),
              MailFor(m), after.state = "Open" => after.ours # 0
       PROVE  MailInv'
    <2>1. UnderWay' = UnderWay \cup {m} /\ OnWire' = OnWire
        BY <1>10, MailComes DEF PeerSends, OnWire
    <2>2. \A q \in Peers : peers'[q] = peers[q] \/ peers'[q] = after
        BY <1>10 DEF PeerSends, Types
    <2> QED BY <1>10, <2>1, <2>2 DEF MailInv
<1>12. ASSUME NEW p \in Peers, NEW m, NEW after, Speaks(p, m, after) PROVE MailInv'
    BY <1>10, <1>12 DEF Speaks, MailFor, MailInv
<1>15. CASE PeerReceives
    <2>1. PICK m : Hears(m)
        BY <1>15, PeerHearing
    <2>2. m.type \in {"Begin", "Continue"} => m.otid # 0
        BY <2>1 DEF Hears, MailInv
    <2>3. CASE Refuses(m)
        <3>1. UnderWay' = UnderWay \cup {Refusal(m)} /\ peers' = peers /\ MailFor(Refusal(m))
            BY <2>1, <2>2, <2>3 DEF Hears, Refuses, Refusal, Inbound, MailFor
        <3> QED BY <2>1, <3>1 DEF Hears, MailInv
    <2>4. ASSUME ~Refuses(m), NEW p \in Peers, Hearing(p, m) PROVE MailInv'
        <3>1. peers'[p].state = "Open" => peers'[p].ours # 0
            BY <2>2, <2>4 DEF Hearing, PeerHears, MailInv, Types, PeerRecords
        <3> QED BY <2>1, <2>4, <3>1 DEF Hears, Hearing, MailInv
    <2>5. CASE ~Refuses(m) /\ peers' = peers
        BY <2>1, <2>5 DEF Hears, MailInv
    <2> QED BY <2>1, <2>3, <2>4, <2>5 DEF Hears
<1>16. CASE PeerStep
    BY <1>12, <1>15, <1>16, PeerSpeaking
<1>17. CASE Loses
    <2>1. OnWire' \subseteq OnWire
        BY <1>17, WireShrinks DEF Loses
    <2> QED BY <1>1, <1>17, <2>1, MailSame DEF Loses
<1>18. CASE UNCHANGED vars
    BY <1>1, <1>18, MailSame DEF vars, OnWire
<1> QED BY <1>2, <1>3, <1>4, <1>5, <1>6, <1>7, <1>8, <1>9, <1>16, <1>17, <1>18 DEF Next

----------------------------------------------------------------------------
(* A peer opens a transaction once.                                        *)

IsFirst(m, p) == m.dtid = 0 /\ m.otid = p

OneFirst(p) ==
    /\ \A i, j \in DOMAIN local : IsFirst(local[i], p) /\ IsFirst(local[j], p) => i = j
    /\ \A i \in DOMAIN local, w \in Works : ~(IsFirst(local[i], p) /\ IsFirst(w.m, p))
    /\ \A k, l \in Lanes : \A i \in DOMAIN lanes[k], j \in DOMAIN lanes[l] :
           IsFirst(lanes[k][i].m, p) /\ IsFirst(lanes[l][j].m, p) => k = l /\ i = j

OnceInv ==
    /\ \A p \in Peers, m \in UnderWay : peers[p].state = "Idle" => m.otid # p
    /\ \A p \in Peers : OneFirst(p)

\* Where the work of a lane was before its first was taken.
LEMMA PlaceTaken ==
    ASSUME Types, NEW l \in Lanes, Takes(l), NEW j \in Lanes, NEW i \in DOMAIN lanes'[j]
    PROVE  IF j = l THEN i + 1 \in DOMAIN lanes[l] /\ lanes'[l][i] = lanes[l][i + 1] /\ i + 1 # 1
           ELSE i \in DOMAIN lanes[j] /\ lanes'[j][i] = lanes[j][i]
<1>1. lanes[l] \in Seq(Tasks) /\ lanes[l] # <<>> /\ lanes' = [lanes EXCEPT ![l] = Tail(lanes[l])]
      /\ DOMAIN lanes = Lanes
    BY DEF Types, Takes
<1>2. CASE j # l
    BY <1>1, <1>2
<1>3. CASE j = l
    <2> DEFINE s == lanes[l]
    <2> HIDE DEF s
    <2>1. s \in Seq(Tasks) /\ s # <<>> /\ lanes'[l] = Tail(s)
        BY <1>1 DEF s
    <2>2. \A x \in DOMAIN Tail(s) : x + 1 \in DOMAIN s /\ Tail(s)[x] = s[x + 1] /\ x + 1 # 1
        BY <2>1
    <2> QED BY <1>3, <2>1, <2>2 DEF s
<1> QED BY <1>2, <1>3

\* ... and before one more was queued.
LEMMA PlaceQueued ==
    ASSUME Types, NEW l \in Lanes, NEW w, lanes' = [lanes EXCEPT ![l] = Append(lanes[l], w)],
           NEW j \in Lanes, NEW i \in DOMAIN lanes'[j]
    PROVE  \/ i \in DOMAIN lanes[j] /\ lanes'[j][i] = lanes[j][i]
           \/ j = l /\ i = Len(lanes[l]) + 1 /\ lanes'[j][i] = w
<1>1. lanes[l] \in Seq(Tasks) /\ DOMAIN lanes = Lanes
    BY DEF Types
<1>2. CASE j # l
    BY <1>1, <1>2
<1>3. CASE j = l
    <2> DEFINE s == lanes[l]
    <2> HIDE DEF s
    <2>1. s \in Seq(Tasks) /\ lanes'[l] = Append(s, w)
        BY <1>1 DEF s
    <2>2. \A x \in DOMAIN Append(s, w) : \/ x \in DOMAIN s /\ Append(s, w)[x] = s[x]
                                         \/ x = Len(s) + 1 /\ Append(s, w)[x] = w
        BY <2>1
    <2> QED BY <1>3, <2>1, <2>2 DEF s
<1> QED BY <1>2, <1>3

\* A first message that is taken was the only one.
LEMMA FirstTaken ==
    ASSUME Types, OnceInv, NEW l \in Lanes, Takes(l), local' = local,
           Work(l).do = "Deliver", NEW p \in Peers, IsFirst(Work(l).m, p)
    PROVE  \A m \in UnderWay' : ~IsFirst(m, p)
<1>1. OneFirst(p) /\ Work(l) \in Works
    BY WorksThatGo DEF OnceInv
<1>2. \A i \in DOMAIN local : ~IsFirst(local[i], p)
    BY <1>1 DEF OneFirst
<1>3. 1 \in DOMAIN lanes[l] /\ Work(l) = lanes[l][1]
    BY DEF Takes, Types, Work
<1>4. ASSUME NEW j \in Lanes, NEW i \in DOMAIN lanes'[j] PROVE ~IsFirst(lanes'[j][i].m, p)
    BY <1>1, <1>3, PlaceTaken DEF OneFirst
<1>5. \A w \in Works' : ~IsFirst(w.m, p)
    BY <1>4 DEF Works
<1> QED BY <1>2, <1>5 DEF UnderWay

\* Every step keeps a first message the only one of its transaction.
LEMMA NextOnce == ASSUME Types, MailInv, OnceInv, [Next]_vars PROVE OnceInv'
<1>0. NoPeer \notin Peers
    BY LanesAssumption
<1>1. ASSUME UNCHANGED <<local, lanes, peers>> PROVE OnceInv'
    <2>1. UnderWay' = UnderWay /\ Works' = Works
        BY <1>1, MailSame DEF Works
    <2> QED BY <1>1, <2>1 DEF OnceInv, OneFirst
<1>2. CASE Dispatch
    <2>1. PICK l \in Lanes :
              /\ local # <<>> /\ local' = Tail(local)
              /\ lanes' = [lanes EXCEPT ![l] = Append(lanes[l], Deliver(Head(local)))]
        BY <1>2 DEF Dispatch, Dispatches
    <2> DEFINE w == Deliver(Head(local))
    <2>2. w \in Tasks /\ w.m = Head(local)
        BY <2>1 DEF Types, Tasks, Deliver
    <2> HIDE DEF w
    <2>3. lanes' = [lanes EXCEPT ![l] = Append(lanes[l], w)]
        BY <2>1 DEF w
    <2>4. Works' = Works \cup {w}
        BY <2>2, <2>3, WorksThatCame
    <2>5. /\ 1 \in DOMAIN local /\ local[1] = Head(local)
          /\ \A i \in DOMAIN local' : i + 1 \in DOMAIN local /\ local'[i] = local[i + 1] /\ i + 1 # 1
          /\ \A i \in DOMAIN local' : i \in Int
        <3>1. local \in Seq(InboundMessages)
            BY DEF Types
        <3> QED BY <2>1, <3>1
    <2>6. ASSUME NEW p \in Peers PROVE OneFirst(p)'
        <3>1. OneFirst(p)
            BY DEF OnceInv
        <3>2. \A i, j \in DOMAIN local' : IsFirst(local'[i], p) /\ IsFirst(local'[j], p) => i = j
            BY <2>5, <3>1 DEF OneFirst
        <3>3. \A i \in DOMAIN local' : IsFirst(local'[i], p) => ~IsFirst(w.m, p)
            BY <2>2, <2>5, <3>1 DEF OneFirst
        <3>4. \A i \in DOMAIN local', v \in Works' : ~(IsFirst(local'[i], p) /\ IsFirst(v.m, p))
            BY <2>4, <2>5, <3>1, <3>3 DEF OneFirst
        <3>5. ASSUME NEW k \in Lanes, NEW j \in Lanes, NEW x \in DOMAIN lanes'[k], NEW y \in DOMAIN lanes'[j],
                     IsFirst(lanes'[k][x].m, p), IsFirst(lanes'[j][y].m, p)
              PROVE  k = j /\ x = y
            <4>1. \A u \in Lanes : \A z \in DOMAIN lanes[u] : lanes[u][z] \in Works
                BY DEF Works
            <4>2. IsFirst(w.m, p) => \A v \in Works : ~IsFirst(v.m, p)
                BY <2>2, <2>5, <3>1 DEF OneFirst
            <4>3. \/ x \in DOMAIN lanes[k] /\ lanes'[k][x] = lanes[k][x]
                  \/ k = l /\ x = Len(lanes[l]) + 1 /\ lanes'[k][x] = w
                BY <2>3, PlaceQueued
            <4>4. \/ y \in DOMAIN lanes[j] /\ lanes'[j][y] = lanes[j][y]
                  \/ j = l /\ y = Len(lanes[l]) + 1 /\ lanes'[j][y] = w
                BY <2>3, PlaceQueued
            <4> QED BY <3>1, <3>5, <4>1, <4>2, <4>3, <4>4 DEF OneFirst
        <3> QED BY <3>2, <3>4, <3>5 DEF OneFirst
    <2> QED BY <1>2, <2>6, MailQueued DEF OnceInv, Dispatch
<1>3. ASSUME NEW t \in Tids, QueueTimers(t) PROVE OnceInv'
    <2> DEFINE w == Timers(t)
               l == LaneOfTid[t]
    <2>0. w.m.otid = NoPeer
        BY DEF Timers, NoMessage, Inbound
    <2>1. w \in Tasks /\ l \in Lanes
        BY LaneOfAssumption DEF Tasks, Tids
    <2>2. lanes' = [lanes EXCEPT ![l] = Append(lanes[l], w)] \/ UNCHANGED lanes
        BY <1>3 DEF QueueTimers
    <2>3. UnderWay' = UnderWay /\ UNCHANGED <<local, peers>>
        BY <1>3, TimersQueued DEF QueueTimers
    <2> HIDE DEF w, l
    <2>4. CASE lanes' = [lanes EXCEPT ![l] = Append(lanes[l], w)]
        <3>1. Works' = Works \cup {w}
            BY <2>1, <2>4, WorksThatCame
        <3>2. ASSUME NEW p \in Peers PROVE OneFirst(p)'
            <4>1. OneFirst(p) /\ ~IsFirst(w.m, p)
                BY <1>0, <2>0 DEF OnceInv, IsFirst
            <4>2. \A i \in DOMAIN local', v \in Works' : ~(IsFirst(local'[i], p) /\ IsFirst(v.m, p))
                BY <2>3, <3>1, <4>1 DEF OneFirst
            <4>3. \A k \in Lanes : \A x \in DOMAIN lanes'[k] : IsFirst(lanes'[k][x].m, p) =>
                      x \in DOMAIN lanes[k] /\ lanes'[k][x] = lanes[k][x]
                BY <2>1, <2>4, <4>1, PlaceQueued
            <4> QED BY <2>3, <4>1, <4>2, <4>3 DEF OneFirst
        <3> QED BY <2>3, <3>2 DEF OnceInv
    <2> QED BY <1>1, <2>2, <2>3, <2>4
<1>4. ASSUME NEW t \in Tids, Elapses(t) PROVE OnceInv'
    BY <1>1, <1>4 DEF Elapses
<1>5. ASSUME NEW l \in Lanes, LaneStep(l) PROVE OnceInv'
    <2>1. Takes(l) /\ local' = local /\ peers' = peers
        BY <1>5 DEF LaneStep, Discards, ReturnsExhausted, OnProblem, RefuseBegin, UnservedBegin, OnBegin,
               Unknown, OnTurn, OnAbort, ExpireNothing, Expire
    <2>2. UnderWay' \subseteq UnderWay /\ Works' \subseteq Works
        BY <2>1, MailTaken, WorksThatGo
    <2>3. ASSUME NEW p \in Peers PROVE OneFirst(p)'
        <3>1. OneFirst(p)
            BY DEF OnceInv
        <3>2. ASSUME NEW k \in Lanes, NEW j \in Lanes, NEW x \in DOMAIN lanes'[k], NEW y \in DOMAIN lanes'[j],
                     IsFirst(lanes'[k][x].m, p), IsFirst(lanes'[j][y].m, p)
              PROVE  k = j /\ x = y
            <4>1. IF k = l THEN x + 1 \in DOMAIN lanes[l] /\ lanes'[l][x] = lanes[l][x + 1]
                  ELSE x \in DOMAIN lanes[k] /\ lanes'[k][x] = lanes[k][x]
                BY <2>1, PlaceTaken
            <4>2. IF j = l THEN y + 1 \in DOMAIN lanes[l] /\ lanes'[l][y] = lanes[l][y + 1]
                  ELSE y \in DOMAIN lanes[j] /\ lanes'[j][y] = lanes[j][y]
                BY <2>1, PlaceTaken
            <4>3. x \in Int /\ y \in Int
                <5>1. lanes' \in [Lanes -> Seq(Tasks)]
                    BY <2>1, TakenWork
                <5> QED BY <5>1
            <4> QED BY <3>1, <3>2, <4>1, <4>2, <4>3 DEF OneFirst
        <3> QED BY <2>1, <2>2, <3>1, <3>2 DEF OneFirst
    <2> QED BY <2>1, <2>2, <2>3 DEF OnceInv
<1>6. ASSUME NEW m \in InboundMessages, local' = Append(local, m), UNCHANGED lanes,
             \A p \in Peers : IsFirst(m, p) => \A x \in UnderWay : x.otid # p
      PROVE  \A p \in Peers : OneFirst(p)'
    <2>1. SUFFICES ASSUME NEW p \in Peers PROVE OneFirst(p)'
        OBVIOUS
    <2>2. OneFirst(p) /\ Works' = Works
        BY <1>6 DEF OnceInv, Works
    <2>3. \A i \in DOMAIN local' : \/ i \in DOMAIN local /\ local'[i] = local[i]
                                   \/ i = Len(local) + 1 /\ local'[i] = m
        BY <1>6 DEF Types
    <2>4. CASE ~IsFirst(m, p)
        BY <1>6, <2>2, <2>3, <2>4 DEF OneFirst
    <2>5. CASE IsFirst(m, p)
        <3>1. \A i \in DOMAIN local : ~IsFirst(local[i], p)
            BY <1>6, <2>5, UnderWayHas DEF IsFirst
        <3>2. ASSUME NEW w \in Works PROVE ~IsFirst(w.m, p)
            <4>1. w.do = "Deliver" => ~IsFirst(w.m, p)
                BY <1>6, <2>5, UnderWayHas DEF IsFirst
            <4>2. w.do # "Deliver" => w.m.otid = NoPeer
                <5>1. w \in Tasks
                    BY DEF Works, Types
                <5> QED BY <5>1 DEF Tasks, Deliver, Timers, NoMessage, Inbound
            <4> QED BY <1>0, <4>1, <4>2 DEF IsFirst
        <3> QED BY <1>6, <2>2, <2>3, <3>1, <3>2 DEF OneFirst
    <2> QED BY <2>4, <2>5
<1>7. CASE PeerStep /\ ~PeerReceives
    <2>1. PICK p \in Peers : \E m, after : Speaks(p, m, after)
        BY <1>7, PeerSpeaking
    <2>2. PICK m, after : Speaks(p, m, after)
        BY <2>1
    <2>3. local' = Append(local, m) /\ UNCHANGED lanes /\ m \in InboundMessages
          /\ UnderWay' = UnderWay \cup {m}
        BY <2>2, MailComes DEF Speaks, PeerSends
    <2>4. peers'[p] = after /\ \A q \in Peers \ {p} : peers'[q] = peers[q]
        BY <2>2 DEF Speaks, PeerSends, Types
    <2>5. after.state # "Idle" /\ \A q \in Peers \ {p} : m.otid # q
        BY <1>0, <2>2 DEF Speaks
    <2>6. ASSUME NEW q \in Peers, IsFirst(m, q) PROVE \A x \in UnderWay : x.otid # q
        BY <1>0, <2>2, <2>6 DEF Speaks, IsFirst, MailInv, OnceInv
    <2>7. \A q \in Peers : OneFirst(q)'
        BY <1>6, <2>3, <2>6
    <2> QED BY <2>3, <2>4, <2>5, <2>7 DEF OnceInv
<1>8. CASE PeerReceives
    <2>1. PICK m : Hears(m)
        BY <1>8, PeerHearing
    <2>2. /\ Refusal(m).otid = NoPeer
          /\ \A q \in Peers : peers'[q].state = "Idle" => peers[q].state = "Idle"
        <3>1. Refusal(m).otid = NoPeer
            BY DEF Refusal, Inbound
        <3>2. ASSUME NEW p \in Peers, Hearing(p, m), peers'[p].state = "Idle" PROVE peers[p].state = "Idle"
            BY <3>2 DEF Hearing, PeerHears, Types, PeerRecords
        <3> QED BY <2>1, <3>1, <3>2 DEF Hears, Hearing
    <2>3. \A q \in Peers : OneFirst(q)'
        <3>1. UNCHANGED <<local, lanes>> \/ (local' = Append(local, Refusal(m)) /\ UNCHANGED lanes)
            BY <1>8, <2>1 DEF PeerReceives, Hears, Refusal
        <3>2. CASE UNCHANGED <<local, lanes>>
            BY <3>2 DEF OnceInv, OneFirst, Works
        <3>3. CASE local' = Append(local, Refusal(m)) /\ UNCHANGED lanes
            <4>1. Refusal(m) \in InboundMessages
                <5>1. "None" \in PeerFaults /\ NoComponents \in Seq(Components) /\ NoPeer \in Peers \cup {NoPeer}
                    BY DEF PeerFaults, NoComponents
                <5>2. m.otid \in Nat
                    BY <2>1 DEF Hears, Messages
                <5> QED BY <5>1, <5>2, InboundType DEF Refusal
            <4>2. \A q \in Peers : ~IsFirst(Refusal(m), q)
                BY <1>0, <2>2 DEF IsFirst
            <4> QED BY <1>6, <3>3, <4>1, <4>2
        <3> QED BY <3>1, <3>2, <3>3
    <2>4. \A x \in UnderWay' : x \in UnderWay \/ x.otid = NoPeer
        BY <2>1, <2>2 DEF Hears
    <2> QED BY <1>0, <2>2, <2>3, <2>4 DEF OnceInv
<1>9. ASSUME NEW l \in Threads, TurnEnds(l) \/ Panics(l) PROVE OnceInv'
    BY <1>1, <1>9 DEF TurnEnds, Panics
<1> QED BY <1>1, <1>2, <1>3, <1>4, <1>5, <1>7, <1>8, <1>9 DEF Next, Sweep, Originate, Loses, vars

\* The node starts with nothing under way.
LEMMA InitOnce == ASSUME Init PROVE MailInv /\ OnceInv
<1>1. local = <<>> /\ wire = <<>> /\ \A l \in Lanes : lanes[l] = <<>>
    BY DEF Init
<1>2. Works = {} /\ UnderWay = {} /\ OnWire = {}
    <2>1. Works = {}
        BY <1>1 DEF Works
    <2> QED BY <1>1, <2>1 DEF UnderWay, OnWire
<1>3. \A p \in Peers : peers[p].state = "Idle"
    BY DEF Init
<1> QED BY <1>1, <1>2, <1>3 DEF MailInv, OnceInv, OneFirst

----------------------------------------------------------------------------
(* What the peer may know of the transaction ids of this node.             *)

\* The dialogues whose first turn runs: nothing has been said of them.
Young == {turn[l].dlg.our : l \in {k \in Threads : turn[k].kind \in {"Begin", "Start"}}}

\* The ids that may have been given to the peer, and 0, which stands for none.
Given(t) == t \in Nat /\ t <= counter /\ t \notin Young

BeginsOnce ==
    \A i, j \in DOMAIN wire :
        wire[i].type = "Begin" /\ wire[j].type = "Begin" /\ wire[i].otid = wire[j].otid => i = j

BoundInv ==
    /\ \A m \in OnWire : Given(m.otid)
    /\ \A m \in UnderWay : Given(m.dtid)
    /\ \A p \in Peers : Given(peers[p].ours)
    /\ BeginsOnce

\* A first turn is that of a dialogue with the next id of the counter.
LEMMA FirstTurns ==
    ASSUME Types, MailInv, [Next]_vars
    PROVE  /\ counter' \in {counter, counter + 1}
           /\ \A l \in Threads : turn'[l].kind \in {"Begin", "Start"} =>
                  turn'[l] = turn[l] \/ turn'[l].dlg.our = counter + 1
<1>0. counter \in Nat /\ turn \in [Threads -> Turns]
    BY DEF Types
<1>1. ASSUME UNCHANGED <<turn, counter>>
      PROVE  /\ counter' \in {counter, counter + 1}
             /\ \A l \in Threads : turn'[l] = turn[l]
    BY <1>1
<1>2. ASSUME NEW l \in Threads, NEW k, turn' = [turn EXCEPT ![l] = k],
             k.kind \in {"Begin", "Start"} => k.dlg.our = counter + 1, counter' \in {counter, counter + 1}
      PROVE  /\ counter' \in {counter, counter + 1}
             /\ \A u \in Threads : turn'[u].kind \in {"Begin", "Start"} =>
                    turn'[u] = turn[u] \/ turn'[u].dlg.our = counter + 1
    BY <1>0, <1>2
<1>3. ASSUME NEW l \in Lanes, LaneStep(l)
      PROVE  /\ counter' \in {counter, counter + 1}
             /\ \A u \in Threads : turn'[u].kind \in {"Begin", "Start"} =>
                    turn'[u] = turn[u] \/ turn'[u].dlg.our = counter + 1
    <2>0. l \in Threads
        BY DEF Threads
    <2>1. CASE Discards(l) \/ ReturnsExhausted(l) \/ OnProblem(l) \/ RefuseBegin(l) \/ Unknown(l)
               \/ OnAbort(l) \/ \E t \in Tids : ExpireNothing(l, t)
        BY <1>1, <2>1 DEF Discards, ReturnsExhausted, OnProblem, RefuseBegin, Unknown, OnAbort, ExpireNothing
    <2>2. CASE UnservedBegin(l)
        <3>1. turn' = turn /\ counter' = counter + 1
            BY <2>2 DEF UnservedBegin
        <3> QED BY <3>1
    <2>3. CASE OnBegin(l)
        <3> DEFINE m == Work(l).m
                   k == Turn("Begin", Opened(m), FALSE, <<>>)
        <3>1. turn' = [turn EXCEPT ![l] = k] /\ counter' = counter + 1
            BY <2>3 DEF OnBegin, Starts
        <3>2. m \in InboundMessages
            BY <2>3, TakenWork DEF OnBegin, Understood
        <3>3. k.dlg.our = counter + 1
            <4> HIDE DEF m
            <4> QED BY <1>0, <3>2, OpenedSpeaks DEF Turn
        <3> HIDE DEF k
        <3> QED BY <1>2, <2>0, <3>1, <3>3
    <2>4. CASE OnTurn(l)
        <3> DEFINE m == Work(l).m
                   k == Turn(m.type, Received(store[m.dtid].dlg, m), FALSE, <<>>)
        <3>1. turn' = [turn EXCEPT ![l] = k] /\ counter' = counter /\ m.type \in {"Continue", "End"}
            BY <2>4 DEF OnTurn, Starts, Understood
        <3>2. k.kind = m.type
            BY DEF Turn
        <3> HIDE DEF k
        <3> QED BY <1>2, <2>0, <3>1, <3>2
    <2>5. ASSUME NEW t \in Tids, Expire(l, t)
          PROVE  /\ counter' \in {counter, counter + 1}
                 /\ \A u \in Threads : turn'[u].kind \in {"Begin", "Start"} =>
                        turn'[u] = turn[u] \/ turn'[u].dlg.our = counter + 1
        <3>1. PICK k : turn' = [turn EXCEPT ![l] = k] /\ k.kind = "Timer" /\ counter' = counter
            BY <2>5 DEF Expire, Starts, Turn
        <3> QED BY <1>2, <2>0, <3>1
    <2> QED BY <1>3, <2>1, <2>2, <2>3, <2>4, <2>5 DEF LaneStep
<1>4. ASSUME NEW l \in Threads, TurnEnds(l) \/ Panics(l)
      PROVE  /\ counter' \in {counter, counter + 1}
             /\ \A u \in Threads : turn'[u].kind \in {"Begin", "Start"} =>
                    turn'[u] = turn[u] \/ turn'[u].dlg.our = counter + 1
    <2>1. turn' = [turn EXCEPT ![l] = NoTurn] /\ counter' = counter /\ NoTurn.kind = "None"
        BY <1>4 DEF TurnEnds, Panics, Returns, NoTurn, Turn
    <2> QED BY <1>2, <2>1
<1>5. CASE Originate
    <2> DEFINE k == Turn("Start", NewDialogue("Initiator", counter + 1, NoPeer, TRUE), FALSE, <<>>)
    <2>1. turn' = [turn EXCEPT ![Origin] = k] /\ counter' = counter + 1 /\ Origin \in Threads
        BY <1>5 DEF Originate, Starts, Threads
    <2>2. k.dlg.our = counter + 1
        BY DEF Turn, NewDialogue
    <2> HIDE DEF k
    <2> QED BY <1>2, <2>1, <2>2
<1>6. CASE Dispatch \/ Sweep \/ PeerStep \/ Loses \/ UNCHANGED vars
           \/ \E t \in Tids : QueueTimers(t) \/ Elapses(t)
    <2>1. UNCHANGED <<turn, counter>>
        BY <1>6, PeerKeeps DEF Dispatch, Sweep, QueueTimers, Elapses, Loses, vars
    <2> QED BY <1>1, <2>1
<1> QED BY <1>3, <1>4, <1>5, <1>6 DEF Next

\* An id that was given to the peer stays so.
LEMMA GivenStays ==
    ASSUME Types, MailInv, [Next]_vars, NEW t, Given(t)
    PROVE  Given(t)'
<1>1. counter \in Nat /\ t \in Nat /\ t <= counter
    BY DEF Types, Given
<1>2. counter' \in {counter, counter + 1}
    BY FirstTurns
<1>3. ASSUME NEW l \in Threads, turn'[l].kind \in {"Begin", "Start"} PROVE turn'[l].dlg.our # t
    BY <1>1, <1>3, FirstTurns DEF Given, Young
<1> QED BY <1>1, <1>2, <1>3 DEF Given, Young

\* No dialogue has the id 0.
LEMMA ZeroGiven == ASSUME Types, ShapeInv PROVE Given(0)
<1>1. \A l \in Threads : turn[l].kind \in {"Begin", "Start"} => turn[l].dlg.our > 0
    BY DEF ShapeInv, TurnFits
<1>2. 0 \notin Young
    BY <1>1 DEF Young
<1> QED BY <1>2 DEF Given, Types

\* The id of a dialogue whose turn ends was given to nobody else's turn.
LEMMA TurnGiven ==
    ASSUME Types, OwnedInv, NEW l \in Threads, turn[l].kind # "None",
           turn' = [turn EXCEPT ![l] = NoTurn], counter' = counter, NEW t, t = turn[l].dlg.our
    PROVE  Given(t)'
<1>1. Runs(l, t) /\ t \in Nat /\ t <= counter /\ NoTurn.kind = "None"
    BY DEF Runs, OwnedInv, NoTurn, Turn
<1>2. ASSUME NEW u \in Threads, turn'[u].kind \in {"Begin", "Start"} PROVE turn'[u].dlg.our # t
    <2>1. u # l /\ turn'[u] = turn[u]
        BY <1>1, <1>2 DEF Types
    <2>2. Runs(u, turn[u].dlg.our)
        BY <1>2, <2>1 DEF Runs
    <2> QED BY <1>1, <2>1, <2>2 DEF OwnedInv
<1> QED BY <1>1, <1>2 DEF Given, Young

\* A Begin that nobody takes is answered under an id of its own.
LEMMA UnservedGiven ==
    ASSUME Types, OwnedInv, NEW l \in Lanes, UnservedBegin(l), NEW t, t = counter + 1
    PROVE  Given(t)'
<1>1. turn' = turn /\ counter' = counter + 1 /\ counter \in Nat
    BY DEF UnservedBegin, Types
<1>2. ASSUME NEW u \in Threads, turn[u].kind \in {"Begin", "Start"} PROVE turn[u].dlg.our <= counter
    <2>1. Runs(u, turn[u].dlg.our)
        BY <1>2 DEF Runs
    <2> QED BY <2>1 DEF OwnedInv
<1>3. \A u \in Threads : turn[u].kind \in {"Begin", "Start"} => turn[u].dlg.our # counter + 1
    BY <1>1, <1>2
<1> QED BY <1>1, <1>3 DEF Given, Young

\* What is sent is no second Begin of a dialogue.
LEMMA BeginsKept ==
    ASSUME Types, BeginsOnce, NEW out \in Seq(Messages), Sends(out),
           \A i \in DOMAIN out : out[i].type = "Begin" =>
               Len(out) = 1 /\ \A j \in DOMAIN wire : wire[j].otid # out[i].otid
    PROVE  BeginsOnce'
<1>1. wire \in Seq(Messages) /\ wire' = wire \o out
    BY DEF Types, Sends
<1>2. ASSUME NEW i \in DOMAIN wire', i \notin DOMAIN wire
      PROVE  i - Len(wire) \in DOMAIN out /\ wire'[i] = out[i - Len(wire)]
    BY <1>1, <1>2
<1>3. \A i \in DOMAIN wire : wire'[i] = wire[i]
    BY <1>1
<1>4. ASSUME NEW i \in DOMAIN wire', NEW j \in DOMAIN wire', wire'[i].type = "Begin", wire'[j].type = "Begin",
             wire'[i].otid = wire'[j].otid
      PROVE  i = j
    <2>1. CASE i \in DOMAIN wire /\ j \in DOMAIN wire
        BY <1>3, <1>4, <2>1 DEF BeginsOnce
    <2>2. CASE i \in DOMAIN wire /\ j \notin DOMAIN wire
        BY <1>2, <1>3, <1>4, <2>2
    <2>3. CASE i \notin DOMAIN wire /\ j \in DOMAIN wire
        BY <1>2, <1>3, <1>4, <2>3
    <2>4. CASE i \notin DOMAIN wire /\ j \notin DOMAIN wire
        <3>1. Len(out) = 1
            BY <1>2, <1>4, <2>4
        <3>2. i - Len(wire) \in 1 .. 1 /\ j - Len(wire) \in 1 .. 1
            BY <1>2, <2>4, <3>1
        <3>3. i \in Int /\ j \in Int /\ Len(wire) \in Nat
            BY <1>1
        <3> QED BY <3>2, <3>3
    <2> QED BY <2>1, <2>2, <2>3, <2>4
<1> QED BY <1>4 DEF BeginsOnce

\* The first message to the peer is taken from those there were.
LEMMA BeginsLeft ==
    ASSUME Types, BeginsOnce, wire # <<>>, wire' = Tail(wire)
    PROVE  /\ BeginsOnce'
           /\ \A m \in OnWire' : ~(m.type = "Begin" /\ Head(wire).type = "Begin" /\ m.otid = Head(wire).otid)
<1>1. wire \in Seq(Messages) /\ Head(wire) = wire[1] /\ 1 \in DOMAIN wire
    BY DEF Types
<1>2. \A i \in DOMAIN wire' : i \in Nat /\ i >= 1 /\ i + 1 \in DOMAIN wire /\ wire'[i] = wire[i + 1]
    BY <1>1
<1>3. ASSUME NEW i \in DOMAIN wire', NEW j \in DOMAIN wire', wire'[i].type = "Begin", wire'[j].type = "Begin",
             wire'[i].otid = wire'[j].otid
      PROVE  i = j
    <2>1. i + 1 = j + 1
        BY <1>2, <1>3 DEF BeginsOnce
    <2> QED BY <1>2, <2>1
<1>4. ASSUME NEW i \in DOMAIN wire', wire'[i].type = "Begin", Head(wire).type = "Begin",
             wire'[i].otid = Head(wire).otid
      PROVE  FALSE
    <2>1. i + 1 = 1
        BY <1>1, <1>2, <1>4 DEF BeginsOnce
    <2> QED BY <1>2, <2>1
<1> QED BY <1>3, <1>4 DEF BeginsOnce, OnWire

\* The peer knows only what was said to it, and is told of no dialogue twice.
LEMMA NextBound ==
    ASSUME Types, ShapeInv, MailInv, OwnedInv, BoundInv, [Next]_vars
    PROVE  BoundInv'
<1>0. Given(0)' /\ \A t : Given(t) => Given(t)'
    BY GivenStays, ZeroGiven
<1>1. ASSUME UnderWay' \subseteq UnderWay, peers' = peers, BeginsOnce',
             \A m \in OnWire' : m \in OnWire \/ Given(m.otid)'
      PROVE  BoundInv'
    BY <1>0, <1>1 DEF BoundInv
<1>2. ASSUME UnderWay' \subseteq UnderWay, peers' = peers, wire' = wire PROVE BoundInv'
    BY <1>1, <1>2 DEF BoundInv, BeginsOnce, OnWire
<1>3. CASE Dispatch
    BY <1>2, <1>3, MailQueued DEF Dispatch
<1>4. ASSUME NEW t \in Tids, QueueTimers(t) PROVE BoundInv'
    BY <1>2, <1>4, TimersQueued DEF QueueTimers
<1>5. CASE Sweep \/ Originate \/ UNCHANGED vars \/ (\E t \in Tids : Elapses(t)) \/ (\E l \in Threads : Panics(l))
    <2>1. UNCHANGED <<local, lanes, peers, wire>>
        BY <1>5 DEF Sweep, Originate, vars, Elapses, Panics
    <2> QED BY <1>2, <2>1, MailSame
<1>6. ASSUME NEW l \in Lanes, LaneStep(l) PROVE BoundInv'
    <2>1. Takes(l) /\ local' = local /\ peers' = peers
        BY <1>6 DEF LaneStep, Discards, ReturnsExhausted, OnProblem, RefuseBegin, UnservedBegin, OnBegin,
               Unknown, OnTurn, OnAbort, ExpireNothing, Expire
    <2>2. UnderWay' \subseteq UnderWay
        BY <2>1, MailTaken
    <2>3. CASE wire' = wire
        BY <1>2, <2>1, <2>2, <2>3
    <2>4. ASSUME NEW a \in Messages, Sends(<<a>>), Closes(a, Work(l).m.otid),
                 a.otid = 0 \/ (UnservedBegin(l) /\ a.otid = counter + 1)
          PROVE  BoundInv'
        <3>1. <<a>> \in Seq(Messages) /\ \A i \in DOMAIN <<a>> : <<a>>[i] = a
            OBVIOUS
        <3>2. \A m \in OnWire' : m \in OnWire \/ m = a
            BY <2>4, <3>1, WireGrows
        <3>3. Given(a.otid)'
            <4>1. CASE a.otid = 0
                BY <1>0, <4>1
            <4>2. CASE UnservedBegin(l) /\ a.otid = counter + 1
                <5>1. PICK t : t = counter + 1
                    OBVIOUS
                <5>2. Given(t)'
                    BY <4>2, <5>1, UnservedGiven
                <5> QED BY <4>2, <5>1, <5>2
            <4> QED BY <2>4, <4>1, <4>2
        <3>4. a.type # "Begin"
            BY <2>4 DEF Closes
        <3>5. BeginsOnce'
            <4>1. \A i \in DOMAIN <<a>> : <<a>>[i].type # "Begin"
                BY <3>1, <3>4
            <4> QED BY <2>4, <3>1, <4>1, BeginsKept DEF BoundInv
        <3> QED BY <1>1, <2>1, <2>2, <3>2, <3>3, <3>5
    <2> QED BY <1>6, <2>3, <2>4, LaneSends
<1>7. ASSUME NEW l \in Threads, TurnEnds(l) PROVE BoundInv'
    <2>0. PICK t : t = turn[l].dlg.our
        OBVIOUS
    <2>1. PICK e : Ended(l, e)
        BY <1>7, TurnLeaves
    <2>2. turn[l].kind # "None" /\ turn' = [turn EXCEPT ![l] = NoTurn] /\ UNCHANGED <<local, lanes, peers, counter>>
        BY <1>7 DEF TurnEnds, Returns
    <2>3. e.out \in Seq(Messages) /\ OnWire' = OnWire \cup {e.out[i] : i \in DOMAIN e.out} /\ Sends(e.out)
        BY <2>1, <2>2, EndedSends DEF Ended
    <2>4. \A i \in DOMAIN e.out : e.out[i].otid = t
        BY <2>0, <2>1 DEF Ended, Leaves, First, Leg
    <2>5. \A m \in OnWire' : m \in OnWire \/ m.otid = t
        BY <2>3, <2>4
    <2>6. Given(t)'
        BY <2>0, <2>2, TurnGiven
    <2>7. ASSUME NEW i \in DOMAIN e.out, e.out[i].type = "Begin"
          PROVE  Len(e.out) = 1 /\ \A j \in DOMAIN wire : wire[j].otid # e.out[i].otid
        <3>1. turn[l].kind = "Start" /\ Len(e.out) = 1
            BY <2>1, <2>7 DEF Ended, Leaves, Leg
        <3>2. t \in Young
            BY <2>0, <3>1 DEF Young
        <3>3. \A j \in DOMAIN wire : wire[j].otid # t
            BY <3>2 DEF BoundInv, Given, OnWire
        <3> QED BY <2>4, <3>1, <3>3
    <2>8. BeginsOnce'
        BY <2>3, <2>7, BeginsKept DEF BoundInv
    <2>9. UnderWay' = UnderWay
        BY <2>2, MailSame
    <2> QED BY <1>1, <2>2, <2>5, <2>6, <2>8, <2>9
<1>8. ASSUME NEW p \in Peers, NEW m, NEW after, Speaks(p, m, after) PROVE BoundInv'
    <2>1. /\ m \in InboundMessages /\ local' = Append(local, m) /\ UNCHANGED <<lanes, wire>>
          /\ peers' = [peers EXCEPT ![p] = after] /\ after.ours = peers[p].ours
          /\ m.dtid \in {0, peers[p].ours}
        BY <1>8 DEF Speaks, PeerSends
    <2>2. UnderWay' = UnderWay \cup {m} /\ OnWire' = OnWire /\ BeginsOnce'
        BY <2>1, MailComes DEF OnWire, BoundInv, BeginsOnce
    <2>3. \A q \in Peers : peers'[q].ours = peers[q].ours
        BY <2>1 DEF Types
    <2>4. Given(m.dtid)'
        BY <1>0, <2>1 DEF BoundInv
    <2>5. \A q \in Peers : Given(peers[q].ours)'
        BY <1>0, <2>3 DEF BoundInv, Given
    <2> QED BY <1>0, <2>2, <2>4, <2>5 DEF BoundInv
<1>9. CASE PeerReceives
    <2>1. PICK m : Hears(m)
        BY <1>9, PeerHearing
    <2>2. Given(m.otid)' /\ OnWire' \subseteq OnWire /\ BeginsOnce'
        BY <1>0, <2>1, BeginsLeft DEF Hears, BoundInv
    <2>3. CASE Refuses(m)
        <3>1. UnderWay' = UnderWay \cup {Refusal(m)} /\ peers' = peers /\ Refusal(m).dtid = m.otid
            BY <2>1, <2>3 DEF Hears, Refusal, Inbound
        <3> QED BY <1>0, <2>2, <3>1 DEF BoundInv
    <2>4. ASSUME ~Refuses(m), NEW p \in Peers, Hearing(p, m) PROVE BoundInv'
        <3>1. peers'[p].ours \in {m.otid, peers[p].ours}
            BY <2>4 DEF Hearing, PeerHears, Types, PeerRecords
        <3>2. \A q \in Peers : peers'[q].ours \in {m.otid, peers[q].ours}
            BY <2>4, <3>1 DEF Hearing
        <3>3. \A q \in Peers : Given(peers[q].ours)'
            BY <1>0, <2>2, <3>2 DEF BoundInv, Given
        <3>4. UnderWay' = UnderWay
            BY <2>1, <2>4 DEF Hears
        <3> QED BY <1>0, <2>2, <3>3, <3>4 DEF BoundInv
    <2>5. CASE ~Refuses(m) /\ peers' = peers
        BY <1>1, <2>1, <2>2, <2>5 DEF Hears
    <2> QED BY <2>1, <2>3, <2>4, <2>5 DEF Hears
<1>10. CASE PeerStep
    BY <1>8, <1>9, <1>10, PeerSpeaking
<1>11. CASE Loses
    <2>1. OnWire' \subseteq OnWire /\ BeginsOnce'
        BY <1>11, WireShrinks, BeginsLeft DEF Loses, BoundInv
    <2> QED BY <1>1, <1>11, <2>1, MailSame DEF Loses
<1> QED BY <1>3, <1>4, <1>5, <1>6, <1>7, <1>10, <1>11 DEF Next

\* The node starts with nothing said.
LEMMA InitBound == ASSUME Init PROVE BoundInv
<1>1. OnWire = {} /\ UnderWay = {} /\ counter = 0 /\ BeginsOnce
    BY DEF Init, OnWire, UnderWay, Works, BeginsOnce
<1>2. \A p \in Peers : peers[p].ours = 0
    BY DEF Init
<1>3. Young = {}
    BY DEF Init, Young, NoTurn, Turn
<1> QED BY <1>1, <1>2, <1>3 DEF BoundInv, Given

----------------------------------------------------------------------------
(* Which transaction of the peer each of ours belongs to.                  *)

\* NoPeer is for one that is unused, or that the peer has yet to hear of.
Maps == [Nat -> Peers \cup {NoPeer}]

\* This node has t and knows that it belongs to p.
Known(t, p) ==
    \/ t \in DOMAIN store /\ store[t].dlg.peer = p
    \/ \E l \in Threads : Runs(l, t) /\ turn[l].dlg.peer = p

Awaited(p) == \E l \in Threads : turn[l].kind = "Begin" /\ turn[l].dlg.peer = p

Ending(t) == \E l \in Threads : turn[l].kind = "End" /\ turn[l].dlg.our = t

Closing(p) == \E m \in OnWire : Closes(m, p)

Harmed(f, t) == f[t] \in Peers /\ f[t] \in hurt

\* What counts under way to and from the transaction p.
FirstBegin(m, p) == IsFirst(m, p) /\ m.type = "Begin"

Later(f, m, p) == m.dtid # 0 /\ f[m.dtid] = p

Pairs(f) == f[0] = NoPeer /\ \A t \in Nat : t > counter => f[t] = NoPeer

Single(f) == \A p \in Peers \ hurt : \A t, u \in Nat : f[t] = p /\ f[u] = p => t = u

PeerFits(f, p) ==
    /\ peers[p].ours # 0 => f[peers[p].ours] = p
    /\ peers[p].state = "Idle" => \A t \in Nat : f[t] # p

WireFits(f, m) ==
    IF m.type = "Begin" THEN m.dtid = NoPeer /\ f[m.otid] = NoPeer
    ELSE /\ m.dtid \in Peers /\ peers[m.dtid].state # "Idle"
         /\ m.otid # 0 => f[m.otid] = m.dtid

MailFits(f, m) ==
    IF m.dtid = 0 THEN m.otid \in hurt \/ (m.fault = "None" /\ ~Unread(m))
    ELSE /\ m.fault # "None" \/ m.form # "Unitdata" => Harmed(f, m.dtid)
         /\ m.type = "Continue" => f[m.dtid] = m.otid
         /\ m.type = "End" => f[m.dtid] # NoPeer
         /\ m.type # "Continue" /\ f[m.dtid] # NoPeer => peers[f[m.dtid]].state = "Over"
         /\ f[m.dtid] = NoPeer => \A b \in OnWire : ~(b.type = "Begin" /\ b.otid = m.dtid)

TurnMatches(f, l) ==
    LET t == turn[l].dlg.our IN
    /\ turn[l].kind = "Start" => f[t] = NoPeer
    /\ turn[l].kind = "End" => f[t] # NoPeer /\ peers[f[t]].state = "Over"

Matches(f) ==
    /\ f \in Maps /\ Pairs(f) /\ Single(f)
    /\ \A p \in Peers : PeerFits(f, p)
    /\ \A m \in OnWire : WireFits(f, m)
    /\ \A m \in UnderWay : MailFits(f, m)
    /\ \A t \in Nat, p \in Peers : Known(t, p) => f[t] = p
    /\ \A l \in Threads : TurnMatches(f, l)

\* The work and the turns of a transaction are those of its lane.
WorkPlaced(f, l, w) ==
    /\ w.do = "Deliver" /\ w.m.dtid # 0 => l = LaneOfTid[w.m.dtid] \/ Harmed(f, w.m.dtid)
    /\ w.do = "Timers" => l = LaneOfTid[w.tid]

TurnPlaced(f, l, k) ==
    k.kind \in {"Continue", "End", "Timer"} => l = LaneOfTid[k.dlg.our] \/ Harmed(f, k.dlg.our)

Places(f) ==
    /\ \A l \in Lanes : \A i \in DOMAIN lanes[l] : WorkPlaced(f, l, lanes[l][i])
    /\ \A l \in Threads : TurnPlaced(f, l, turn[l])

\* A peer that waits is heard or answered, one that listens is served or told,
\* one that is done is left.
AnswerComes(p) ==
    peers[p].state = "Sent" =>
        (\E m \in OnWire : m.dtid = p) \/ (\E m \in UnderWay : FirstBegin(m, p)) \/ Awaited(p)

AnswerIsMeant(p) ==
    \A m \in OnWire : m.type = "Continue" /\ m.dtid = p /\ peers[p].state \in {"Sent", "Open"} =>
        Known(m.otid, p) \/ Closing(p)

OpenIsServed(p) ==
    peers[p].state = "Open" =>
        \/ Known(peers[p].ours, p) \/ Closing(p) \/ ~peers[p].spoke
        \/ \E m \in UnderWay : m.type = "Continue" /\ m.otid = p /\ m.dtid # 0

ClosedIsGone(f, p) == Closing(p) => \A t \in Nat : f[t] = p => ~Alive(t)

OverIsLeft(p) ==
    peers[p].state = "Over" /\ peers[p].ours # 0 =>
        \/ ~Alive(peers[p].ours) \/ Ending(peers[p].ours)
        \/ \E m \in UnderWay : m.dtid = peers[p].ours /\ m.type \in {"End", "Abort"}

NewIsUnknown(f, p) ==
    \A m \in UnderWay : IsFirst(m, p) => (\A t \in Nat : f[t] # p) /\ \A b \in OnWire : b.dtid # p

Ends(f, p) ==
    /\ AnswerComes(p) /\ AnswerIsMeant(p) /\ OpenIsServed(p)
    /\ ClosedIsGone(f, p) /\ OverIsLeft(p) /\ NewIsUnknown(f, p)

Agree(f) == Matches(f) /\ Places(f) /\ \A p \in Peers \ hurt : Ends(f, p)

\* A transaction of the peer does not start anew, and what is hurt stays hurt.
LEMMA PeersAge ==
    ASSUME Types, [Next]_vars
    PROVE  /\ hurt \subseteq hurt'
           /\ \A p \in Peers : /\ peers[p].state # "Idle" => peers'[p].state # "Idle"
                               /\ peers[p].state = "Over" => peers'[p].state = "Over"
<1>1. CASE PeerStep /\ ~PeerReceives
    <2>0. PICK p \in Peers : \E m, after : Speaks(p, m, after)
        BY <1>1, PeerSpeaking
    <2>1. PICK m, after : Speaks(p, m, after)
        BY <2>0
    <2>2. /\ peers' = [peers EXCEPT ![p] = after] /\ hurt \subseteq hurt'
          /\ peers[p].state \in {"Idle", "Open"} /\ after.state \in {"Sent", "Open", "Over"}
        BY <2>1 DEF Speaks, PeerSends
    <2> QED BY <2>2 DEF Types
<1>2. CASE PeerReceives
    <2>1. PICK m : Hears(m)
        BY <1>2, PeerHearing
    <2>2. hurt' = hurt
        BY <1>2 DEF PeerReceives
    <2>3. ASSUME NEW p \in Peers, Hearing(p, m)
          PROVE  \A q \in Peers : /\ peers[q].state # "Idle" => peers'[q].state # "Idle"
                                  /\ peers[q].state = "Over" => peers'[q].state = "Over"
        <3>1. /\ peers[p].state # "Idle" => peers'[p].state # "Idle"
              /\ peers[p].state = "Over" => peers'[p].state = "Over"
            BY <2>3 DEF Hearing, PeerHears, Types, PeerRecords
        <3> QED BY <2>3, <3>1 DEF Hearing
    <2> QED BY <2>1, <2>2, <2>3 DEF Hears
<1>3. CASE ~PeerStep
    <2>1. peers' = peers /\ hurt \subseteq hurt'
        BY <1>3 DEF Next, vars, Dispatch, Sweep, QueueTimers, Elapses, LaneStep, Discards, ReturnsExhausted,
               OnProblem, RefuseBegin, UnservedBegin, OnBegin, Unknown, OnTurn, OnAbort, ExpireNothing,
               Expire, TurnEnds, Panics, Originate, Loses
    <2> QED BY <2>1
<1> QED BY <1>1, <1>2, <1>3 DEF PeerStep

\* A transaction of ours becomes that of the peer who opened it, or heard of it.
Joins(f, g, t, p) ==
    /\ t \in Nat \ {0} /\ p \in Peers /\ f[t] = NoPeer /\ g = [f EXCEPT ![t] = p]
    /\ t <= counter' /\ peers'[p].state # "Idle"
    /\ p \notin hurt' => \A u \in Nat : f[u] # p
    /\ \A m \in UnderWay : m.dtid # t
    /\ \A m \in OnWire' : ~(m.type = "Begin" /\ m.otid = t)
    /\ \A l \in Threads : turn[l].kind = "Start" => turn[l].dlg.our # t

\* What was there still fits, so it is what is new that has to.
LEMMA FitsStay ==
    ASSUME Types, ShapeInv, MailInv, [Next]_vars,
           NEW f, Matches(f), NEW g, g = f \/ \E t, p : Joins(f, g, t, p),
           \A p \in Peers : peers'[p] = peers[p] \/ PeerFits(g, p)',
           \A m \in OnWire' : m \in OnWire \/ WireFits(g, m)',
           \A m \in OnWire' : m.type = "Begin" => m \in OnWire \/ \A x \in UnderWay' : x.dtid # m.otid,
           \A m \in UnderWay' : m \in UnderWay \/ MailFits(g, m)',
           \A t \in Nat, p \in Peers : Known(t, p)' => Known(t, p) \/ g[t] = p,
           \A l \in Threads : turn'[l] = turn[l] \/ TurnMatches(g, l)'
    PROVE  Matches(g)'
<1>0. /\ NoPeer \notin Peers /\ f \in Maps /\ counter \in Nat /\ counter' \in Nat /\ counter <= counter'
      /\ hurt \subseteq hurt'
      /\ \A p \in Peers : /\ peers[p].state # "Idle" => peers'[p].state # "Idle"
                          /\ peers[p].state = "Over" => peers'[p].state = "Over"
    BY LanesAssumption, FirstTurns, PeersAge DEF Matches, Types
<1>1. g \in Maps
    BY <1>0 DEF Joins, Maps
<1>2. \A u \in Nat : f[u] \in Peers => g[u] = f[u]
    BY <1>0 DEF Joins, Maps
<1>3. Pairs(g)'
    BY <1>0 DEF Matches, Pairs, Joins, Maps
<1>4. Single(g)'
    <2>1. CASE g = f
        BY <1>0, <2>1 DEF Matches, Single
    <2>2. ASSUME NEW t, NEW p, Joins(f, g, t, p) PROVE Single(g)'
        <3>1. \A u \in Nat : g[u] = IF u = t THEN p ELSE f[u]
            BY <1>0, <2>2 DEF Joins, Maps
        <3>2. \A u \in Nat : p \notin hurt' => f[u] # p
            BY <2>2 DEF Joins
        <3>3. ASSUME NEW q \in Peers \ hurt', NEW u \in Nat, NEW v \in Nat, g[u] = q, g[v] = q PROVE u = v
            <4>1. CASE q = p
                BY <3>1, <3>2, <3>3, <4>1
            <4>2. CASE q # p
                BY <1>0, <3>1, <3>3, <4>2 DEF Matches, Single
            <4> QED BY <4>1, <4>2
        <3> QED BY <3>3 DEF Single
    <2> QED BY <2>1, <2>2
<1>5. \A p \in Peers : PeerFits(g, p)'
    <2>1. ASSUME NEW q \in Peers, peers'[q] = peers[q] PROVE PeerFits(g, q)'
        <3>1. PeerFits(f, q) /\ peers[q].ours \in Nat
            BY DEF Matches, Types, PeerRecords
        <3>2. peers[q].ours # 0 => g[peers[q].ours] = q
            BY <1>2, <3>1 DEF PeerFits
        <3>3. ASSUME peers[q].state = "Idle", NEW u \in Nat, g[u] = q PROVE FALSE
            <4>1. f[u] # q
                BY <3>1, <3>3 DEF PeerFits
            <4>2. PICK t, p : Joins(f, g, t, p)
                BY <3>3, <4>1
            <4>3. p = q
                BY <1>0, <3>3, <4>1, <4>2 DEF Joins, Maps
            <4> QED BY <2>1, <3>3, <4>2, <4>3 DEF Joins
        <3> QED BY <2>1, <3>2, <3>3 DEF PeerFits
    <2> QED BY <2>1
<1>6. \A m \in OnWire' : WireFits(g, m)'
    <2>1. ASSUME NEW m \in OnWire', m \in OnWire PROVE WireFits(g, m)'
        <3>1. WireFits(f, m) /\ m.otid \in Nat
            BY <2>1, WireType DEF Matches, Messages
        <3>2. CASE m.type = "Begin"
            <4>1. g[m.otid] = NoPeer
                BY <1>0, <2>1, <3>1, <3>2 DEF WireFits, Joins, Maps
            <4> QED BY <3>1, <3>2, <4>1 DEF WireFits
        <3>3. CASE m.type # "Begin"
            <4>1. m.dtid \in Peers /\ peers'[m.dtid].state # "Idle" /\ (m.otid # 0 => g[m.otid] = m.dtid)
                BY <1>0, <1>2, <3>1, <3>3 DEF WireFits
            <4> QED BY <3>3, <4>1 DEF WireFits
        <3> QED BY <3>2, <3>3
    <2> QED BY <2>1
<1>7. \A m \in UnderWay' : MailFits(g, m)'
    <2>1. ASSUME NEW m \in UnderWay', m \in UnderWay PROVE MailFits(g, m)'
        <3>1. MailFits(f, m) /\ m.dtid \in Nat /\ MailFor(m)
            BY <2>1, UnderWayType DEF Matches, InboundMessages, MailInv
        <3>2. CASE m.dtid = 0
            BY <1>0, <3>1, <3>2 DEF MailFits
        <3>3. CASE m.dtid # 0
            <4>1. g[m.dtid] = f[m.dtid]
                BY <1>0, <2>1, <3>1 DEF Joins, Maps
            <4>2. Harmed(f, m.dtid) => Harmed(g, m.dtid)'
                BY <1>0, <4>1 DEF Harmed
            <4>3. m.type # "Continue" /\ g[m.dtid] # NoPeer => peers'[g[m.dtid]].state = "Over"
                BY <1>0, <3>1, <3>3, <4>1 DEF MailFits, Maps
            <4>4. g[m.dtid] = NoPeer => \A b \in OnWire' : ~(b.type = "Begin" /\ b.otid = m.dtid)
                BY <2>1, <3>1, <3>3, <4>1 DEF MailFits
            <4> QED BY <3>1, <3>3, <4>1, <4>2, <4>3, <4>4 DEF MailFits
        <3> QED BY <3>2, <3>3
    <2> QED BY <2>1
<1>8. \A t \in Nat, p \in Peers : Known(t, p)' => g[t] = p
    BY <1>2 DEF Matches
<1>9. \A l \in Threads : TurnMatches(g, l)'
    <2>1. ASSUME NEW l \in Threads, turn'[l] = turn[l] PROVE TurnMatches(g, l)'
        <3> DEFINE t == turn[l].dlg.our
        <3>1. t \in Nat /\ TurnMatches(f, l) /\ f[t] \in Peers \cup {NoPeer}
            BY <1>0 DEF Types, Turns, DialoguesOf, Matches, Maps
        <3>2. turn[l].kind = "Start" => g[t] = NoPeer
            BY <1>0, <3>1 DEF TurnMatches, Joins, Maps
        <3>3. turn[l].kind = "End" => g[t] # NoPeer /\ peers'[g[t]].state = "Over"
            BY <1>0, <1>2, <3>1 DEF TurnMatches
        <3> QED BY <2>1, <3>2, <3>3 DEF TurnMatches
    <2> QED BY <2>1
<1> QED BY <1>1, <1>3, <1>4, <1>5, <1>6, <1>7, <1>8, <1>9 DEF Matches

\* A step that concerns another transaction of the peer, or nothing that counts.
Untouched(f, g, p) ==
    /\ peers'[p] = peers[p]
    /\ \A m \in OnWire : m.dtid = p => m \in OnWire'
    /\ \A m \in OnWire' : m.dtid = p => m \in OnWire
    /\ \A m \in UnderWay : FirstBegin(m, p) \/ Later(f, m, p) => m \in UnderWay'
    /\ \A m \in UnderWay' : IsFirst(m, p) => m \in UnderWay
    /\ \A t \in Nat : g[t] = p <=> f[t] = p
    /\ \A t \in Nat : f[t] = p => /\ Known(t, p) => Known(t, p)'
                                  /\ Alive(t)' => Alive(t)
                                  /\ Ending(t) /\ Alive(t)' => Ending(t)'
    /\ Awaited(p) => Awaited(p)'

\* A transaction of the peer that a step leaves untouched is still served.
LEMMA EndsStay ==
    ASSUME Types, NEW f, Matches(f), NEW g, NEW p \in Peers, Ends(f, p), Untouched(f, g, p)
    PROVE  Ends(g, p)'
<1>0. /\ f \in Maps /\ NoPeer \notin Peers /\ PeerFits(f, p) /\ peers'[p] = peers[p] /\ peers[p].ours \in Nat
      /\ Closing(p)' <=> Closing(p)
    BY LanesAssumption DEF Matches, Types, PeerRecords, Untouched, Closing, Closes
<1>1. AnswerComes(p)'
    BY <1>0 DEF Ends, AnswerComes, Untouched
<1>2. AnswerIsMeant(p)'
    <2>1. ASSUME NEW m \in OnWire', m.type = "Continue", m.dtid = p, peers[p].state \in {"Sent", "Open"}
          PROVE  Known(m.otid, p)' \/ Closing(p)'
        <3>1. m \in OnWire /\ m.otid \in Nat
            BY <2>1, WireType DEF Untouched, Messages
        <3>2. Known(m.otid, p) \/ Closing(p)
            BY <2>1, <3>1 DEF Ends, AnswerIsMeant
        <3>3. Known(m.otid, p) => f[m.otid] = p
            BY <3>1 DEF Matches
        <3> QED BY <1>0, <3>1, <3>2, <3>3 DEF Untouched
    <2> QED BY <1>0, <2>1 DEF AnswerIsMeant
<1>3. OpenIsServed(p)'
    <2>1. PICK t : t = peers[p].ours
        OBVIOUS
    <2>2. Known(t, p) => Known(t, p)'
        BY <1>0, <2>1 DEF Matches, Untouched
    <2>3. ASSUME NEW m \in UnderWay, m.type = "Continue", m.otid = p, m.dtid # 0 PROVE m \in UnderWay'
        BY <2>3 DEF Matches, MailFits, Later, Untouched
    <2>4. t = peers'[p].ours
        BY <1>0, <2>1
    <2>5. peers[p].state = "Open" =>
              \/ Known(t, p) \/ Closing(p) \/ ~peers[p].spoke
              \/ \E m \in UnderWay : m.type = "Continue" /\ m.otid = p /\ m.dtid # 0
        BY <2>1 DEF Ends, OpenIsServed
    <2> QED BY <1>0, <2>2, <2>3, <2>4, <2>5 DEF OpenIsServed
<1>4. ClosedIsGone(g, p)'
    BY <1>0 DEF Ends, ClosedIsGone, Untouched
<1>5. OverIsLeft(p)'
    <2>1. PICK t : t = peers[p].ours
        OBVIOUS
    <2>2. ASSUME peers[p].state = "Over", t # 0, Alive(t)'
          PROVE  Ending(t)' \/ \E m \in UnderWay' : m.dtid = t /\ m.type \in {"End", "Abort"}
        <3>1. f[t] = p /\ t \in Nat
            BY <1>0, <2>1, <2>2 DEF PeerFits
        <3>2. Alive(t) /\ (Ending(t) => Ending(t)')
            BY <2>2, <3>1 DEF Untouched
        <3>3. Ending(t) \/ \E m \in UnderWay : m.dtid = t /\ m.type \in {"End", "Abort"}
            BY <2>1, <2>2, <3>2 DEF Ends, OverIsLeft
        <3>4. \A m \in UnderWay : m.dtid = t => m \in UnderWay'
            BY <2>2, <3>1 DEF Later, Untouched
        <3> QED BY <3>2, <3>3, <3>4
    <2>3. t = peers'[p].ours
        BY <1>0, <2>1
    <2> QED BY <1>0, <2>1, <2>2, <2>3 DEF OverIsLeft
<1>6. NewIsUnknown(g, p)'
    BY <1>0 DEF Ends, NewIsUnknown, Untouched
<1> QED BY <1>1, <1>2, <1>3, <1>4, <1>5, <1>6 DEF Ends

\* The turns that the lanes start.
LEMMA TurnOfBegin ==
    ASSUME Types, MailInv, NEW l \in Lanes, OnBegin(l), NEW m, m = Work(l).m
    PROVE  /\ m \in InboundMessages /\ m \in UnderWay /\ m.otid \in Peers /\ l \in Threads
           /\ \E k \in Turns : /\ turn' = [turn EXCEPT ![l] = k] /\ k.kind = "Begin"
                               /\ k.dlg.our = counter + 1 /\ k.dlg.peer = m.otid
<1>1. /\ Takes(l) /\ local' = local /\ Work(l).do = "Deliver" /\ m.type = "Begin"
      /\ turn' = [turn EXCEPT ![l] = Turn("Begin", Opened(m), FALSE, <<>>)]
    BY DEF OnBegin, Understood, Starts
<1>2. m \in InboundMessages /\ m \in UnderWay /\ counter \in Nat /\ l \in Threads
    BY <1>1, TakenWork, MailTaken DEF Types, Threads
<1>3. m.otid \in Peers /\ m.otid # NoPeer
    BY <1>1, <1>2, LanesAssumption DEF MailInv, MailFor
<1> DEFINE k == Turn("Begin", Opened(m), FALSE, <<>>)
<1>4. TurnFits(k) /\ k.kind = "Begin" /\ k.dlg.our = counter + 1 /\ k.dlg.peer = m.otid
    BY <1>2, <1>3, OpenedTurn
<1> HIDE DEF k
<1>5. turn' = [turn EXCEPT ![l] = k] /\ turn \in [Threads -> Turns]
    BY <1>1 DEF k, Types
<1>6. k \in Turns
    <2>1. turn' \in [Threads -> Turns]
        BY NextTypes DEF Next, LaneStep, Types
    <2> QED BY <1>2, <1>5, <2>1
<1> QED BY <1>2, <1>3, <1>4, <1>5, <1>6

\* on_turn runs the handler of the dialogue its message is for.
LEMMA TurnOfMessage ==
    ASSUME Types, ShapeInv, NEW l \in Lanes, OnTurn(l), NEW m, m = Work(l).m, NEW t, t = m.dtid
    PROVE  /\ m \in InboundMessages /\ m \in UnderWay /\ m.type \in {"Continue", "End"} /\ l \in Threads
           /\ t \in DOMAIN store /\ t # 0 /\ store' = Removed(t)
           /\ \E k \in Turns : /\ turn' = [turn EXCEPT ![l] = k] /\ k.kind = m.type /\ k.dlg.our = t
                               /\ k.dlg.peer = IF m.type = "Continue" /\ store[t].dlg.peer = NoPeer THEN m.otid
                                               ELSE store[t].dlg.peer
<1>0. PICK d : d = store[t].dlg
    OBVIOUS
<1>1. PICK k : k = Turn(m.type, Received(d, m), FALSE, <<>>)
    OBVIOUS
<1>2. /\ Takes(l) /\ local' = local /\ Work(l).do = "Deliver" /\ m.type \in {"Continue", "End"}
      /\ t \in DOMAIN store /\ store' = Removed(t) /\ turn' = [turn EXCEPT ![l] = k]
    BY <1>0, <1>1 DEF OnTurn, Understood, Starts
<1>3. m \in InboundMessages /\ m \in UnderWay /\ l \in Threads
    BY <1>2, TakenWork, MailTaken DEF Threads
<1>4. d \in DialoguesOf(t) /\ StoredFits(t, d) /\ t # 0
    BY <1>0, <1>2 DEF ShapeInv, StoredFits, Types, Stored
<1>5. TurnFits(k) /\ k.kind = m.type /\ k.dlg.our = t
      /\ k.dlg.peer = IF m.type = "Continue" /\ d.peer = NoPeer THEN m.otid ELSE d.peer
    <2>1. k.kind = m.type /\ k.dlg = Received(d, m)
        BY <1>1 DEF Turn
    <2> QED BY <1>2, <1>3, <1>4, <2>1, ReceivedTurn
<1>6. k \in Turns
    <2>1. turn' \in [Threads -> Turns] /\ turn \in [Threads -> Turns]
        BY NextTypes DEF Next, LaneStep, Types
    <2> QED BY <1>2, <1>3, <2>1
<1> QED BY <1>0, <1>2, <1>3, <1>4, <1>5, <1>6

\* expire runs the handler of the dialogue its timers are of.
LEMMA TurnOfTimers ==
    ASSUME Types, ShapeInv, NEW l \in Lanes, NEW t \in Tids, Expire(l, t)
    PROVE  /\ l \in Threads /\ t \in DOMAIN store /\ store' = Removed(t)
           /\ \E k \in Turns : /\ turn' = [turn EXCEPT ![l] = k] /\ k.kind = "Timer" /\ k.dlg.our = t
                               /\ k.dlg.peer = store[t].dlg.peer
<1> DEFINE d == store[t].dlg
           k == Turn("Timer", [d EXCEPT !.outstanding = Only(d.outstanding, IsWaitedFor)],
                     IdleExpired(store[t]), Only(d.outstanding, IsDue))
<1>1. t \in DOMAIN store /\ store' = Removed(t) /\ turn' = [turn EXCEPT ![l] = k] /\ l \in Threads
    BY DEF Expire, Starts, Threads
<1>2. d \in DialoguesOf(t) /\ StoredFits(t, d)
    BY <1>1 DEF ShapeInv, Types, Stored
<1>3. TurnFits(k) /\ k.kind = "Timer" /\ k.dlg.our = t /\ k.dlg.peer = d.peer
    <2> HIDE DEF d
    <2> QED BY <1>2, ExpiredTurn
<1> HIDE DEF k
<1>4. k \in Turns
    <2>1. turn' \in [Threads -> Turns] /\ turn \in [Threads -> Turns]
        BY NextTypes DEF Next, LaneStep, Types
    <2> QED BY <1>1, <2>1
<1> QED BY <1>1, <1>3, <1>4

\* The dispatcher gives every lane its own dialogues, and a lane keeps to them.
LEMMA NextPlaces ==
    ASSUME Types, ShapeInv, MailInv, [Next]_vars,
           NEW f, Matches(f), Places(f), NEW g, \A u \in Nat : f[u] \in Peers => g[u] = f[u]
    PROVE  Places(g)'
<1>0. \A u \in Nat : Harmed(f, u) => Harmed(g, u)'
    BY PeersAge DEF Harmed
<1>1. ASSUME NEW l, NEW w \in Tasks, WorkPlaced(f, l, w) PROVE WorkPlaced(g, l, w)'
    <2>1. w.do = "Deliver" => w.m.dtid \in Nat
        BY DEF Tasks, Deliver, Timers, InboundMessages
    <2> QED BY <1>0, <1>1, <2>1 DEF WorkPlaced
<1>2. ASSUME NEW l, NEW k \in Turns, TurnPlaced(f, l, k) PROVE TurnPlaced(g, l, k)'
    <2>1. k.dlg.our \in Nat
        BY DEF Turns, DialoguesOf
    <2> QED BY <1>0, <1>2, <2>1 DEF TurnPlaced
<1>3. \A l \in Lanes : lanes[l] \in Seq(Tasks)
    BY DEF Types
<1>4. ASSUME NEW l \in Lanes, NEW i \in DOMAIN lanes[l], NEW w, w = lanes[l][i] PROVE WorkPlaced(g, l, w)'
    <2>1. w \in Tasks /\ WorkPlaced(f, l, w)
        BY <1>3, <1>4 DEF Places
    <2> QED BY <1>1, <2>1
<1>5. ASSUME NEW l \in Lanes, NEW i \in DOMAIN lanes'[l], NEW w, w = lanes'[l][i] PROVE WorkPlaced(g, l, w)'
    <2>1. CASE lanes' = lanes
        BY <1>4, <1>5, <2>1
    <2>2. ASSUME NEW k \in Lanes, Takes(k) PROVE WorkPlaced(g, l, w)'
        <3>1. IF l = k THEN i + 1 \in DOMAIN lanes[l] /\ w = lanes[l][i + 1]
              ELSE i \in DOMAIN lanes[l] /\ w = lanes[l][i]
            BY <1>5, <2>2, PlaceTaken
        <3> QED BY <1>4, <3>1
    <2>3. CASE Dispatch
        <3>1. PICK k \in Lanes :
                  /\ local # <<>> /\ DialogueLane(Head(local)) = k
                  /\ lanes' = [lanes EXCEPT ![k] = Append(lanes[k], Deliver(Head(local)))]
            BY <2>3 DEF Dispatch, Dispatches
        <3> DEFINE m == Head(local)
                   v == Deliver(m)
        <3>2. m \in InboundMessages /\ m \in UnderWay /\ v \in Tasks
            <4>1. 1 \in DOMAIN local /\ m = local[1] /\ m \in InboundMessages
                BY <3>1 DEF Types
            <4> QED BY <4>1, UnderWayHas DEF Tasks
        <3> HIDE DEF v
        <3>3. lanes' = [lanes EXCEPT ![k] = Append(lanes[k], v)]
            BY <3>1 DEF v
        <3>4. WorkPlaced(f, k, v)
            <4>1. m.dtid # 0 => m.type \in {"Continue", "End", "Abort"}
                BY <3>2 DEF MailInv, MailFor
            <4>2. m.dtid # 0 /\ m.fault # "None" => Harmed(f, m.dtid)
                BY <3>2 DEF Matches, MailFits
            <4>3. m.dtid # 0 /\ m.fault = "None" => k = LaneOfTid[m.dtid]
                BY <3>1, <4>1 DEF DialogueLane
            <4> QED BY <4>2, <4>3 DEF WorkPlaced, v, Deliver
        <3>5. (i \in DOMAIN lanes[l] /\ w = lanes[l][i]) \/ (l = k /\ w = v)
            BY <1>5, <3>3, PlaceQueued
        <3> QED BY <1>1, <1>4, <3>2, <3>4, <3>5
    <2>4. ASSUME NEW t \in Tids, QueueTimers(t) PROVE WorkPlaced(g, l, w)'
        <3> DEFINE v == Timers(t)
                   k == LaneOfTid[t]
        <3>1. k \in Lanes /\ v \in Tasks /\ WorkPlaced(f, k, v)
            BY LaneOfAssumption DEF Tasks, Tids, Timers, WorkPlaced
        <3>2. lanes' = lanes \/ lanes' = [lanes EXCEPT ![k] = Append(lanes[k], v)]
            BY <2>4 DEF QueueTimers
        <3> HIDE DEF v, k
        <3>3. CASE lanes' = [lanes EXCEPT ![k] = Append(lanes[k], v)]
            <4>1. (i \in DOMAIN lanes[l] /\ w = lanes[l][i]) \/ (l = k /\ w = v)
                BY <1>5, <3>1, <3>3, PlaceQueued
            <4> QED BY <1>1, <1>4, <3>1, <4>1
        <3> QED BY <2>1, <3>2, <3>3
    <2>5. \/ lanes' = lanes
          \/ \E k \in Lanes : Takes(k)
          \/ Dispatch
          \/ \E t \in Tids : QueueTimers(t)
        BY PeerKeeps DEF Next, vars, Sweep, Elapses, LaneStep, Discards, ReturnsExhausted, OnProblem,
               RefuseBegin, UnservedBegin, OnBegin, Unknown, OnTurn, OnAbort, ExpireNothing, Expire,
               TurnEnds, Panics, Originate, Loses
    <2> QED BY <2>1, <2>2, <2>3, <2>4, <2>5
<1>6. ASSUME NEW l \in Threads, NEW k, k = turn'[l] PROVE TurnPlaced(g, l, k)'
    <2>0. turn \in [Threads -> Turns] /\ (k = turn[l] => TurnPlaced(g, l, k)')
        BY <1>2 DEF Types, Places
    <2>1. CASE turn' = turn
        BY <1>6, <2>0, <2>1
    <2>2. ASSUME NEW j \in Threads, NEW x, turn' = [turn EXCEPT ![j] = x], x \in Turns /\ TurnPlaced(f, j, x)
          PROVE  TurnPlaced(g, l, k)'
        BY <1>2, <1>6, <2>0, <2>2
    <2>3. ASSUME NEW j \in Lanes, OnTurn(j) PROVE TurnPlaced(g, l, k)'
        <3>1. PICK m, t : m = Work(j).m /\ t = m.dtid
            OBVIOUS
        <3>2. PICK x \in Turns : turn' = [turn EXCEPT ![j] = x] /\ x.dlg.our = t /\ j \in Threads /\ t # 0
            BY <2>3, <3>1, TurnOfMessage
        <3>3. WorkPlaced(f, j, Work(j)) /\ Work(j).do = "Deliver"
            <4>1. 1 \in DOMAIN lanes[j] /\ Work(j) = lanes[j][1]
                BY <1>3, <2>3 DEF OnTurn, Takes, Work
            <4> QED BY <2>3, <4>1 DEF Places, OnTurn, Understood
        <3>4. j = LaneOfTid[t] \/ Harmed(f, t)
            BY <3>1, <3>2, <3>3 DEF WorkPlaced
        <3> QED BY <2>2, <3>2, <3>4 DEF TurnPlaced
    <2>4. ASSUME NEW j \in Lanes, NEW t \in Tids, Expire(j, t) PROVE TurnPlaced(g, l, k)'
        <3>1. PICK x \in Turns : turn' = [turn EXCEPT ![j] = x] /\ x.dlg.our = t /\ j \in Threads
            BY <2>4, TurnOfTimers
        <3>2. j = LaneOfTid[t]
            <4>1. 1 \in DOMAIN lanes[j] /\ Work(j) = lanes[j][1]
                BY <1>3, <2>4 DEF Expire, Takes, Work
            <4> QED BY <2>4, <4>1 DEF Places, WorkPlaced, Expire, IsTimers
        <3> QED BY <2>2, <3>1, <3>2 DEF TurnPlaced
    <2>5. ASSUME NEW j \in Threads, NEW x, turn' = [turn EXCEPT ![j] = x], x.kind \in {"None", "Begin", "Start"}
          PROVE  TurnPlaced(g, l, k)'
        <3>1. CASE l = j
            <4>1. k = x
                BY <1>6, <2>0, <2>5, <3>1
            <4> QED BY <2>5, <4>1 DEF TurnPlaced
        <3>2. CASE l # j
            BY <1>6, <2>0, <2>5, <3>2
        <3> QED BY <3>1, <3>2
    <2>6. \/ turn' = turn
          \/ \E j \in Lanes : OnTurn(j)
          \/ \E j \in Lanes, t \in Tids : Expire(j, t)
          \/ \E j \in Threads : \E x : turn' = [turn EXCEPT ![j] = x] /\ x.kind \in {"None", "Begin", "Start"}
        <3>1. CASE \E j \in Lanes : OnBegin(j)
            <4>1. PICK j \in Lanes : OnBegin(j)
                BY <3>1
            <4> DEFINE x == Turn("Begin", Opened(Work(j).m), FALSE, <<>>)
            <4>2. turn' = [turn EXCEPT ![j] = x] /\ x.kind = "Begin" /\ j \in Threads
                BY <4>1 DEF OnBegin, Starts, Turn, Threads
            <4> HIDE DEF x
            <4> QED BY <4>2
        <3>2. CASE Originate
            <4> DEFINE x == Turn("Start", NewDialogue("Initiator", counter + 1, NoPeer, TRUE), FALSE, <<>>)
            <4>1. turn' = [turn EXCEPT ![Origin] = x] /\ x.kind = "Start" /\ Origin \in Threads
                BY <3>2 DEF Originate, Starts, Turn, Threads
            <4> HIDE DEF x
            <4> QED BY <4>1
        <3>3. CASE \E j \in Threads : TurnEnds(j) \/ Panics(j)
            <4>1. PICK j \in Threads : turn' = [turn EXCEPT ![j] = NoTurn]
                BY <3>3 DEF TurnEnds, Panics, Returns
            <4>2. NoTurn.kind = "None"
                BY DEF NoTurn, Turn
            <4> QED BY <4>1, <4>2
        <3> QED BY <3>1, <3>2, <3>3, PeerKeeps
            DEF Next, vars, Dispatch, Sweep, QueueTimers, Elapses, LaneStep, Discards, ReturnsExhausted, OnProblem,
                RefuseBegin, UnservedBegin, Unknown, OnAbort, ExpireNothing, Loses
    <2> QED BY <2>1, <2>3, <2>4, <2>5, <2>6
<1>7. \A l \in Lanes : \A i \in DOMAIN lanes'[l] : WorkPlaced(g, l, lanes[l][i])'
    BY <1>5
<1>8. \A l \in Threads : TurnPlaced(g, l, turn[l])'
    BY <1>6
<1> QED BY <1>7, <1>8 DEF Places

----------------------------------------------------------------------------
(* What this node has of its dialogues after a step.                       *)

\* Nothing of a dialogue's standing changes.
LEMMA HeldSame ==
    ASSUME SameDialogues, turn' = turn
    PROVE  /\ \A u : (Alive(u)' <=> Alive(u)) /\ (Ending(u)' <=> Ending(u))
           /\ \A u, p : Known(u, p)' <=> Known(u, p)
           /\ \A p : Awaited(p)' <=> Awaited(p)
<1>1. DOMAIN store' = DOMAIN store /\ \A u \in DOMAIN store : store'[u].dlg.peer = store[u].dlg.peer
    BY DEF SameDialogues, Alike
<1> QED BY <1>1 DEF Alive, InTurn, Ending, Known, Runs, Awaited

\* The turn k begins on l, with the dialogue t from the store or a new one.
Begun(l, k, t) ==
    /\ l \in Threads /\ turn[l].kind = "None" /\ k.kind # "None"
    /\ turn' = [turn EXCEPT ![l] = k] /\ k.dlg.our = t
    /\ DOMAIN store' = DOMAIN store \ {t} /\ \A u \in DOMAIN store' : store'[u] = store[u]
    /\ t \in DOMAIN store => store[t].dlg.peer \in {k.dlg.peer, NoPeer}

\* The dialogue is the node's during the turn, with the peer the turn names.
LEMMA HeldBegins ==
    ASSUME Types, NEW l, NEW k, NEW t, Begun(l, k, t)
    PROVE  /\ \A u : (Alive(u)' <=> Alive(u) \/ u = t) /\ (Ending(u) => Ending(u)')
           /\ \A u : \A p \in Peers : Known(u, p)' <=> Known(u, p) \/ (u = t /\ p = k.dlg.peer)
           /\ \A p : Awaited(p) => Awaited(p)'
           /\ k.kind = "End" => Ending(t)'
           /\ k.kind = "Begin" => \A p : p = k.dlg.peer => Awaited(p)'
<1>0. NoPeer \notin Peers
    BY LanesAssumption
<1>1. /\ turn'[l] = k /\ l \in Threads /\ turn[l].kind = "None" /\ k.kind # "None" /\ k.dlg.our = t
      /\ \A j \in Threads : j # l => turn'[j] = turn[j]
    BY DEF Types, Begun
<1>2. \A u : InTurn(u)' <=> InTurn(u) \/ u = t
    BY <1>1 DEF InTurn
<1>3. \A u : Alive(u)' <=> Alive(u) \/ u = t
    BY <1>2 DEF Alive, Begun
<1>4. \A u : Ending(u) => Ending(u)'
    BY <1>1 DEF Ending
<1>5. \A p : Awaited(p) => Awaited(p)'
    BY <1>1 DEF Awaited
<1>6. ASSUME NEW u, NEW p \in Peers PROVE Known(u, p)' <=> Known(u, p) \/ (u = t /\ p = k.dlg.peer)
    <2>1. u # t => (u \in DOMAIN store' <=> u \in DOMAIN store)
                   /\ (u \in DOMAIN store => store'[u] = store[u])
        BY DEF Begun
    <2>2. t \notin DOMAIN store' /\ (t \in DOMAIN store /\ store[t].dlg.peer = p => p = k.dlg.peer)
        BY <1>0 DEF Begun
    <2> DEFINE E == \E j \in Threads : Runs(j, u) /\ turn[j].dlg.peer = p
               S == u \in DOMAIN store /\ store[u].dlg.peer = p
    <2>3. E' <=> E \/ (u = t /\ p = k.dlg.peer)
        BY <1>1 DEF Runs
    <2>4. IF u = t THEN ~S' /\ (S => p = k.dlg.peer) ELSE S' <=> S
        BY <2>1, <2>2
    <2>5. (Known(u, p) <=> S \/ E) /\ (Known(u, p)' <=> S' \/ E')
        BY DEF Known
    <2> HIDE DEF E, S
    <2> QED BY <2>3, <2>4, <2>5
<1>7. k.kind = "End" => Ending(t)'
    BY <1>1 DEF Ending
<1>8. k.kind = "Begin" => \A p : p = k.dlg.peer => Awaited(p)'
    BY <1>1 DEF Awaited
<1> QED BY <1>3, <1>4, <1>5, <1>6, <1>7, <1>8

\* A stored dialogue is closed.
LEMMA HeldDropped ==
    ASSUME turn' = turn, NEW t, store' = Removed(t)
    PROVE  /\ \A u : (Alive(u)' => Alive(u)) /\ (Ending(u)' <=> Ending(u)) /\ (u # t => (Alive(u)' <=> Alive(u)))
           /\ \A u, p : (Known(u, p)' => Known(u, p)) /\ (u # t => (Known(u, p)' <=> Known(u, p)))
           /\ \A p : Awaited(p)' <=> Awaited(p)
           /\ OwnedInv /\ t \in DOMAIN store => ~Alive(t)'
<1>1. DOMAIN store' = DOMAIN store \ {t} /\ \A u \in DOMAIN store' : store'[u] = store[u]
    BY DEF Removed
<1>2. \A u : InTurn(u)' <=> InTurn(u)
    BY DEF InTurn
<1>3. OwnedInv /\ t \in DOMAIN store => ~InTurn(t)
    BY DEF OwnedInv, Runs, InTurn
<1> QED BY <1>1, <1>2, <1>3 DEF Alive, Ending, Known, Runs, Awaited

\* A turn ends.
LEMMA HeldEnds ==
    ASSUME Types, OwnedInv, NEW l \in Threads, NEW t, Runs(l, t), turn' = [turn EXCEPT ![l] = NoTurn],
           DOMAIN store' \ {t} = DOMAIN store \ {t}, \A u \in DOMAIN store \ {t} : store'[u] = store[u]
    PROVE  /\ \A u : u # t => (Alive(u)' <=> Alive(u)) /\ (Ending(u) => Ending(u)')
           /\ \A u, p : u # t => (Known(u, p)' <=> Known(u, p))
           /\ \A p : Awaited(p) => Awaited(p)' \/ (turn[l].kind = "Begin" /\ turn[l].dlg.peer = p)
           /\ Alive(t) /\ (Alive(t)' <=> t \in DOMAIN store')
           /\ \A p : /\ Known(t, p) <=> turn[l].dlg.peer = p
                     /\ Known(t, p)' <=> t \in DOMAIN store' /\ store'[t].dlg.peer = p
<1>1. turn'[l].kind = "None" /\ \A j \in Threads : j # l => turn'[j] = turn[j]
    BY DEF Types, NoTurn, Turn
<1>2. t \notin DOMAIN store /\ \A j \in Threads : Runs(j, t) => j = l
    BY DEF OwnedInv
<1>3. \A j \in Threads : \A u : Runs(j, u)' <=> Runs(j, u) /\ j # l
    BY <1>1 DEF Runs
<1>4. \A u : u # t => ~Runs(l, u)
    BY DEF Runs
<1>5. \A u : Alive(u) <=> u \in DOMAIN store \/ \E j \in Threads : Runs(j, u)
    BY DEF Alive, InTurn, Runs
<1>6. \A u : Alive(u)' <=> u \in DOMAIN store' \/ \E j \in Threads : Runs(j, u)'
    BY DEF Alive, InTurn, Runs
<1>7. \A u : u # t => (Alive(u)' <=> Alive(u))
    BY <1>3, <1>4, <1>5, <1>6
<1>8. Alive(t) /\ (Alive(t)' <=> t \in DOMAIN store')
    BY <1>2, <1>3, <1>5, <1>6
<1>9. \A u : u # t => (Ending(u) => Ending(u)')
    BY <1>1 DEF Ending, Runs
<1>10. \A p : Awaited(p) => Awaited(p)' \/ (turn[l].kind = "Begin" /\ turn[l].dlg.peer = p)
    BY <1>1 DEF Awaited
<1>11. \A u, p : u # t => (Known(u, p)' <=> Known(u, p))
    BY <1>1, <1>3, <1>4 DEF Known
<1>12. \A p : /\ Known(t, p) <=> turn[l].dlg.peer = p
              /\ Known(t, p)' <=> t \in DOMAIN store' /\ store'[t].dlg.peer = p
    BY <1>2, <1>3 DEF Known
<1> QED BY <1>7, <1>8, <1>9, <1>10, <1>11, <1>12

----------------------------------------------------------------------------
(* Every step leaves the two ends in agreement.                            *)

\* What the agreement rests on.
BaseInv == Types /\ ShapeInv /\ MailInv /\ OwnedInv /\ OnceInv /\ BoundInv

\* The step fits the dialogues to the peer's transactions as f did, or g now does.
Carries(f, g) ==
    /\ g = f \/ \E t, p : Joins(f, g, t, p)
    /\ \A p \in Peers : peers'[p] = peers[p] \/ PeerFits(g, p)'
    /\ \A m \in OnWire' : m \in OnWire \/ WireFits(g, m)'
    /\ \A m \in OnWire' : m.type = "Begin" => m \in OnWire \/ \A x \in UnderWay' : x.dtid # m.otid
    /\ \A m \in UnderWay' : m \in UnderWay \/ MailFits(g, m)'
    /\ \A t \in Nat, p \in Peers : Known(t, p)' => Known(t, p) \/ g[t] = p
    /\ \A l \in Threads : turn'[l] = turn[l] \/ TurnMatches(g, l)'
    /\ \A p \in Peers \ hurt' : Untouched(f, g, p) \/ Ends(g, p)'

\* A step that carries the agreement over keeps it.
LEMMA AgreeStays ==
    ASSUME BaseInv, [Next]_vars, NEW f, Agree(f), NEW g, Carries(f, g)
    PROVE  Agree(g)'
<1>1. Types /\ ShapeInv /\ MailInv /\ Matches(f) /\ Places(f) /\ NoPeer \notin Peers /\ f \in Maps
    BY LanesAssumption DEF BaseInv, Agree, Matches
<1>2. Matches(g)'
    BY <1>1, FitsStay DEF Carries
<1>3. Places(g)'
    <2>1. \A u \in Nat : f[u] \in Peers => g[u] = f[u]
        BY <1>1 DEF Carries, Joins, Maps
    <2> QED BY <1>1, <2>1, NextPlaces
<1>4. ASSUME NEW p \in Peers \ hurt' PROVE Ends(g, p)'
    <2>1. Ends(f, p)
        BY <1>1, PeersAge DEF Agree
    <2> QED BY <1>1, <2>1, EndsStay DEF Carries
<1> QED BY <1>2, <1>3, <1>4 DEF Agree

\* Nothing is said, heard, begun or ended.
LEMMA CarriesQuiet ==
    ASSUME NEW f, UnderWay' = UnderWay, UNCHANGED <<wire, peers, turn>>, SameDialogues
    PROVE  Carries(f, f)
<1>1. OnWire' = OnWire
    BY DEF OnWire
<1>2. /\ \A u : (Alive(u)' <=> Alive(u)) /\ (Ending(u)' <=> Ending(u))
      /\ \A u, p : Known(u, p)' <=> Known(u, p)
      /\ \A p : Awaited(p)' <=> Awaited(p)
    BY HeldSame
<1>3. \A p \in Peers : Untouched(f, f, p)
    BY <1>1, <1>2 DEF Untouched
<1> QED BY <1>1, <1>2, <1>3 DEF Carries

\* The dispatcher, the sweep and time.
LEMMA AgreeElsewhere ==
    ASSUME BaseInv, NEW f, Agree(f),
           \/ Dispatch \/ Sweep \/ UNCHANGED vars
           \/ \E t \in Tids : QueueTimers(t) \/ Elapses(t)
    PROVE  Agree(f)'
<1>0. Types /\ [Next]_vars
    BY DEF BaseInv, Next
<1>1. UNCHANGED <<wire, peers, turn>>
    BY DEF Dispatch, Sweep, QueueTimers, Elapses, vars
<1>2. UnderWay' = UnderWay
    <2>1. CASE Sweep \/ UNCHANGED vars \/ \E t \in Tids : Elapses(t)
        BY <2>1, MailSame DEF Sweep, vars, Elapses
    <2> QED BY <1>0, <2>1, MailQueued, TimersQueued
<1>3. SameDialogues
    <2>1. \/ store' = store \/ Claims
          \/ \E t : store' = Released(t)
          \/ \E t : IdleElapses(t)
          \/ \E t, i : InvokeElapses(t, i)
        BY DEF Dispatch, Sweep, QueueTimers, Elapses, vars
    <2> QED BY <1>0, <2>1, StoreKept
<1> QED BY <1>0, <1>1, <1>2, <1>3, CarriesQuiet, AgreeStays

\* A lane that finds no timer due, and one that finds some.
LEMMA AgreeTimers ==
    ASSUME BaseInv, NEW f, Agree(f), NEW l \in Lanes, NEW t \in Tids, ExpireNothing(l, t) \/ Expire(l, t)
    PROVE  Agree(f)'
<1>0. Types /\ ShapeInv /\ [Next]_vars /\ Matches(f)
    BY DEF BaseInv, Next, LaneStep, Agree
<1>1. Takes(l) /\ UNCHANGED <<local, wire, peers, hurt>> /\ Work(l).do = "Timers"
    BY DEF ExpireNothing, Expire, IsTimers
<1>2. UnderWay' = UnderWay /\ OnWire' = OnWire
    BY <1>0, <1>1, MailTaken DEF OnWire
<1>3. CASE ExpireNothing(l, t)
    <2>1. turn' = turn /\ store' = Released(t)
        BY <1>3 DEF ExpireNothing
    <2>2. SameDialogues
        BY <1>0, <2>1, StoreKept
    <2> QED BY <1>0, <1>1, <1>2, <2>1, <2>2, CarriesQuiet, AgreeStays
<1>4. CASE Expire(l, t)
    <2>1. PICK k \in Turns : /\ turn' = [turn EXCEPT ![l] = k] /\ k.kind = "Timer" /\ k.dlg.our = t
                             /\ k.dlg.peer = store[t].dlg.peer
        BY <1>0, <1>4, TurnOfTimers
    <2>2. l \in Threads /\ t \in DOMAIN store /\ store' = Removed(t) /\ turn[l].kind = "None"
        BY <1>0, <1>1, <1>4, TurnOfTimers DEF Takes
    <2>3. Begun(l, k, t)
        BY <2>1, <2>2 DEF Removed, Begun
    <2>4. /\ \A u : (Alive(u)' <=> Alive(u) \/ u = t) /\ (Ending(u) => Ending(u)')
          /\ \A u : \A p \in Peers : Known(u, p)' <=> Known(u, p) \/ (u = t /\ p = k.dlg.peer)
          /\ \A p : Awaited(p) => Awaited(p)'
        BY <1>0, <2>3, HeldBegins
    <2>5. Alive(t) /\ \A p \in Peers : p = k.dlg.peer => Known(t, p)
        BY <2>1, <2>2 DEF Alive, Known
    <2>6. \A p \in Peers : Untouched(f, f, p)
        BY <1>1, <1>2, <2>4, <2>5 DEF Untouched
    <2>7. \A j \in Threads : turn'[j] = turn[j] \/ TurnMatches(f, j)'
        BY <1>0, <2>1 DEF Types, TurnMatches
    <2>8. Carries(f, f)
        BY <1>1, <1>2, <2>4, <2>5, <2>6, <2>7 DEF Carries
    <2> QED BY <1>0, <2>8, AgreeStays
<1> QED BY <1>3, <1>4

\* The dialogues of the peers that are unhurt are where they were.
HeldFor(f) ==
    /\ \A u \in Nat, q \in Peers : Known(u, q)' => Known(u, q)
    /\ \A q \in Peers \ hurt : Awaited(q) => Awaited(q)'
    /\ \A q \in Peers \ hurt : \A u \in Nat : f[u] = q => /\ Known(u, q) => Known(u, q)'
                                                          /\ Alive(u)' => Alive(u)
                                                          /\ Ending(u) => Ending(u)'

\* Only a dialogue of a hurt transaction may be dropped unseen.
LEMMA HeldForAll ==
    ASSUME Types, NEW f, turn' = turn,
           SameDialogues \/ \E t : store' = Removed(t) /\ (t \notin DOMAIN store \/ f[t] \notin Peers \ hurt)
    PROVE  HeldFor(f)
<1>1. CASE SameDialogues
    BY <1>1, HeldSame DEF HeldFor
<1>2. ASSUME NEW t, store' = Removed(t), t \notin DOMAIN store \/ f[t] \notin Peers \ hurt PROVE HeldFor(f)
    <2>1. CASE t \notin DOMAIN store
        <3>1. DOMAIN store' = DOMAIN store /\ \A u \in DOMAIN store : store'[u] = store[u]
            BY <1>2, <2>1 DEF Removed
        <3>2. SameDialogues
            BY <3>1 DEF SameDialogues, Alike
        <3> QED BY <3>2, HeldSame DEF HeldFor
    <2>2. CASE f[t] \notin Peers \ hurt
        <3>1. \A u : (Alive(u)' => Alive(u)) /\ (Ending(u)' <=> Ending(u))
            BY <1>2, HeldDropped
        <3>2. \A u, q : (Known(u, q)' => Known(u, q)) /\ (u # t => (Known(u, q)' <=> Known(u, q)))
            BY <1>2, HeldDropped
        <3>3. \A q : Awaited(q)' <=> Awaited(q)
            BY <1>2, HeldDropped
        <3>4. \A u \in Nat, q \in Peers \ hurt : f[u] = q => u # t
            BY <2>2
        <3> QED BY <3>1, <3>2, <3>3, <3>4 DEF HeldFor
    <2> QED BY <1>2, <2>1, <2>2
<1> QED BY <1>1, <1>2

\* A lane takes a message.
Delivers(l, m) ==
    /\ l \in Lanes /\ Takes(l) /\ local' = local /\ Work(l).do = "Deliver" /\ m = Work(l).m
    /\ peers' = peers /\ hurt' = hurt

\* The message was under way, fits, and is gone from there.
LEMMA DeliversMail ==
    ASSUME BaseInv, NEW f, Agree(f), NEW l, NEW m, Delivers(l, m)
    PROVE  /\ m \in UnderWay /\ m \in InboundMessages /\ MailFor(m) /\ MailFits(f, m)
           /\ UnderWay' \subseteq UnderWay /\ \A x \in UnderWay : x # m => x \in UnderWay'
           /\ \A p \in Peers : IsFirst(m, p) => \A x \in UnderWay' : ~IsFirst(x, p)
<1>1. Types /\ MailInv /\ OnceInv /\ l \in Lanes /\ Takes(l) /\ local' = local /\ Work(l).do = "Deliver"
      /\ m = Work(l).m
    BY DEF BaseInv, Delivers
<1>2. m \in UnderWay /\ UnderWay' \subseteq UnderWay /\ \A x \in UnderWay : x # m => x \in UnderWay'
    BY <1>1, MailTaken
<1>3. m \in InboundMessages /\ MailFor(m) /\ MailFits(f, m)
    BY <1>1, <1>2, UnderWayType DEF MailInv, Agree, Matches
<1>4. \A p \in Peers : IsFirst(m, p) => \A x \in UnderWay' : ~IsFirst(x, p)
    BY <1>1, FirstTaken
<1> QED BY <1>2, <1>3, <1>4

\* It is left without an answer.
LEMMA CarriesUnanswered ==
    ASSUME BaseInv, NEW f, Agree(f), NEW l, NEW m, Delivers(l, m), wire' = wire, turn' = turn, HeldFor(f),
           \A p \in Peers \ hurt : FirstBegin(m, p) \/ Later(f, m, p) => Ends(f, p)'
    PROVE  Carries(f, f)
<1>1. /\ UnderWay' \subseteq UnderWay /\ \A x \in UnderWay : x # m => x \in UnderWay'
      /\ OnWire' = OnWire /\ peers' = peers /\ hurt' = hurt
    BY DeliversMail DEF Delivers, OnWire
<1>2. ASSUME NEW p \in Peers \ hurt, ~(FirstBegin(m, p) \/ Later(f, m, p)) PROVE Untouched(f, f, p)
    BY <1>1, <1>2 DEF Untouched, HeldFor
<1> QED BY <1>1, <1>2 DEF Carries, HeldFor

\* deliver: what is no message of a dialogue is left alone.
LEMMA AgreeDiscards ==
    ASSUME BaseInv, NEW f, Agree(f), NEW l \in Lanes, Discards(l)
    PROVE  Agree(f)'
<1>0. Types /\ [Next]_vars /\ f \in Maps /\ NoPeer \notin Peers
    BY LanesAssumption DEF BaseInv, Next, LaneStep, Agree, Matches
<1>1. PICK m : m = Work(l).m
    OBVIOUS
<1>2. Delivers(l, m) /\ wire' = wire /\ turn' = turn /\ store' = store
      /\ (m.form = "Segment" \/ m.fault = "Unreadable" \/ m.type = "Unidirectional")
    BY <1>1 DEF Delivers, Discards, Understood
<1>3. MailFor(m) /\ MailFits(f, m)
    BY <1>2, DeliversMail
<1>4. SameDialogues
    BY <1>0, <1>2, StoreKept
<1>5. HeldFor(f)
    BY <1>0, <1>2, <1>4, HeldForAll
<1>6. ASSUME NEW p \in Peers \ hurt PROVE ~(FirstBegin(m, p) \/ Later(f, m, p))
    <2>1. ~FirstBegin(m, p)
        BY <1>2, <1>3 DEF FirstBegin, IsFirst, MailFits, Unread
    <2>2. ~Later(f, m, p)
        BY <1>2, <1>3 DEF Later, MailFor, MailFits, Harmed
    <2> QED BY <2>1, <2>2
<1>7. Carries(f, f)
    BY <1>2, <1>5, <1>6, CarriesUnanswered
<1> QED BY <1>0, <1>7, AgreeStays

\* The transaction p is told that it is over.
Tells(a, p) == a \in Messages /\ p \in Peers /\ Closes(a, p) /\ OnWire' = OnWire \cup {a}

\* The message is on the wire.
LEMMA ToldCloses == ASSUME NEW a, NEW p, Tells(a, p) PROVE Closing(p)'
BY DEF Tells, Closing

\* A lane that answers without a handler does just that.
LEMMA AnswerSent ==
    ASSUME BaseInv, NEW l \in Lanes, LaneStep(l), wire' # wire, NEW m, m = Work(l).m
    PROVE  \E a : Tells(a, m.otid) /\ (a.otid = 0 \/ (UnservedBegin(l) /\ a.otid = counter + 1))
<1>1. Types /\ MailInv
    BY DEF BaseInv
<1>2. /\ m.otid \in Peers
      /\ \E a \in Messages : /\ Closes(a, m.otid) /\ Sends(<<a>>)
                             /\ a.otid = 0 \/ (UnservedBegin(l) /\ a.otid = counter + 1)
    BY <1>1, LaneSends
<1>3. PICK a \in Messages : /\ Closes(a, m.otid) /\ Sends(<<a>>)
                            /\ a.otid = 0 \/ (UnservedBegin(l) /\ a.otid = counter + 1)
    BY <1>2
<1>4. PICK out : out = <<a>>
    OBVIOUS
<1>5. out \in Seq(Messages) /\ {out[i] : i \in DOMAIN out} = {a}
    BY <1>4
<1>6. OnWire' = OnWire \cup {a}
    BY <1>1, <1>3, <1>4, <1>5, WireGrows
<1> QED BY <1>2, <1>3, <1>6 DEF Tells

\* What is sent is on the wire.
LEMMA SentIsNew ==
    ASSUME Types, NEW x, Sends(<<x>>)
    PROVE  wire' # wire
<1>1. wire \in Seq(Messages) /\ wire' = wire \o <<x>>
    BY DEF Types, Sends
<1>2. Len(wire') = Len(wire) + 1
    BY <1>1
<1> QED BY <1>1, <1>2

\* What a transaction of this node that is gone, and was known to the peer, is no more.
LEMMA NotAlive ==
    ASSUME BaseInv, NEW f, Agree(f), NEW l, NEW m, Delivers(l, m), NEW t, t = m.dtid, t # 0,
           t \notin DOMAIN store, ~Harmed(f, t)
    PROVE  ~Alive(t)
<1>1. Types /\ Places(f) /\ l \in Lanes /\ Takes(l) /\ Work(l).do = "Deliver" /\ m = Work(l).m
    BY DEF BaseInv, Agree, Delivers
<1>2. l = LaneOfTid[t]
    <2>1. lanes[l] \in Seq(Tasks) /\ lanes[l] # <<>>
        BY <1>1 DEF Types, Takes
    <2>2. 1 \in DOMAIN lanes[l] /\ lanes[l][1] = Work(l)
        BY <2>1 DEF Work
    <2>3. WorkPlaced(f, l, Work(l))
        BY <1>1, <2>2 DEF Places
    <2> QED BY <1>1, <2>3 DEF WorkPlaced
<1>3. turn[l].kind = "None"
    BY <1>1 DEF Takes
<1>4. t \notin Young
    BY DeliversMail DEF BaseInv, BoundInv, Given
<1>5. ASSUME NEW j \in Threads, turn[j].kind # "None", turn[j].dlg.our = t PROVE FALSE
    <2>1. turn[j].kind \notin {"Begin", "Start"}
        BY <1>4, <1>5 DEF Young
    <2>2. turn[j].kind \in {"Continue", "End", "Timer"}
        BY <1>1, <1>5, <2>1 DEF Types, Turns
    <2>3. j = l
        BY <1>1, <1>2, <1>5, <2>2 DEF Places, TurnPlaced
    <2> QED BY <1>3, <1>5, <2>3
<1> QED BY <1>5 DEF Alive, InTurn

\* One that is told so, and that nothing here belongs to any more.
LEMMA ToldEnds ==
    ASSUME Types, NEW f, Agree(f), NEW g, NEW p \in Peers, Closing(p)', peers' = peers,
           \A u \in Nat : f[u] = p => g[u] = p,
           \A u \in Nat : g[u] = p => ~Alive(u)',
           \A x \in UnderWay' : ~IsFirst(x, p)
    PROVE  Ends(g, p)'
<1>1. Closing(p)' /\ \E a \in OnWire' : a.dtid = p
    BY DEF Closing, Closes
<1>2. peers[p].ours # 0 => ~Alive(peers[p].ours)'
    <2>1. PICK t : t = peers[p].ours
        OBVIOUS
    <2>2. t \in Nat /\ (t # 0 => f[t] = p)
        BY <2>1 DEF Agree, Matches, PeerFits, Types, PeerRecords
    <2>3. t # 0 => ~Alive(t)'
        BY <2>2
    <2>4. t = peers'[p].ours
        BY <2>1
    <2> QED BY <2>1, <2>3, <2>4
<1>3. AnswerComes(p)' /\ AnswerIsMeant(p)' /\ OpenIsServed(p)'
    BY <1>1 DEF AnswerComes, AnswerIsMeant, OpenIsServed
<1>4. ClosedIsGone(g, p)' /\ NewIsUnknown(g, p)'
    BY DEF ClosedIsGone, NewIsUnknown
<1>5. OverIsLeft(p)'
    <2>1. PICK t : t = peers[p].ours
        OBVIOUS
    <2>2. t = peers'[p].ours /\ (t # 0 => ~Alive(t)')
        BY <1>2, <2>1
    <2> QED BY <2>2 DEF OverIsLeft
<1> QED BY <1>3, <1>4, <1>5 DEF Ends

\* One that is over and that nothing here belongs to any more.
LEMMA OverEnds ==
    ASSUME Types, NEW f, Agree(f), NEW p \in Peers \ hurt, peers'[p] = peers[p], peers[p].state = "Over",
           NEW t \in Nat, f[t] = p, ~Alive(t)', UnderWay' \subseteq UnderWay
    PROVE  Ends(f, p)'
<1>1. /\ \A u \in Nat : f[u] = p => u = t
      /\ PeerFits(f, p) /\ Ends(f, p) /\ peers[p].ours \in Nat
    BY DEF Agree, Matches, Single, Types, PeerRecords
<1>2. AnswerComes(p)' /\ AnswerIsMeant(p)' /\ OpenIsServed(p)'
    BY DEF AnswerComes, AnswerIsMeant, OpenIsServed
<1>3. ClosedIsGone(f, p)'
    BY <1>1 DEF ClosedIsGone
<1>4. NewIsUnknown(f, p)'
    BY <1>1 DEF Ends, NewIsUnknown
<1>5. OverIsLeft(p)'
    <2>1. peers[p].ours = 0 \/ peers[p].ours = t
        BY <1>1 DEF PeerFits
    <2>2. peers'[p].ours = 0 \/ peers'[p].ours = t
        BY <2>1
    <2> QED BY <2>2 DEF OverIsLeft
<1> QED BY <1>2, <1>3, <1>4, <1>5 DEF Ends

\* A lane answers a message, and that is all.
LEMMA CarriesAnswered ==
    ASSUME BaseInv, NEW f, Agree(f), NEW l, NEW m, Delivers(l, m), turn' = turn, HeldFor(f),
           NEW p, p = m.otid, NEW a, Tells(a, p),
           NEW g, g = f \/ \E t : Joins(f, g, t, p), a.otid # 0 => g[a.otid] = p,
           p \notin hurt => Ends(g, p)',
           \A q \in Peers \ hurt : q # p => ~Later(f, m, q)
    PROVE  Carries(f, g)
<1>0. NoPeer \notin Peers /\ f \in Maps /\ peers' = peers /\ hurt' = hurt /\ p \in Peers
    BY LanesAssumption DEF Agree, Matches, Delivers, Tells
<1>1. /\ UnderWay' \subseteq UnderWay /\ \A x \in UnderWay : x # m => x \in UnderWay' /\ m \in UnderWay
    BY DeliversMail
<1>2. WireFits(g, a)'
    <2>1. peers[p].state # "Idle"
        BY <1>0, DeliversMail DEF BaseInv, OnceInv
    <2> QED BY <1>0, <2>1 DEF WireFits, Tells, Closes
<1>3. \A q \in Peers : q # p => \A u \in Nat : g[u] = q <=> f[u] = q
    BY <1>0 DEF Joins, Maps
<1>4. ASSUME NEW q \in Peers \ hurt, q # p PROVE Untouched(f, g, q)
    <2>1. ~(FirstBegin(m, q) \/ Later(f, m, q))
        BY <1>4 DEF FirstBegin, IsFirst
    <2>2. \A x \in OnWire' : x.dtid = q => x \in OnWire
        BY <1>4 DEF Tells, Closes
    <2> QED BY <1>0, <1>1, <1>3, <1>4, <2>1, <2>2 DEF Untouched, HeldFor, Tells
<1>5. \A x \in OnWire' : x \in OnWire \/ (WireFits(g, x)' /\ x.type # "Begin")
    BY <1>2 DEF Tells, Closes
<1> QED BY <1>0, <1>1, <1>4, <1>5 DEF Carries, HeldFor

\* A first message belongs to no transaction of this node yet.
LEMMA FirstIsNew ==
    ASSUME BaseInv, NEW f, Agree(f), NEW l, NEW m, Delivers(l, m), NEW p \in Peers \ hurt, IsFirst(m, p)
    PROVE  (\A u \in Nat : f[u] # p) /\ \A x \in UnderWay' : ~IsFirst(x, p)
<1>1. m \in UnderWay /\ \A x \in UnderWay' : ~IsFirst(x, p)
    BY DeliversMail
<1>2. NewIsUnknown(f, p)
    BY DEF Agree, Ends
<1> QED BY <1>1, <1>2 DEF NewIsUnknown

\* hop_counter_violation, and on_begin that refuses: a first message is answered, unless it
\* did not ask for that, and a later one is of a transaction that is hurt.
LEMMA AgreeRefuses ==
    ASSUME BaseInv, NEW f, Agree(f), NEW l \in Lanes, ReturnsExhausted(l) \/ RefuseBegin(l)
    PROVE  Agree(f)'
<1>0. Types /\ [Next]_vars /\ LaneStep(l)
    BY DEF BaseInv, Next, LaneStep
<1>1. PICK m : m = Work(l).m
    OBVIOUS
<1>2. Delivers(l, m) /\ turn' = turn /\ store' = store
      /\ (m.form \in {"Exhausted", "Returnable"} \/ m.type = "Begin")
    BY <1>1 DEF Delivers, ReturnsExhausted, RefuseBegin, UnservedBegin, Understood
<1>3. ~UnservedBegin(l) /\ (RefuseBegin(l) => m.form = "Unitdata" /\ m.type = "Begin")
    BY <1>1 DEF ReturnsExhausted, RefuseBegin, UnservedBegin, Understood
<1>4. MailFor(m) /\ MailFits(f, m) /\ m \in InboundMessages
    BY <1>2, DeliversMail
<1>5. HeldFor(f)
    <2>1. SameDialogues
        BY <1>0, <1>2, StoreKept
    <2> QED BY <1>0, <1>2, <2>1, HeldForAll
<1>6. \A q \in Peers \ hurt : ~Later(f, m, q)
    BY <1>2, <1>4 DEF Later, MailFor, MailFits, Harmed
<1>7. CASE wire' = wire
    <2>1. CASE RefuseBegin(l)
        <3>1. \E x : Sends(<<x>>)
            BY <2>1 DEF RefuseBegin
        <3> QED BY <1>0, <1>7, <3>1, SentIsNew
    <2>2. CASE ReturnsExhausted(l)
        <3>1. m.form \in {"Exhausted", "Returnable"} /\ Sends(ReturnOf(m))
            BY <1>1, <2>2 DEF ReturnsExhausted
        <3>2. ~(m.form = "Returnable" /\ m.otid # NoPeer)
            <4>1. SUFFICES ASSUME m.form = "Returnable", m.otid # NoPeer PROVE FALSE
                OBVIOUS
            <4>2. \E x : Sends(<<x>>)
                BY <3>1, <4>1 DEF ReturnOf
            <4> QED BY <1>0, <1>7, <4>2, SentIsNew
        <3>3. ASSUME NEW p \in Peers \ hurt PROVE ~FirstBegin(m, p)
            BY <1>4, <3>1, <3>2, LanesAssumption DEF FirstBegin, IsFirst, MailFits, Unread
        <3>4. Carries(f, f)
            BY <1>2, <1>5, <1>6, <1>7, <3>3, CarriesUnanswered
        <3> QED BY <1>0, <3>4, AgreeStays
    <2> QED BY <2>1, <2>2
<1>8. CASE wire' # wire
    <2>1. PICK p : p = m.otid
        OBVIOUS
    <2>2. PICK a : Tells(a, p) /\ a.otid = 0
        BY <1>0, <1>1, <1>3, <1>8, <2>1, AnswerSent
    <2>3. ASSUME p \notin hurt PROVE Ends(f, p)'
        <3>1. m.dtid = 0
            <4>1. SUFFICES ASSUME m.dtid # 0 PROVE FALSE
                OBVIOUS
            <4>2. m.type = "Continue" /\ m.form # "Unitdata"
                BY <1>2, <1>4, <2>1, <2>2, <4>1, LanesAssumption DEF MailFor, Tells
            <4> QED BY <1>4, <2>1, <2>3, <4>1, <4>2 DEF MailFits, Harmed
        <3>2. p \in Peers /\ IsFirst(m, p)
            BY <2>1, <2>2, <3>1 DEF Tells, IsFirst
        <3>3. (\A u \in Nat : f[u] # p) /\ \A x \in UnderWay' : ~IsFirst(x, p)
            BY <1>2, <2>3, <3>2, FirstIsNew
        <3> QED BY <1>0, <1>2, <2>2, <3>2, <3>3, ToldCloses, ToldEnds DEF Delivers
    <2>4. Carries(f, f)
        BY <1>2, <1>5, <1>6, <2>1, <2>2, <2>3, CarriesAnswered
    <2> QED BY <1>0, <2>4, AgreeStays
<1> QED BY <1>7, <1>8

\* The dialogue of a Begin takes the next transaction of this node.
TakesNext(f, g, m, p, t) ==
    /\ g = [f EXCEPT ![t] = p] /\ p \in Peers /\ IsFirst(m, p) /\ t = counter + 1 /\ counter' = counter + 1
    /\ \A x \in OnWire' : x \in OnWire \/ x.type # "Begin"

\* No transaction of the peer had that id, nor any message.
LEMMA NextIdJoins ==
    ASSUME BaseInv, NEW f, Agree(f), NEW l, NEW m, Delivers(l, m), NEW p, NEW t, NEW g, TakesNext(f, g, m, p, t)
    PROVE  /\ Joins(f, g, t, p) /\ t > counter /\ ~Alive(t) /\ t \notin DOMAIN store
           /\ \A u \in Nat : g[u] = IF u = t THEN p ELSE f[u]
<1>0. Types /\ f \in Maps /\ NoPeer \notin Peers /\ peers' = peers /\ hurt' = hurt /\ p \in Peers /\ IsFirst(m, p)
      /\ t = counter + 1 /\ counter' = counter + 1 /\ g = [f EXCEPT ![t] = p]
    BY LanesAssumption DEF BaseInv, Agree, Matches, Delivers, TakesNext
<1>1. t \in Nat \ {0} /\ t > counter /\ counter \in Nat
    BY <1>0 DEF Types
<1>2. p \notin hurt => \A u \in Nat : f[u] # p
    BY <1>0, FirstIsNew
<1>3. f[t] = NoPeer
    BY <1>1 DEF Agree, Matches, Pairs
<1>4. \A x \in UnderWay : x.dtid # t
    BY <1>1 DEF BaseInv, BoundInv, Given
<1>5. \A x \in OnWire' : ~(x.type = "Begin" /\ x.otid = t)
    BY <1>1 DEF TakesNext, BaseInv, BoundInv, Given
<1>6. \A j \in Threads : turn[j].kind = "Start" => turn[j].dlg.our # t
    BY <1>1 DEF BaseInv, OwnedInv, Runs
<1>7. peers[p].state # "Idle"
    BY <1>0, DeliversMail DEF IsFirst, BaseInv, OnceInv
<1>8. Joins(f, g, t, p)
    BY <1>0, <1>1, <1>2, <1>3, <1>4, <1>5, <1>6, <1>7 DEF Joins
<1>9. ~Alive(t)
    BY <1>1 DEF BaseInv, OwnedInv, Runs, Alive, InTurn
<1>10. \A u \in Nat : g[u] = IF u = t THEN p ELSE f[u]
    BY <1>0, <1>1 DEF Maps
<1> QED BY <1>1, <1>8, <1>9, <1>10 DEF Alive

\* A Begin that nobody takes is answered under a transaction that is over at once.
LEMMA AgreeUnserved ==
    ASSUME BaseInv, NEW f, Agree(f), NEW l \in Lanes, UnservedBegin(l)
    PROVE  \E g : Agree(g)'
<1>0. Types /\ [Next]_vars /\ LaneStep(l) /\ MailInv /\ f \in Maps /\ NoPeer \notin Peers
    BY LanesAssumption DEF BaseInv, Next, LaneStep, Agree, Matches
<1>1. PICK m : m = Work(l).m
    OBVIOUS
<1>2. Delivers(l, m) /\ turn' = turn /\ store' = store /\ m.type = "Begin" /\ counter' = counter + 1
    BY <1>1 DEF Delivers, UnservedBegin, Understood
<1>3. PICK p : p = m.otid
    OBVIOUS
<1>4. m.dtid = 0 /\ p \in Peers /\ IsFirst(m, p) /\ m \in InboundMessages /\ peers[p].state # "Idle"
      /\ peers' = peers /\ hurt' = hurt
    BY <1>2, <1>3, DeliversMail DEF MailFor, IsFirst, Delivers, BaseInv, OnceInv
<1>5. wire' # wire
    <2>1. \E x : UnservedAnswer(m) = <<x>>
        BY <1>0, <1>3, <1>4, UnservedSpeaks DEF Types
    <2>2. Sends(UnservedAnswer(m))
        BY <1>1 DEF UnservedBegin
    <2> QED BY <1>0, <2>1, <2>2, SentIsNew
<1>6. PICK t : t = counter + 1
    OBVIOUS
<1>7. PICK a : Tells(a, p) /\ a.otid \in {0, t}
    BY <1>0, <1>1, <1>3, <1>5, <1>6, AnswerSent
<1>8. t \in Nat \ {0} /\ t > counter /\ counter \in Nat
    BY <1>0, <1>6 DEF Types
<1>9. PICK g : g = [f EXCEPT ![t] = p]
    OBVIOUS
<1>10. p \notin hurt => (\A u \in Nat : f[u] # p) /\ \A x \in UnderWay' : ~IsFirst(x, p)
    BY <1>2, <1>4, FirstIsNew
<1>11. /\ Joins(f, g, t, p) /\ ~Alive(t)
       /\ \A u \in Nat : g[u] = IF u = t THEN p ELSE f[u]
    <2>1. TakesNext(f, g, m, p, t)
        BY <1>2, <1>4, <1>6, <1>7, <1>9 DEF Tells, Closes, TakesNext
    <2> QED BY <1>2, <2>1, NextIdJoins
<1>12. \A u \in Nat : g[u] = IF u = t THEN p ELSE f[u]
    BY <1>11
<1>13. SameDialogues
    BY <1>0, <1>2, StoreKept
<1>14. HeldFor(f)
    BY <1>0, <1>2, <1>13, HeldForAll
<1>15. ~Alive(t)'
    BY <1>2, <1>11, <1>13, HeldSame
<1>16. ASSUME p \notin hurt PROVE Ends(g, p)'
    <2>1. \A u \in Nat : g[u] = p => ~Alive(u)'
        BY <1>10, <1>12, <1>15, <1>16
    <2>2. \A u \in Nat : f[u] = p => g[u] = p
        BY <1>12
    <2> QED BY <1>0, <1>4, <1>7, <1>10, <1>16, <2>1, <2>2, ToldCloses, ToldEnds
<1>17. \A q : ~Later(f, m, q)
    BY <1>4 DEF Later
<1>18. a.otid # 0 => g[a.otid] = p
    BY <1>7, <1>8, <1>12
<1>19. Carries(f, g)
    BY <1>2, <1>3, <1>7, <1>11, <1>14, <1>16, <1>17, <1>18, CarriesAnswered
<1> QED BY <1>0, <1>19, AgreeStays

\* on_problem: the transaction of a damaged message is hurt.
LEMMA AgreeProblem ==
    ASSUME BaseInv, NEW f, Agree(f), NEW l \in Lanes, OnProblem(l)
    PROVE  Agree(f)'
<1>0. Types /\ [Next]_vars /\ LaneStep(l)
    BY DEF BaseInv, Next, LaneStep
<1>1. PICK m : m = Work(l).m
    OBVIOUS
<1>2. Delivers(l, m) /\ turn' = turn /\ store' = Removed(m.dtid) /\ ~UnservedBegin(l) /\ m.fault # "None"
    BY <1>1 DEF Delivers, OnProblem, UnservedBegin, Understood
<1>3. m.fault \in {"Transaction", "Dialogue"} /\ MailFor(m) /\ MailFits(f, m)
    BY <1>1, <1>2, DeliversMail DEF OnProblem
<1>4. PICK t : t = m.dtid
    OBVIOUS
<1>5. IF t = 0 THEN m.otid \in hurt ELSE f[t] \in hurt /\ (m.type = "Continue" => f[t] = m.otid)
    BY <1>2, <1>3, <1>4 DEF MailFits, Harmed
<1>6. HeldFor(f)
    <2>1. t = 0 => t \notin DOMAIN store
        BY DEF BaseInv, ShapeInv, StoredFits
    <2> QED BY <1>0, <1>2, <1>4, <1>5, <2>1, HeldForAll
<1>7. \A q \in Peers \ hurt : ~Later(f, m, q)
    BY <1>4, <1>5 DEF Later
<1>8. CASE m.type \in {"Begin", "Continue"}
    <2>1. \E x : Sends(<<x>>)
        BY <1>1, <1>8 DEF OnProblem
    <2>2. wire' # wire
        BY <1>0, <2>1, SentIsNew
    <2>3. PICK p : p = m.otid
        OBVIOUS
    <2>4. PICK a : Tells(a, p) /\ a.otid = 0
        BY <1>0, <1>1, <1>2, <2>2, <2>3, AnswerSent
    <2>5. p \in hurt
        BY <1>3, <1>4, <1>5, <1>8, <2>3 DEF MailFor
    <2>6. Carries(f, f)
        BY <1>2, <1>6, <1>7, <2>3, <2>4, <2>5, CarriesAnswered
    <2> QED BY <1>0, <2>6, AgreeStays
<1>9. CASE m.type \notin {"Begin", "Continue"}
    <2>1. wire' = wire
        <3>1. Sends(<<>>) /\ wire \in Seq(Messages)
            BY <1>0, <1>1, <1>9 DEF OnProblem, Types
        <3> QED BY <3>1 DEF Sends
    <2>2. \A q : ~FirstBegin(m, q)
        BY <1>9 DEF FirstBegin
    <2>3. Carries(f, f)
        BY <1>2, <1>6, <1>7, <2>1, <2>2, CarriesUnanswered
    <2> QED BY <1>0, <2>3, AgreeStays
<1> QED BY <1>8, <1>9

\* on_turn and on_abort of a transaction that this node does not have.
LEMMA AgreeUnknown ==
    ASSUME BaseInv, NEW f, Agree(f), NEW l \in Lanes, Unknown(l)
    PROVE  Agree(f)'
<1>0. Types /\ [Next]_vars /\ LaneStep(l)
    BY DEF BaseInv, Next, LaneStep
<1>1. PICK m : m = Work(l).m
    OBVIOUS
<1>2. Delivers(l, m) /\ turn' = turn /\ store' = store /\ ~UnservedBegin(l) /\ m.dtid \notin DOMAIN store
      /\ m.type \in {"Continue", "End", "Abort"}
    BY <1>1 DEF Delivers, Unknown, UnservedBegin, Understood
<1>3. MailFits(f, m) /\ m \in InboundMessages
    BY <1>2, DeliversMail
<1>4. PICK t : t = m.dtid
    OBVIOUS
<1>5. SameDialogues
    BY <1>0, <1>2, StoreKept
<1>6. HeldFor(f)
    BY <1>0, <1>2, <1>5, HeldForAll
<1>7. ASSUME NEW p \in Peers \ hurt, t # 0, f[t] = p
      PROVE  /\ t \in Nat /\ ~Alive(t)' /\ (\A u \in Nat : f[u] = p => u = t)
             /\ \A x \in UnderWay' : ~IsFirst(x, p)
    <2>1. t \in Nat
        BY <1>3, <1>4 DEF InboundMessages
    <2>2. ~Alive(t)
        BY <1>2, <1>4, <1>7, NotAlive DEF Harmed
    <2>3. ~Alive(t)'
        BY <1>2, <1>5, <2>2, HeldSame
    <2>4. \A u \in Nat : f[u] = p => u = t
        BY <1>7, <2>1 DEF Agree, Matches, Single
    <2>5. \A x \in UnderWay' : ~IsFirst(x, p)
        BY <1>2, <1>7, <2>1, DeliversMail DEF Agree, Ends, NewIsUnknown
    <2> QED BY <2>1, <2>3, <2>4, <2>5
<1>8. CASE m.type = "Continue"
    <2>1. \E x : Sends(<<x>>)
        BY <1>1, <1>8 DEF Unknown
    <2>2. wire' # wire
        BY <1>0, <2>1, SentIsNew
    <2>3. PICK p : p = m.otid
        OBVIOUS
    <2>4. PICK a : Tells(a, p) /\ a.otid = 0
        BY <1>0, <1>1, <1>2, <2>2, <2>3, AnswerSent
    <2>5. p \in Peers /\ (t # 0 => f[t] = p)
        BY <1>3, <1>4, <1>8, <2>3, <2>4 DEF Tells, MailFits
    <2>6. ASSUME p \notin hurt PROVE Ends(f, p)'
        <3>1. (\A u \in Nat : f[u] = p => ~Alive(u)') /\ \A x \in UnderWay' : ~IsFirst(x, p)
            <4>1. CASE t = 0
                BY <1>2, <1>4, <2>3, <2>5, <2>6, <4>1, FirstIsNew DEF IsFirst
            <4>2. CASE t # 0
                BY <1>7, <2>5, <2>6, <4>2
            <4> QED BY <4>1, <4>2
        <3> QED BY <1>0, <1>2, <2>4, <2>5, <3>1, ToldCloses, ToldEnds DEF Delivers
    <2>7. \A q \in Peers \ hurt : q # p => ~Later(f, m, q)
        BY <1>4, <2>5 DEF Later
    <2>8. Carries(f, f)
        BY <1>2, <1>6, <2>3, <2>4, <2>6, <2>7, CarriesAnswered
    <2> QED BY <1>0, <2>8, AgreeStays
<1>9. CASE m.type # "Continue"
    <2>1. wire' = wire
        <3>1. Sends(<<>>) /\ wire \in Seq(Messages)
            BY <1>0, <1>1, <1>9 DEF Unknown, Types
        <3> QED BY <3>1 DEF Sends
    <2>2. ASSUME NEW q \in Peers \ hurt, FirstBegin(m, q) \/ Later(f, m, q) PROVE Ends(f, q)'
        <3>1. t # 0 /\ f[t] = q
            BY <1>2, <1>4, <2>2 DEF FirstBegin, Later
        <3>2. peers[q].state = "Over" /\ peers' = peers /\ UnderWay' \subseteq UnderWay
            BY <1>2, <1>3, <1>4, <1>9, <3>1, LanesAssumption, DeliversMail DEF MailFits, Delivers
        <3> QED BY <1>0, <1>7, <3>1, <3>2, OverEnds
    <2>3. Carries(f, f)
        BY <1>2, <1>6, <2>1, <2>2, CarriesUnanswered
    <2> QED BY <1>0, <2>3, AgreeStays
<1> QED BY <1>8, <1>9

\* on_begin
LEMMA AgreeBegins ==
    ASSUME BaseInv, NEW f, Agree(f), NEW l \in Lanes, OnBegin(l)
    PROVE  \E g : Agree(g)'
<1>0. Types /\ [Next]_vars /\ MailInv /\ f \in Maps /\ NoPeer \notin Peers
    BY LanesAssumption DEF BaseInv, Next, LaneStep, Agree, Matches
<1>1. PICK m : m = Work(l).m
    OBVIOUS
<1>2. Delivers(l, m) /\ UNCHANGED <<store, wire, peers, hurt>> /\ m.type = "Begin" /\ counter' = counter + 1
      /\ turn[l].kind = "None" /\ OnWire' = OnWire
    BY <1>1 DEF Delivers, OnBegin, Understood, Takes, OnWire
<1>3. PICK p : p = m.otid
    OBVIOUS
<1>4. PICK t : t = counter + 1
    OBVIOUS
<1>5. PICK k \in Turns : turn' = [turn EXCEPT ![l] = k] /\ k.kind = "Begin" /\ k.dlg.our = t /\ k.dlg.peer = p
    BY <1>0, <1>1, <1>3, <1>4, TurnOfBegin
<1>6. p \in Peers /\ l \in Threads /\ m.dtid = 0 /\ IsFirst(m, p)
    BY <1>0, <1>1, <1>2, <1>3, TurnOfBegin, DeliversMail DEF MailFor, IsFirst
<1>7. PICK g : g = [f EXCEPT ![t] = p]
    OBVIOUS
<1>8. /\ Joins(f, g, t, p) /\ t > counter /\ ~Alive(t) /\ t \notin DOMAIN store
      /\ \A u \in Nat : g[u] = IF u = t THEN p ELSE f[u]
    <2>1. TakesNext(f, g, m, p, t)
        BY <1>2, <1>4, <1>6, <1>7 DEF TakesNext
    <2> QED BY <1>2, <2>1, NextIdJoins
<1>9. f[t] = NoPeer /\ t \in Nat
    BY <1>8 DEF Joins
<1>10. Begun(l, k, t)
    BY <1>2, <1>5, <1>6, <1>8 DEF Begun
<1>11. /\ \A u : (Alive(u)' <=> Alive(u) \/ u = t) /\ (Ending(u) => Ending(u)')
       /\ \A u : \A q \in Peers : Known(u, q)' <=> Known(u, q) \/ (u = t /\ q = k.dlg.peer)
       /\ \A q : Awaited(q) => Awaited(q)'
    BY <1>0, <1>10, HeldBegins
<1>12. Awaited(p)'
    BY <1>0, <1>5, <1>10, HeldBegins
<1>13. UnderWay' \subseteq UnderWay /\ \A x \in UnderWay : x # m => x \in UnderWay'
    BY <1>2, DeliversMail
<1>14. ASSUME NEW q \in Peers \ hurt, q # p PROVE Untouched(f, g, q)
    <2>1. ~FirstBegin(m, q) /\ ~Later(f, m, q)
        BY <1>3, <1>6, <1>14 DEF FirstBegin, IsFirst, Later
    <2>2. \A u \in Nat : (g[u] = q <=> f[u] = q) /\ (f[u] = q => u # t)
        BY <1>0, <1>8, <1>9, <1>14
    <2> QED BY <1>2, <1>11, <1>13, <2>1, <2>2 DEF Untouched
<1>15. ASSUME p \notin hurt PROVE Ends(g, p)'
    <2>1. (\A u \in Nat : f[u] # p) /\ \A x \in UnderWay' : ~IsFirst(x, p)
        BY <1>2, <1>6, <1>15, FirstIsNew
    <2>2. \A b \in OnWire : b.dtid # p
        <3>1. NewIsUnknown(f, p) /\ m \in UnderWay
            BY <1>2, <1>6, <1>15, DeliversMail DEF Agree, Ends
        <3> QED BY <1>6, <3>1 DEF NewIsUnknown
    <2>3. peers[p].ours = 0 /\ peers[p].state # "Open"
        <3>1. peers[p].ours \in Nat /\ PeerFits(f, p)
            BY <1>0, <1>6 DEF Agree, Matches, Types, PeerRecords
        <3> QED BY <1>0, <1>6, <2>1, <3>1 DEF PeerFits, MailInv
    <2>4. AnswerComes(p)' /\ AnswerIsMeant(p)' /\ OpenIsServed(p)'
        BY <1>2, <1>12, <2>2, <2>3 DEF AnswerComes, AnswerIsMeant, OpenIsServed
    <2>5. ClosedIsGone(g, p)' /\ OverIsLeft(p)' /\ NewIsUnknown(g, p)'
        BY <1>2, <2>1, <2>2, <2>3 DEF ClosedIsGone, Closing, Closes, OverIsLeft, NewIsUnknown
    <2> QED BY <2>4, <2>5 DEF Ends
<1>16. \A j \in Threads : turn'[j] = turn[j] \/ TurnMatches(g, j)'
    BY <1>0, <1>5 DEF Types, TurnMatches
<1>17. Carries(f, g)
    BY <1>2, <1>5, <1>8, <1>11, <1>13, <1>14, <1>15, <1>16 DEF Carries
<1> QED BY <1>0, <1>17, AgreeStays

\* on_turn
LEMMA AgreeTurns ==
    ASSUME BaseInv, NEW f, Agree(f), NEW l \in Lanes, OnTurn(l)
    PROVE  Agree(f)'
<1>0. Types /\ ShapeInv /\ [Next]_vars /\ MailInv /\ f \in Maps /\ NoPeer \notin Peers
    BY LanesAssumption DEF BaseInv, Next, LaneStep, Agree, Matches
<1>1. PICK m : m = Work(l).m
    OBVIOUS
<1>2. Delivers(l, m) /\ UNCHANGED <<wire, peers, hurt>> /\ turn[l].kind = "None" /\ OnWire' = OnWire
    BY <1>1 DEF Delivers, OnTurn, Understood, Takes, OnWire
<1>3. PICK t : t = m.dtid
    OBVIOUS
<1>4. /\ m \in InboundMessages /\ m.type \in {"Continue", "End"} /\ l \in Threads
      /\ t \in DOMAIN store /\ t # 0 /\ store' = Removed(t)
      /\ \E k \in Turns : /\ turn' = [turn EXCEPT ![l] = k] /\ k.kind = m.type /\ k.dlg.our = t
                          /\ k.dlg.peer = IF m.type = "Continue" /\ store[t].dlg.peer = NoPeer THEN m.otid
                                          ELSE store[t].dlg.peer
    BY <1>0, <1>1, <1>3, TurnOfMessage
<1>5. PICK k \in Turns : /\ turn' = [turn EXCEPT ![l] = k] /\ k.kind = m.type /\ k.dlg.our = t
                         /\ k.dlg.peer = IF m.type = "Continue" /\ store[t].dlg.peer = NoPeer THEN m.otid
                                         ELSE store[t].dlg.peer
    BY <1>4
<1>6. PICK p : p = f[t]
    OBVIOUS
<1>7. /\ t \in Nat /\ p \in Peers /\ (m.type = "Continue" => p = m.otid)
      /\ m.type = "End" => peers[p].state = "Over"
    <2>1. MailFits(f, m) /\ MailFor(m) /\ t \in Nat
        BY <1>2, <1>3, DeliversMail DEF InboundMessages
    <2> QED BY <1>0, <1>3, <1>4, <1>6, <2>1 DEF MailFits, MailFor, Maps
<1>8. store[t].dlg.peer \in {p, NoPeer} /\ (m.type = "Continue" => k.dlg.peer = p) /\ k.dlg.peer \in {p, NoPeer}
    <2>1. store[t].dlg.peer \in Peers \cup {NoPeer}
        BY <1>0, <1>4 DEF Types, Stored, DialoguesOf
    <2>2. store[t].dlg.peer \in Peers => store[t].dlg.peer = p
        BY <1>4, <1>6, <1>7 DEF Known, Agree, Matches
    <2> QED BY <1>5, <1>7, <2>1, <2>2
<1>9. Begun(l, k, t)
    BY <1>2, <1>4, <1>5, <1>8 DEF Begun, Removed
<1>10. /\ \A u : (Alive(u)' <=> Alive(u) \/ u = t) /\ (Ending(u) => Ending(u)')
       /\ \A u : \A q \in Peers : Known(u, q)' <=> Known(u, q) \/ (u = t /\ q = k.dlg.peer)
       /\ \A q : Awaited(q) => Awaited(q)'
       /\ k.kind = "End" => Ending(t)'
    BY <1>0, <1>9, HeldBegins
<1>11. Alive(t) /\ \A u : Alive(u)' <=> Alive(u)
    BY <1>4, <1>10 DEF Alive
<1>12. UnderWay' \subseteq UnderWay /\ \A x \in UnderWay : x # m => x \in UnderWay'
    BY <1>2, DeliversMail
<1>13. ASSUME NEW q \in Peers \ hurt, q # p PROVE Untouched(f, f, q)
    <2>1. ~FirstBegin(m, q) /\ ~Later(f, m, q)
        BY <1>3, <1>4, <1>6, <1>13 DEF FirstBegin, IsFirst, Later
    <2> QED BY <1>2, <1>10, <1>11, <1>12, <2>1 DEF Untouched
<1>14. ASSUME p \notin hurt PROVE Ends(f, p)'
    <2>1. Ends(f, p)
        BY <1>7, <1>14 DEF Agree
    <2>2. peers[p].ours \in {0, t}
        <3>1. peers[p].ours \in Nat /\ PeerFits(f, p) /\ Single(f)
            BY <1>0, <1>7 DEF Agree, Matches, Types, PeerRecords
        <3> QED BY <1>6, <1>7, <1>14, <3>1 DEF PeerFits, Single
    <2>3. AnswerComes(p)'
        <3>1. ~FirstBegin(m, p)
            BY <1>4 DEF FirstBegin
        <3> QED BY <1>2, <1>10, <1>12, <2>1, <3>1 DEF Ends, AnswerComes
    <2>4. AnswerIsMeant(p)'
        <3>1. \A u : Known(u, p) => Known(u, p)'
            BY <1>7, <1>10
        <3>2. Closing(p)' <=> Closing(p)
            BY <1>2 DEF Closing
        <3>3. ASSUME NEW x \in OnWire, x.type = "Continue", x.dtid = p, peers[p].state \in {"Sent", "Open"}
              PROVE  Known(x.otid, p)' \/ Closing(p)
            <4>1. PICK u : u = x.otid
                OBVIOUS
            <4>2. Known(u, p) \/ Closing(p)
                BY <2>1, <3>3, <4>1 DEF Ends, AnswerIsMeant
            <4> QED BY <3>1, <4>1, <4>2
        <3> QED BY <1>2, <3>2, <3>3 DEF AnswerIsMeant
    <2>5. OpenIsServed(p)'
        <3>1. ASSUME peers[p].state = "Open" PROVE Known(t, p)' /\ peers[p].ours = t
            BY <1>0, <1>4, <1>7, <1>8, <1>10, <2>2, <3>1 DEF MailInv
        <3>2. peers[p].ours = t => peers'[p].ours = t
            BY <1>2
        <3> QED BY <1>2, <3>1, <3>2 DEF OpenIsServed
    <2>6. ClosedIsGone(f, p)'
        BY <1>2, <1>11, <2>1 DEF Ends, ClosedIsGone, Closing
    <2>7. OverIsLeft(p)'
        <3>1. ASSUME peers[p].state = "Over", peers[p].ours = t
              PROVE  Ending(t)' \/ \E x \in UnderWay' : x.dtid = t /\ x.type \in {"End", "Abort"}
            <4>1. PICK u : u = peers[p].ours
                OBVIOUS
            <4>2. Ending(t) \/ \E x \in UnderWay : x.dtid = t /\ x.type \in {"End", "Abort"}
                BY <1>4, <1>11, <2>1, <3>1, <4>1 DEF Ends, OverIsLeft
            <4> QED BY <1>4, <1>5, <1>10, <1>12, <4>2
        <3>2. PICK u : u = peers'[p].ours
            OBVIOUS
        <3>3. u \in {0, t} /\ peers'[p].state = peers[p].state /\ peers[p].ours = u
            BY <1>2, <2>2, <3>2
        <3> QED BY <3>1, <3>2, <3>3 DEF OverIsLeft
    <2>8. NewIsUnknown(f, p)'
        BY <1>2, <1>12, <2>1 DEF Ends, NewIsUnknown
    <2> QED BY <2>3, <2>4, <2>5, <2>6, <2>7, <2>8 DEF Ends
<1>15. \A j \in Threads : turn'[j] = turn[j] \/ TurnMatches(f, j)'
    <2>1. f[t] # NoPeer /\ (k.kind = "End" => peers[f[t]].state = "Over") /\ k.kind # "Start" /\ k.dlg.our = t
        BY <1>0, <1>4, <1>5, <1>6, <1>7
    <2> QED BY <1>0, <1>2, <1>5, <2>1 DEF Types, TurnMatches
<1>16. \A u \in Nat, q \in Peers : Known(u, q)' => Known(u, q) \/ f[u] = q
    BY <1>0, <1>6, <1>8, <1>10
<1>17. Carries(f, f)
    BY <1>2, <1>12, <1>13, <1>14, <1>15, <1>16 DEF Carries
<1> QED BY <1>0, <1>17, AgreeStays

\* on_abort
LEMMA AgreeAborts ==
    ASSUME BaseInv, NEW f, Agree(f), NEW l \in Lanes, OnAbort(l)
    PROVE  Agree(f)'
<1>0. Types /\ [Next]_vars /\ OwnedInv /\ f \in Maps /\ NoPeer \notin Peers
    BY LanesAssumption DEF BaseInv, Next, LaneStep, Agree, Matches
<1>1. PICK m : m = Work(l).m
    OBVIOUS
<1>2. Delivers(l, m) /\ UNCHANGED <<wire, peers, hurt, turn>> /\ OnWire' = OnWire /\ m.type = "Abort"
    BY <1>1 DEF Delivers, OnAbort, Understood, OnWire
<1>3. PICK t : t = m.dtid
    OBVIOUS
<1>4. t \in DOMAIN store /\ store' = Removed(t) /\ t # 0 /\ t \in Nat
    <2>1. t \in DOMAIN store /\ store' = Removed(t)
        BY <1>1, <1>3 DEF OnAbort
    <2> QED BY <1>0, <2>1 DEF Types, BaseInv, ShapeInv, StoredFits
<1>5. /\ \A u : (Alive(u)' => Alive(u)) /\ (Ending(u)' <=> Ending(u))
      /\ \A u, p : (Known(u, p)' => Known(u, p)) /\ (u # t => (Known(u, p)' <=> Known(u, p)))
      /\ \A p : Awaited(p)' <=> Awaited(p)
      /\ ~Alive(t)'
    BY <1>0, <1>2, <1>4, HeldDropped
<1>6. UnderWay' \subseteq UnderWay /\ (\A x \in UnderWay : x # m => x \in UnderWay') /\ MailFits(f, m)
    BY <1>2, DeliversMail
<1>7. ASSUME NEW q \in Peers \ hurt, f[t] # q PROVE Untouched(f, f, q)
    <2>1. ~FirstBegin(m, q) /\ ~Later(f, m, q)
        BY <1>2, <1>3, <1>7 DEF FirstBegin, Later
    <2> QED BY <1>2, <1>5, <1>6, <1>7, <2>1 DEF Untouched
<1>8. ASSUME NEW q \in Peers \ hurt, f[t] = q PROVE Ends(f, q)'
    <2>1. peers[q].state = "Over"
        BY <1>0, <1>2, <1>3, <1>4, <1>6, <1>8 DEF MailFits
    <2> QED BY <1>0, <1>2, <1>4, <1>5, <1>6, <1>8, <2>1, OverEnds
<1>9. Carries(f, f)
    BY <1>2, <1>5, <1>6, <1>7, <1>8 DEF Carries
<1> QED BY <1>0, <1>9, AgreeStays

\* The end of a turn leaves the transactions alone that its dialogue does not belong to.
TurnIsLeft(l, t) ==
    /\ l \in Threads /\ Runs(l, t) /\ turn' = [turn EXCEPT ![l] = NoTurn]
    /\ DOMAIN store' \ {t} = DOMAIN store \ {t} /\ \A u \in DOMAIN store \ {t} : store'[u] = store[u]
    /\ turn[l].kind = "End" => t \notin DOMAIN store'
    /\ UnderWay' = UnderWay /\ peers' = peers

\* Those transactions are as they were.
LEMMA OthersUntouched ==
    ASSUME BaseInv, NEW f, Agree(f), NEW l, NEW t, TurnIsLeft(l, t), NEW q \in Peers, q # turn[l].dlg.peer,
           \A x \in OnWire : x.dtid = q => x \in OnWire',
           \A x \in OnWire' : x.dtid = q => x \in OnWire
    PROVE  Untouched(f, f, q)
<1>0. Types /\ OwnedInv /\ NoPeer \notin Peers
    BY LanesAssumption DEF BaseInv
<1>1. /\ \A u : u # t => (Alive(u)' <=> Alive(u)) /\ (Ending(u) => Ending(u)')
      /\ \A u, p : u # t => (Known(u, p)' <=> Known(u, p))
      /\ \A p : Awaited(p) => Awaited(p)' \/ (turn[l].kind = "Begin" /\ turn[l].dlg.peer = p)
      /\ Alive(t) /\ (Alive(t)' <=> t \in DOMAIN store')
      /\ \A p : /\ Known(t, p) <=> turn[l].dlg.peer = p
                /\ Known(t, p)' <=> t \in DOMAIN store' /\ store'[t].dlg.peer = p
    BY <1>0, HeldEnds DEF TurnIsLeft
<1>2. Awaited(q) => Awaited(q)'
    BY <1>1
<1>3. ~Known(t, q)
    BY <1>1
<1>4. Ending(t) => ~Alive(t)'
    <2>1. Ending(t) => turn[l].kind = "End"
        BY <1>0 DEF TurnIsLeft, Ending, Runs, OwnedInv
    <2> QED BY <1>1, <2>1 DEF TurnIsLeft
<1>5. \A u : /\ Known(u, q) => Known(u, q)'
             /\ Alive(u)' => Alive(u)
             /\ Ending(u) /\ Alive(u)' => Ending(u)'
    BY <1>1, <1>3, <1>4
<1> QED BY <1>2, <1>5 DEF Untouched, TurnIsLeft

\* A handler that panics hurts the transaction its dialogue belongs to.
LEMMA AgreePanics ==
    ASSUME BaseInv, NEW f, Agree(f), NEW l \in Threads, Panics(l)
    PROVE  Agree(f)'
<1>0. Types /\ OwnedInv /\ [Next]_vars
    BY DEF BaseInv, Next
<1>1. PICK t : t = turn[l].dlg.our
    OBVIOUS
<1>2. /\ UNCHANGED <<store, local, lanes, wire, peers>> /\ turn' = [turn EXCEPT ![l] = NoTurn]
      /\ Runs(l, t) /\ hurt' = hurt \cup {turn[l].dlg.peer} /\ UnderWay' = UnderWay /\ OnWire' = OnWire
    BY <1>1, MailSame DEF Panics, Returns, Runs, OnWire
<1>3. t \notin DOMAIN store
    BY <1>0, <1>2 DEF OwnedInv
<1>4. TurnIsLeft(l, t)
    BY <1>2, <1>3 DEF TurnIsLeft
<1>5. \A q \in Peers \ hurt' : Untouched(f, f, q)
    <2>1. ASSUME NEW q \in Peers \ hurt' PROVE Untouched(f, f, q)
        <3>1. q # turn[l].dlg.peer
            BY <1>2, <2>1
        <3> QED BY <1>2, <1>4, <2>1, <3>1, OthersUntouched
    <2> QED BY <2>1
<1>6. \A u, q : Known(u, q)' => Known(u, q)
    BY <1>2 DEF Types, Known, Runs, NoTurn, Turn
<1>7. \A j \in Threads : turn'[j] = turn[j] \/ TurnMatches(f, j)'
    BY <1>0, <1>2 DEF Types, TurnMatches, NoTurn, Turn
<1>8. Carries(f, f)
    BY <1>2, <1>5, <1>6, <1>7 DEF Carries
<1> QED BY <1>0, <1>8, AgreeStays

\* serve_originations: the peer has yet to hear of the dialogue.
LEMMA AgreeOriginates ==
    ASSUME BaseInv, NEW f, Agree(f), Originate
    PROVE  Agree(f)'
<1>0. Types /\ OwnedInv /\ [Next]_vars /\ f \in Maps /\ NoPeer \notin Peers
    BY LanesAssumption DEF BaseInv, Next, Agree, Matches
<1>1. PICK t : t = counter + 1
    OBVIOUS
<1>2. PICK k : k = Turn("Start", NewDialogue("Initiator", counter + 1, NoPeer, TRUE), FALSE, <<>>)
    OBVIOUS
<1>3. k.kind = "Start" /\ k.dlg.our = t /\ k.dlg.peer = NoPeer
    BY <1>1, <1>2 DEF Turn, NewDialogue
<1>4. /\ UNCHANGED <<store, local, lanes, wire, peers, hurt>> /\ turn' = [turn EXCEPT ![Origin] = k]
      /\ turn[Origin].kind = "None" /\ UnderWay' = UnderWay /\ OnWire' = OnWire
    BY <1>2, MailSame DEF Originate, Starts, OnWire
<1>5. t \in Nat /\ t > counter /\ t \notin DOMAIN store /\ f[t] = NoPeer /\ Origin \in Threads
    BY <1>0, <1>1 DEF Types, OwnedInv, Threads, Agree, Matches, Pairs
<1>6. Begun(Origin, k, t)
    BY <1>3, <1>4, <1>5 DEF Begun
<1>7. /\ \A u : (Alive(u)' <=> Alive(u) \/ u = t) /\ (Ending(u) => Ending(u)')
      /\ \A u : \A q \in Peers : Known(u, q)' <=> Known(u, q) \/ (u = t /\ q = k.dlg.peer)
      /\ \A q : Awaited(q) => Awaited(q)'
    BY <1>0, <1>6, HeldBegins
<1>8. \A u : \A q \in Peers : Known(u, q)' <=> Known(u, q)
    BY <1>0, <1>3, <1>7
<1>9. ASSUME NEW q \in Peers PROVE Untouched(f, f, q)
    <2>1. \A u \in Nat : f[u] = q => u # t
        BY <1>0, <1>5
    <2> QED BY <1>4, <1>7, <1>8, <2>1 DEF Untouched
<1>10. \A j \in Threads : turn'[j] = turn[j] \/ TurnMatches(f, j)'
    BY <1>0, <1>3, <1>4, <1>5 DEF Types, TurnMatches
<1>11. Carries(f, f)
    BY <1>4, <1>8, <1>9, <1>10 DEF Carries
<1> QED BY <1>0, <1>11, AgreeStays

\* A handler returns.
LEMMA AgreeTurnEnds ==
    ASSUME BaseInv, NEW f, Agree(f), NEW l \in Threads, TurnEnds(l)
    PROVE  Agree(f)'
<1>0. Types /\ ShapeInv /\ OwnedInv /\ [Next]_vars /\ f \in Maps /\ NoPeer \notin Peers
    BY LanesAssumption DEF BaseInv, Next, Agree, Matches
<1>1. PICK e : Ended(l, e)
    BY <1>0, TurnLeaves
<1>2. PICK k : k = turn[l]
    OBVIOUS
<1>3. PICK t : t = k.dlg.our
    OBVIOUS
<1>4. PICK p : p = k.dlg.peer
    OBVIOUS
<1>5. PICK S : S = {e.out[i] : i \in DOMAIN e.out}
    OBVIOUS
<1>6. /\ UNCHANGED <<peers, hurt>> /\ UnderWay' = UnderWay /\ k.kind # "None" /\ Runs(l, t)
      /\ turn' = [turn EXCEPT ![l] = NoTurn]
    BY <1>1, <1>2, <1>3, MailSame DEF TurnEnds, Returns, Runs
<1>7. OnWire' = OnWire \cup S
    BY <1>0, <1>1, <1>2, <1>5, <1>6, EndedSends
<1>8. TurnFits(k) /\ k \in Turns /\ t \in Nat /\ t # 0 /\ p \in Peers \cup {NoPeer}
    <2>1. TurnFits(k) /\ k \in Turns
        BY <1>0, <1>2, <1>6 DEF ShapeInv, Types
    <2> QED BY <1>3, <1>4, <2>1 DEF Turns, DialoguesOf, TurnFits
<1>9. /\ \A x \in S : IF k.kind = "Start" THEN First(x, t)
                      ELSE p \in Peers /\ Leg(x, t, p) /\ (IsOpen(e) => x.type = "Continue")
      /\ ~IsOpen(e) /\ p \in Peers /\ k.kind # "End" => \E x \in S : Closes(x, p)
      /\ k.kind = "Begin" => S # {}
      /\ k.kind = "End" => ~IsOpen(e)
    <2>1. Leaves(k, e) /\ e.out \in Seq(Messages)
        BY <1>0, <1>1, <1>2, <1>6, EndedSends DEF Ended
    <2>2. k.kind = "Begin" => S # {}
        <3>1. PICK out : out = e.out
            OBVIOUS
        <3>2. out \in Seq(Messages) /\ S = {out[i] : i \in DOMAIN out} /\ (k.kind = "Begin" => out # <<>>)
            BY <1>5, <2>1, <3>1 DEF Leaves
        <3>3. out # <<>> => 1 \in DOMAIN out
            BY <3>2
        <3> QED BY <3>2, <3>3
    <2> QED BY <1>3, <1>4, <1>5, <2>1, <2>2 DEF Leaves
<1>10. t \notin DOMAIN store /\ (t \in DOMAIN store' <=> IsOpen(e)) /\ (IsOpen(e) => store'[t].dlg.peer = p)
       /\ DOMAIN store' \ {t} = DOMAIN store \ {t} /\ \A u \in DOMAIN store \ {t} : store'[u] = store[u]
    <2>1. t \notin DOMAIN store
        BY <1>0, <1>6 DEF OwnedInv
    <2> QED BY <1>1, <1>2, <1>3, <1>4, <2>1 DEF Ended, Leaves
<1>11. TurnIsLeft(l, t)
    BY <1>2, <1>6, <1>9, <1>10 DEF TurnIsLeft
<1>12. /\ \A u : u # t => (Alive(u)' <=> Alive(u)) /\ (Ending(u) => Ending(u)')
       /\ \A u, q : u # t => (Known(u, q)' <=> Known(u, q))
       /\ \A q : Awaited(q) => Awaited(q)' \/ (k.kind = "Begin" /\ p = q)
       /\ Alive(t) /\ (Alive(t)' <=> t \in DOMAIN store')
       /\ \A q : /\ Known(t, q) <=> p = q
                 /\ Known(t, q)' <=> t \in DOMAIN store' /\ store'[t].dlg.peer = q
    BY <1>0, <1>2, <1>4, <1>6, <1>10, HeldEnds
<1>13. p \in Peers => f[t] = p /\ k.kind # "Start" /\ peers[p].state # "Idle"
    <2>1. p \in Peers => f[t] = p
        BY <1>8, <1>12 DEF Agree, Matches
    <2>2. p \in Peers => peers[p].state # "Idle"
        BY <1>8, <2>1 DEF Agree, Matches, PeerFits
    <2> QED BY <1>0, <1>4, <1>8, <2>1, <2>2 DEF TurnFits
<1>14. TurnMatches(f, l)
    BY DEF Agree, Matches
<1>15. ASSUME NEW x \in S PROVE WireFits(f, x)' /\ (x.type = "Begin" => \A y \in UnderWay' : y.dtid # x.otid)
    <2>1. CASE k.kind = "Start"
        <3>1. x.type = "Begin" /\ x.otid = t /\ x.dtid = NoPeer
            BY <1>9, <2>1 DEF First
        <3>2. f[t] = NoPeer
            BY <1>2, <1>3, <1>14, <2>1 DEF TurnMatches
        <3>3. t \in Young
            BY <1>2, <1>3, <2>1 DEF Young
        <3>4. \A y \in UnderWay : y.dtid # t
            BY <3>3 DEF BaseInv, BoundInv, Given
        <3> QED BY <1>6, <3>1, <3>2, <3>4 DEF WireFits
    <2>2. CASE k.kind # "Start"
        BY <1>6, <1>9, <1>13, <2>2 DEF Leg, WireFits
    <2> QED BY <2>1, <2>2
<1>16. \A u \in Nat, q \in Peers : Known(u, q)' => Known(u, q)
    BY <1>10, <1>12
<1>17. \A j \in Threads : turn'[j] = turn[j] \/ TurnMatches(f, j)'
    BY <1>0, <1>6 DEF Types, TurnMatches, NoTurn, Turn
<1>18. ASSUME NEW q \in Peers \ hurt, q # p PROVE Untouched(f, f, q)
    <2>1. \A x \in S : x.dtid # q
        BY <1>0, <1>9, <1>18 DEF First, Leg
    <2> QED BY <1>2, <1>4, <1>7, <1>11, <1>18, <2>1, OthersUntouched
<1>19. ASSUME p \in Peers \ hurt PROVE Ends(f, p)'
    <2>1. Ends(f, p) /\ \A u \in Nat : f[u] = p => u = t
        BY <1>8, <1>13, <1>19 DEF Agree, Matches, Single
    <2>2. \A x \in UnderWay : ~IsFirst(x, p)
        BY <1>8, <1>13, <1>19, <2>1 DEF Ends, NewIsUnknown
    <2>3. CASE k.kind = "End"
        <3>1. peers[p].state = "Over" /\ ~Alive(t)'
            BY <1>2, <1>3, <1>9, <1>10, <1>12, <1>13, <1>14, <1>19, <2>3 DEF TurnMatches
        <3> QED BY <1>0, <1>6, <1>8, <1>13, <1>19, <3>1, OverEnds
    <2>4. CASE k.kind # "End" /\ ~IsOpen(e)
        <3>1. Closing(p)'
            BY <1>7, <1>9, <1>19, <2>4 DEF Closing
        <3>2. \A u \in Nat : f[u] = p => ~Alive(u)'
            BY <1>10, <1>12, <2>1, <2>4
        <3> QED BY <1>0, <1>6, <1>19, <2>2, <3>1, <3>2, ToldEnds
    <2>5. CASE k.kind # "End" /\ IsOpen(e)
        <3>1. Known(t, p)' /\ Alive(t)' /\ (\A x \in S : Leg(x, t, p) /\ x.type = "Continue")
            BY <1>9, <1>10, <1>12, <1>13, <1>19, <2>5
        <3>2. \A u : Known(u, p) => Known(u, p)'
            BY <1>12, <3>1
        <3>3. ~Closing(p) /\ ~Closing(p)'
            <4>1. ~Closing(p)
                BY <1>8, <1>12, <1>13, <1>19, <2>1 DEF Ends, ClosedIsGone
            <4>2. \A x \in S : ~Closes(x, p)
                BY <3>1 DEF Closes
            <4> QED BY <1>7, <4>1, <4>2 DEF Closing
        <3>4. AnswerComes(p)'
            <4>1. k.kind = "Begin" => \E x \in OnWire' : x.dtid = p
                BY <1>7, <1>9, <3>1 DEF Leg
            <4> QED BY <1>6, <1>7, <1>12, <2>1, <4>1 DEF Ends, AnswerComes
        <3>5. AnswerIsMeant(p)'
            <4>1. ASSUME NEW x \in OnWire', x.type = "Continue", x.dtid = p, peers[p].state \in {"Sent", "Open"}
                  PROVE  Known(x.otid, p)'
                <5>1. PICK u : u = x.otid
                    OBVIOUS
                <5>2. Known(u, p)'
                    BY <1>7, <2>1, <3>1, <3>2, <3>3, <4>1, <5>1 DEF Leg, Ends, AnswerIsMeant
                <5> QED BY <5>1, <5>2
            <4> QED BY <1>6, <4>1 DEF AnswerIsMeant
        <3>6. OpenIsServed(p)'
            <4>1. PICK u : u = peers[p].ours
                OBVIOUS
            <4>2. u = peers'[p].ours
                BY <1>6, <4>1
            <4>3. peers[p].state = "Open" =>
                      \/ Known(u, p) \/ Closing(p) \/ ~peers[p].spoke
                      \/ \E m \in UnderWay : m.type = "Continue" /\ m.otid = p /\ m.dtid # 0
                BY <2>1, <4>1 DEF Ends, OpenIsServed
            <4> QED BY <1>6, <3>2, <3>3, <4>2, <4>3 DEF OpenIsServed
        <3>7. ClosedIsGone(f, p)'
            BY <3>3 DEF ClosedIsGone
        <3>8. OverIsLeft(p)'
            <4>1. ~Ending(t)
                BY <1>0, <1>2, <1>6, <2>5 DEF Ending, Runs, OwnedInv
            <4>2. PICK u : u = peers[p].ours
                OBVIOUS
            <4>3. u = peers'[p].ours /\ u \in {0, t}
                BY <1>0, <1>6, <1>19, <2>1, <4>2 DEF Agree, Matches, PeerFits, Types, PeerRecords
            <4>4. peers[p].state = "Over" /\ u = t =>
                      \E m \in UnderWay : m.dtid = u /\ m.type \in {"End", "Abort"}
                BY <1>8, <1>12, <2>1, <4>1, <4>2 DEF Ends, OverIsLeft
            <4> QED BY <1>6, <4>3, <4>4 DEF OverIsLeft
        <3>9. NewIsUnknown(f, p)'
            BY <1>6, <2>2 DEF NewIsUnknown
        <3> QED BY <3>4, <3>5, <3>6, <3>7, <3>8, <3>9 DEF Ends
    <2> QED BY <2>3, <2>4, <2>5
<1>20. Carries(f, f)
    BY <1>6, <1>7, <1>15, <1>16, <1>17, <1>18, <1>19 DEF Carries
<1> QED BY <1>0, <1>20, AgreeStays

\* A message to the peer is lost, and hurts the transaction it was for.
LEMMA AgreeLoses ==
    ASSUME BaseInv, NEW f, Agree(f), Loses
    PROVE  Agree(f)'
<1>0. Types /\ [Next]_vars
    BY DEF BaseInv, Next
<1>1. PICK m : m = Head(wire)
    OBVIOUS
<1>2. /\ UNCHANGED <<store, local, lanes, turn, peers>> /\ hurt' = hurt \cup {m.dtid}
      /\ wire # <<>> /\ wire' = Tail(wire)
    BY <1>1 DEF Loses
<1>3. UnderWay' = UnderWay /\ OnWire = OnWire' \cup {m}
    BY <1>0, <1>1, <1>2, MailSame, WireShrinks
<1>4. SameDialogues
    BY <1>0, <1>2, StoreKept
<1>5. /\ \A u : (Alive(u)' <=> Alive(u)) /\ (Ending(u)' <=> Ending(u))
      /\ \A u, p : Known(u, p)' <=> Known(u, p)
      /\ \A p : Awaited(p)' <=> Awaited(p)
    BY <1>2, <1>4, HeldSame
<1>6. \A q \in Peers \ hurt' : Untouched(f, f, q)
    BY <1>2, <1>3, <1>5 DEF Untouched
<1>7. Carries(f, f)
    BY <1>2, <1>3, <1>5, <1>6 DEF Carries
<1> QED BY <1>0, <1>7, AgreeStays

\* Nothing is under way to a transaction of the peer that is yet to be opened.
LEMMA IdleIsUntold ==
    ASSUME NEW f, Agree(f), NEW p \in Peers, peers[p].state = "Idle"
    PROVE  \A b \in OnWire : b.dtid # p
BY LanesAssumption DEF Agree, Matches, WireFits

\* The peer opens a transaction, answers in one, or closes one.
LEMMA AgreeSpeaks ==
    ASSUME BaseInv, NEW f, Agree(f), PeerStep, ~PeerReceives
    PROVE  Agree(f)'
<1>0. Types /\ MailInv /\ [Next]_vars /\ f \in Maps /\ NoPeer \notin Peers
    BY LanesAssumption DEF BaseInv, Next, Agree, Matches
<1>1. PICK p \in Peers : \E m, after : Speaks(p, m, after)
    BY <1>0, PeerSpeaking
<1>2. PICK m, after : Speaks(p, m, after)
    BY <1>1
<1>3. /\ UNCHANGED <<store, lanes, turn, wire>> /\ local' = Append(local, m) /\ m \in InboundMessages
      /\ hurt' = hurt \cup FaultsOf(p, m) /\ OnWire' = OnWire
      /\ peers'[p] = after /\ (\A q \in Peers : q # p => peers'[q] = peers[q]) /\ after.ours = peers[p].ours
    BY <1>0, <1>2 DEF Speaks, PeerSends, OnWire, Types
<1>4. UnderWay' = UnderWay \cup {m}
    BY <1>0, <1>3, MailComes
<1>5. SameDialogues
    BY <1>0, <1>3, StoreKept
<1>6. /\ \A u : (Alive(u)' <=> Alive(u)) /\ (Ending(u)' <=> Ending(u))
      /\ \A u, q : Known(u, q)' <=> Known(u, q)
      /\ \A q : Awaited(q)' <=> Awaited(q)
    BY <1>3, <1>5, HeldSame
<1>7. PICK t : t = peers[p].ours
    OBVIOUS
<1>8. /\ t \in Nat /\ (t # 0 => f[t] = p) /\ PeerFits(f, p)
      /\ peers[p].state = "Open" => t # 0
      /\ peers[p].state = "Idle" => t = 0 /\ \A u \in Nat : f[u] # p
    <2>1. t \in Nat /\ PeerFits(f, p)
        BY <1>0, <1>7 DEF Types, PeerRecords, Agree, Matches
    <2> QED BY <1>0, <1>7, <2>1 DEF PeerFits, MailInv
<1>9. after.state \in {"Sent", "Open", "Over"} /\ after.ours = t
    BY <1>2, <1>3, <1>7 DEF Speaks
<1>10. PeerFits(f, p)'
    BY <1>3, <1>8, <1>9 DEF PeerFits
<1>11. p \in hurt' \/ (m.fault = "None" /\ ~Unread(m))
    BY <1>3 DEF FaultsOf
<1>12. MailFits(f, m)'
    <2>1. CASE peers[p].state = "Idle"
        BY <1>2, <1>11, <2>1 DEF Speaks, MailFits
    <2>2. CASE peers[p].state = "Open"
        <3>1. /\ m.dtid = t /\ t # 0 /\ f[t] = p
              /\ m.type = "Continue" => m.otid = p
              /\ m.type # "Continue" => after.state = "Over"
            BY <1>2, <1>7, <1>8, <2>2 DEF Speaks
        <3>2. m.fault # "None" \/ m.form # "Unitdata" => Harmed(f, t)'
            <4>1. m.type # "Begin"
                BY <1>2, <2>2 DEF Speaks
            <4> QED BY <1>11, <3>1, <4>1 DEF Harmed, Unread
        <3> QED BY <1>0, <1>3, <3>1, <3>2 DEF MailFits
    <2> QED BY <1>2, <2>1, <2>2 DEF Speaks
<1>13. ASSUME NEW q \in Peers, q # p PROVE Untouched(f, f, q)
    <2>1. ~IsFirst(m, q)
        BY <1>2, <1>7, <1>8, <1>13 DEF Speaks, IsFirst
    <2> QED BY <1>3, <1>4, <1>6, <1>13, <2>1 DEF Untouched
<1>14. ASSUME p \notin hurt' PROVE Ends(f, p)'
    <2>1. Ends(f, p)
        BY <1>3, <1>14 DEF Agree
    <2>2. CASE peers[p].state = "Idle"
        <3>1. \A b \in OnWire : b.dtid # p
            BY <2>2, IdleIsUntold
        <3>2. t = 0 /\ \A u \in Nat : f[u] # p
            BY <1>8, <2>2
        <3>3. after.state \in {"Sent", "Over"} /\ (after.state = "Sent" => FirstBegin(m, p))
            BY <1>2, <2>2 DEF Speaks, FirstBegin, IsFirst
        <3>4. AnswerComes(p)' /\ AnswerIsMeant(p)' /\ OpenIsServed(p)'
            BY <1>3, <1>4, <3>1, <3>3 DEF AnswerComes, AnswerIsMeant, OpenIsServed
        <3>5. ClosedIsGone(f, p)' /\ OverIsLeft(p)' /\ NewIsUnknown(f, p)'
            BY <1>3, <1>9, <3>1, <3>2 DEF ClosedIsGone, Closing, Closes, OverIsLeft, NewIsUnknown
        <3> QED BY <3>4, <3>5 DEF Ends
    <2>3. CASE peers[p].state = "Open"
        <3>1. /\ m.dtid = t /\ t # 0
              /\ \/ m.type = "Continue" /\ m.otid = p /\ after.state = "Open"
                 \/ m.type \in {"End", "Abort"} /\ after.state = "Over"
            BY <1>2, <1>7, <1>8, <2>3 DEF Speaks
        <3>2. Closing(p)' <=> Closing(p)
            BY <1>3 DEF Closing
        <3>3. AnswerIsMeant(p)'
            <4>1. ASSUME NEW x \in OnWire, x.type = "Continue", x.dtid = p PROVE Known(x.otid, p)' \/ Closing(p)
                <5>1. PICK u : u = x.otid
                    OBVIOUS
                <5>2. Known(u, p) \/ Closing(p)
                    BY <2>1, <2>3, <4>1, <5>1 DEF Ends, AnswerIsMeant
                <5> QED BY <1>6, <5>1, <5>2
            <4> QED BY <1>3, <3>2, <4>1 DEF AnswerIsMeant
        <3>4. AnswerComes(p)' /\ OpenIsServed(p)'
            BY <1>3, <1>4, <3>1 DEF AnswerComes, OpenIsServed
        <3>5. ClosedIsGone(f, p)'
            BY <1>6, <2>1, <3>2 DEF Ends, ClosedIsGone
        <3>6. OverIsLeft(p)'
            <4>1. peers'[p].ours = m.dtid
                BY <1>3, <1>9, <3>1
            <4> QED BY <1>3, <1>4, <3>1, <4>1 DEF OverIsLeft
        <3>7. NewIsUnknown(f, p)'
            BY <1>3, <1>4, <2>1, <3>1 DEF Ends, NewIsUnknown, IsFirst
        <3> QED BY <3>3, <3>4, <3>5, <3>6, <3>7 DEF Ends
    <2> QED BY <1>2, <2>2, <2>3 DEF Speaks
<1>15. Carries(f, f)
    BY <1>3, <1>4, <1>6, <1>10, <1>12, <1>13, <1>14 DEF Carries
<1> QED BY <1>0, <1>15, AgreeStays

\* A message reaches the peer.
Reaches(m) == Hears(m) /\ UNCHANGED <<store, lanes, turn, hurt, counter>>

\* What this node holds is as it was, and the message was fit to be heard.
LEMMA ReachesHeld ==
    ASSUME BaseInv, NEW f, Agree(f), NEW m, Reaches(m)
    PROVE  /\ \A u : (Alive(u)' <=> Alive(u)) /\ (Ending(u)' <=> Ending(u))
           /\ \A u, q : Known(u, q)' <=> Known(u, q)
           /\ \A q : Awaited(q)' <=> Awaited(q)
           /\ m \in OnWire /\ WireFits(f, m) /\ OnWire = OnWire' \cup {m}
           /\ m.type \in {"Begin", "Continue"} => m.otid # 0
           /\ m.type \in {"Begin", "Continue", "End", "Abort", "Returned"} /\ m.otid \in Nat
           /\ \A x \in OnWire' : ~(x.type = "Begin" /\ m.type = "Begin" /\ x.otid = m.otid)
<1>1. SameDialogues
    BY StoreKept DEF BaseInv, Reaches
<1>2. /\ \A u : (Alive(u)' <=> Alive(u)) /\ (Ending(u)' <=> Ending(u))
      /\ \A u, q : Known(u, q)' <=> Known(u, q)
      /\ \A q : Awaited(q)' <=> Awaited(q)
    BY <1>1, HeldSame DEF Reaches
<1>3. /\ m \in OnWire /\ OnWire = OnWire' \cup {m} /\ wire # <<>> /\ m = Head(wire) /\ wire' = Tail(wire)
      /\ m \in Messages
    BY DEF Reaches, Hears
<1>4. WireFits(f, m)
    BY <1>3 DEF Agree, Matches
<1>5. /\ m.type \in {"Begin", "Continue"} => m.otid # 0
      /\ m.type \in {"Begin", "Continue", "End", "Abort", "Returned"} /\ m.otid \in Nat
    BY <1>3 DEF Messages, BaseInv, MailInv
<1>6. \A x \in OnWire' : ~(x.type = "Begin" /\ m.type = "Begin" /\ x.otid = m.otid)
    BY <1>3, BeginsLeft DEF BaseInv, BoundInv
<1> QED BY <1>2, <1>3, <1>4, <1>5, <1>6

\* It has no transaction for it, or none any more.
LEMMA CarriesRefused ==
    ASSUME BaseInv, NEW f, Agree(f), NEW m, Reaches(m), Refuses(m)
    PROVE  Carries(f, f)
<1>0. Types /\ f \in Maps /\ NoPeer \notin Peers
    BY LanesAssumption DEF BaseInv, Agree, Matches
<1>1. /\ \A u : (Alive(u)' <=> Alive(u)) /\ (Ending(u)' <=> Ending(u))
      /\ \A u, q : Known(u, q)' <=> Known(u, q)
      /\ \A q : Awaited(q)' <=> Awaited(q)
    BY ReachesHeld
<1>2. WireFits(f, m) /\ OnWire = OnWire' \cup {m}
    BY ReachesHeld
<1>3. PICK t : t = m.otid
    OBVIOUS
<1>4. PICK r : r = Refusal(m)
    OBVIOUS
<1>5. /\ t # 0 /\ t \in Nat /\ (m.type = "Begin" \/ (m.type = "Continue" /\ peers[m.dtid].state = "Over"))
      /\ r.dtid = t /\ r.type = "Abort" /\ r.fault = "None" /\ r.form = "Unitdata"
    <2>1. m.type = "Begin" \/ (m.type = "Continue" /\ peers[m.dtid].state = "Over")
        BY DEF Refuses
    <2>2. r.dtid = t /\ r.type = "Abort" /\ r.fault = "None" /\ r.form = "Unitdata"
        BY <1>3, <1>4 DEF Refusal, Inbound
    <2>3. m.type \in {"Begin", "Continue"} => m.otid # 0 /\ m.otid \in Nat
        BY ReachesHeld
    <2> QED BY <1>3, <2>1, <2>2, <2>3
<1>6. peers' = peers /\ UnderWay' = UnderWay \cup {r} /\ UNCHANGED <<hurt, turn>>
    BY <1>4 DEF Reaches, Hears
<1>7. f[t] = IF m.type = "Begin" THEN NoPeer ELSE m.dtid
    BY <1>2, <1>3, <1>5 DEF WireFits
<1>8. MailFits(f, r)'
    <2>1. f[t] # NoPeer => peers[f[t]].state = "Over"
        BY <1>5, <1>7
    <2>2. f[t] = NoPeer => \A b \in OnWire' : ~(b.type = "Begin" /\ b.otid = t)
        <3>1. f[t] = NoPeer => m.type = "Begin"
            BY <1>0, <1>2, <1>5, <1>7 DEF WireFits
        <3> QED BY <1>3, <3>1, ReachesHeld
    <2> QED BY <1>5, <1>6, <2>1, <2>2 DEF MailFits
<1>9. ASSUME NEW q \in Peers, q # m.dtid PROVE Untouched(f, f, q)
    BY <1>1, <1>2, <1>5, <1>6, <1>9 DEF Untouched, IsFirst
<1>10. ASSUME NEW q \in Peers \ hurt, q = m.dtid PROVE Ends(f, q)'
    <2>1. peers'[q] = peers[q] /\ peers[q].state = "Over" /\ Ends(f, q)
        BY <1>0, <1>2, <1>5, <1>6, <1>10 DEF WireFits, Agree
    <2>2. AnswerComes(q)' /\ AnswerIsMeant(q)' /\ OpenIsServed(q)'
        BY <2>1 DEF AnswerComes, AnswerIsMeant, OpenIsServed
    <2>3. ClosedIsGone(f, q)'
        BY <1>1, <1>2, <2>1 DEF Ends, ClosedIsGone, Closing
    <2>4. OverIsLeft(q)'
        <3>1. PICK u : u = peers[q].ours
            OBVIOUS
        <3>2. u = peers'[q].ours
            BY <2>1, <3>1
        <3>3. u # 0 => \/ ~Alive(u) \/ Ending(u)
                       \/ \E x \in UnderWay : x.dtid = u /\ x.type \in {"End", "Abort"}
            BY <2>1, <3>1 DEF Ends, OverIsLeft
        <3> QED BY <1>1, <1>6, <3>2, <3>3 DEF OverIsLeft
    <2>5. NewIsUnknown(f, q)'
        BY <1>2, <1>5, <1>6, <2>1 DEF Ends, NewIsUnknown, IsFirst
    <2> QED BY <2>2, <2>3, <2>4, <2>5 DEF Ends
<1> QED BY <1>1, <1>2, <1>6, <1>8, <1>9, <1>10 DEF Carries

\* It hears a Begin, and opens a transaction for it.
LEMMA CarriesOpened ==
    ASSUME BaseInv, NEW f, Agree(f), NEW m, Reaches(m), ~Refuses(m), m.type = "Begin", NEW p \in Peers, Hearing(p, m),
           UnderWay' = UnderWay
    PROVE  \E g : Carries(f, g)
<1>0. Types /\ MailInv /\ f \in Maps /\ NoPeer \notin Peers /\ counter \in Nat
    BY LanesAssumption DEF BaseInv, Agree, Matches, Types
<1>1. /\ \A u : (Alive(u)' <=> Alive(u)) /\ (Ending(u)' <=> Ending(u))
      /\ \A u, q : Known(u, q)' <=> Known(u, q)
      /\ \A q : Awaited(q)' <=> Awaited(q)
    BY ReachesHeld
<1>2. PICK t : t = m.otid
    OBVIOUS
<1>3. m \in OnWire /\ WireFits(f, m) /\ OnWire = OnWire' \cup {m} /\ t # 0 /\ t \in Nat
      /\ \A x \in OnWire' : ~(x.type = "Begin" /\ x.otid = t)
    BY <1>2, ReachesHeld
<1>4. /\ peers[p].state = "Idle" /\ peers'[p].state = "Open" /\ peers'[p].ours = t /\ ~peers'[p].spoke
      /\ \A q \in Peers : q # p => peers'[q] = peers[q]
    BY <1>2 DEF Hearing, PeerHears
<1>5. f[t] = NoPeer /\ m.dtid = NoPeer
    BY <1>2, <1>3 DEF WireFits
<1>6. \A u \in Nat : f[u] # p
    BY <1>4 DEF Agree, Matches, PeerFits
<1>7. PICK g : g = [f EXCEPT ![t] = p]
    OBVIOUS
<1>8. \A u \in Nat : g[u] = IF u = t THEN p ELSE f[u]
    BY <1>0, <1>3, <1>7 DEF Maps
<1>9. UNCHANGED <<hurt, turn, counter>>
    BY DEF Reaches
<1>10. Joins(f, g, t, p)
    <2>1. Given(t)
        BY <1>2, <1>3 DEF BaseInv, BoundInv
    <2>2. \A j \in Threads : turn[j].kind = "Start" => turn[j].dlg.our # t
        BY <2>1 DEF Given, Young
    <2>3. \A x \in UnderWay : x.dtid # t
        BY <1>2, <1>3, <1>5 DEF Agree, Matches, MailFits
    <2> QED BY <1>3, <1>4, <1>5, <1>6, <1>7, <1>9, <2>1, <2>2, <2>3 DEF Joins, Given
<1>11. PeerFits(g, p)'
    BY <1>3, <1>4, <1>8 DEF PeerFits
<1>12. ASSUME NEW q \in Peers, q # p PROVE Untouched(f, g, q)
    <2>1. \A u \in Nat : g[u] = q <=> f[u] = q
        BY <1>0, <1>5, <1>8, <1>12
    <2> QED BY <1>0, <1>1, <1>3, <1>4, <1>5, <1>12, <2>1 DEF Untouched
<1>13. Ends(g, p)'
    <2>1. \A b \in OnWire' : b.dtid # p
        BY <1>3, <1>4, IdleIsUntold
    <2>2. \A x \in UnderWay' : ~IsFirst(x, p)
        BY <1>4 DEF BaseInv, OnceInv, IsFirst
    <2>3. AnswerComes(p)' /\ AnswerIsMeant(p)' /\ OpenIsServed(p)'
        BY <1>4, <2>1 DEF AnswerComes, AnswerIsMeant, OpenIsServed
    <2>4. ClosedIsGone(g, p)' /\ OverIsLeft(p)' /\ NewIsUnknown(g, p)'
        BY <1>4, <2>1, <2>2 DEF ClosedIsGone, Closing, Closes, OverIsLeft, NewIsUnknown
    <2> QED BY <2>3, <2>4 DEF Ends
<1>14. Carries(f, g)
    BY <1>1, <1>3, <1>4, <1>9, <1>10, <1>11, <1>12, <1>13 DEF Carries
<1> QED BY <1>14

\* It hears that a dialogue goes on, or is over.
LEMMA CarriesHeard ==
    ASSUME BaseInv, NEW f, Agree(f), NEW m, Reaches(m), ~Refuses(m), m.type # "Begin", NEW p \in Peers, Hearing(p, m),
           UnderWay' = UnderWay
    PROVE  Carries(f, f)
<1>0. Types /\ MailInv /\ f \in Maps /\ NoPeer \notin Peers
    BY LanesAssumption DEF BaseInv, Agree, Matches
<1>1. /\ \A u : (Alive(u)' <=> Alive(u)) /\ (Ending(u)' <=> Ending(u))
      /\ \A u, q : Known(u, q)' <=> Known(u, q)
      /\ \A q : Awaited(q)' <=> Awaited(q)
    BY ReachesHeld
<1>2. PICK t : t = m.otid
    OBVIOUS
<1>3. /\ m \in OnWire /\ WireFits(f, m) /\ OnWire = OnWire' \cup {m} /\ t \in Nat
      /\ m.type = "Continue" => t # 0
      /\ m.type \in {"Continue", "End", "Abort", "Returned"}
    BY <1>2, ReachesHeld
<1>4. p = m.dtid /\ (\A q \in Peers : q # p => peers'[q] = peers[q]) /\ peers'[p] = PeerHears(p, m)
    BY DEF Hearing
<1>5. peers[p].state # "Idle" /\ (t # 0 => f[t] = p) /\ peers[p].state \in {"Idle", "Sent", "Open", "Over"}
    BY <1>0, <1>2, <1>3, <1>4 DEF WireFits, Types, PeerRecords
<1>6. PICK u : u = peers[p].ours
    OBVIOUS
<1>7. u \in Nat /\ (u # 0 => f[u] = p)
    BY <1>0, <1>6 DEF Types, PeerRecords, Agree, Matches, PeerFits
<1>8. UNCHANGED <<hurt, turn>>
    BY DEF Reaches
<1>9. ASSUME NEW q \in Peers, q # p PROVE Untouched(f, f, q)
    BY <1>1, <1>3, <1>4, <1>9 DEF Untouched
<1>10. CASE m.type = "Continue"
    <2>1. peers[p].state \in {"Sent", "Open"}
        BY <1>4, <1>5, <1>10 DEF Refuses
    <2>2. peers'[p].state = "Open" /\ peers'[p].ours = t
        BY <1>0, <1>2, <1>4, <1>10, <2>1 DEF PeerHears, Types, PeerRecords
    <2>3. PeerFits(f, p)'
        BY <1>3, <1>5, <2>2 DEF PeerFits
    <2>4. ASSUME p \notin hurt PROVE Ends(f, p)'
        <3>1. Ends(f, p)
            BY <2>4 DEF Agree
        <3>2. Closing(p)' <=> Closing(p)
            BY <1>3, <1>10 DEF Closing, Closes
        <3>3. ASSUME NEW x \in OnWire, x.type = "Continue", x.dtid = p
              PROVE  Known(x.otid, p)' \/ Closing(p)'
            <4>1. PICK v : v = x.otid
                OBVIOUS
            <4>2. Known(v, p) \/ Closing(p)
                BY <2>1, <3>1, <3>3, <4>1 DEF Ends, AnswerIsMeant
            <4> QED BY <1>1, <3>2, <4>1, <4>2
        <3>4. AnswerIsMeant(p)'
            BY <1>3, <3>3 DEF AnswerIsMeant
        <3>5. OpenIsServed(p)'
            <4>1. Known(t, p)' \/ Closing(p)'
                BY <1>2, <1>3, <1>4, <1>10, <3>3
            <4>2. PICK v : v = peers'[p].ours
                OBVIOUS
            <4>3. v = t
                BY <2>2, <4>2
            <4> QED BY <4>1, <4>2, <4>3 DEF OpenIsServed
        <3>6. AnswerComes(p)' /\ OverIsLeft(p)'
            BY <2>2 DEF AnswerComes, OverIsLeft
        <3>7. ClosedIsGone(f, p)' /\ NewIsUnknown(f, p)'
            BY <1>1, <1>3, <3>1, <3>2 DEF Ends, ClosedIsGone, NewIsUnknown
        <3> QED BY <3>4, <3>5, <3>6, <3>7 DEF Ends
    <2> QED BY <1>1, <1>3, <1>4, <1>8, <1>9, <2>3, <2>4 DEF Carries
<1>11. CASE m.type # "Continue"
    <2>1. peers'[p].state = "Over" /\ peers'[p].ours = u
        BY <1>0, <1>3, <1>4, <1>6, <1>11 DEF PeerHears, Types, PeerRecords
    <2>2. PeerFits(f, p)'
        BY <1>7, <2>1 DEF PeerFits
    <2>3. ASSUME p \notin hurt PROVE Ends(f, p)'
        <3>1. Ends(f, p)
            BY <2>3 DEF Agree
        <3>2. Closing(p)
            BY <1>3, <1>4, <1>11 DEF Closing, Closes
        <3>3. u # 0 => ~Alive(u)
            BY <1>7, <3>1, <3>2 DEF Ends, ClosedIsGone
        <3>4. OverIsLeft(p)'
            <4>1. PICK v : v = peers'[p].ours
                OBVIOUS
            <4>2. v = u
                BY <2>1, <4>1
            <4> QED BY <1>1, <3>3, <4>1, <4>2 DEF OverIsLeft
        <3>5. AnswerComes(p)' /\ AnswerIsMeant(p)' /\ OpenIsServed(p)'
            BY <2>1 DEF AnswerComes, AnswerIsMeant, OpenIsServed
        <3>6. ClosedIsGone(f, p)' /\ NewIsUnknown(f, p)'
            BY <1>1, <1>3, <3>1, <3>2 DEF Ends, ClosedIsGone, NewIsUnknown
        <3> QED BY <3>4, <3>5, <3>6 DEF Ends
    <2> QED BY <1>1, <1>3, <1>4, <1>8, <1>9, <2>2, <2>3 DEF Carries
<1> QED BY <1>10, <1>11

\* A message that reaches the peer leaves the two ends in agreement.
LEMMA AgreeHears ==
    ASSUME BaseInv, NEW f, Agree(f), PeerReceives
    PROVE  \E g : Agree(g)'
<1>0. Types /\ [Next]_vars
    BY DEF BaseInv, Next, PeerStep
<1>1. PICK m : Hears(m)
    BY <1>0, PeerHearing
<1>2. Reaches(m)
    BY <1>1 DEF Reaches, PeerReceives
<1>3. CASE Refuses(m)
    BY <1>0, <1>2, <1>3, CarriesRefused, AgreeStays
<1>4. CASE ~Refuses(m)
    <2>1. UnderWay' = UnderWay /\ WireFits(f, m)
        BY <1>1, <1>2, <1>4, ReachesHeld DEF Hears
    <2>2. PICK p \in Peers : Hearing(p, m)
        BY <1>1, <1>4, <2>1 DEF Hears, WireFits
    <2>3. \E g : Carries(f, g)
        BY <1>2, <1>4, <2>1, <2>2, CarriesOpened, CarriesHeard
    <2> QED BY <1>0, <2>3, AgreeStays
<1> QED BY <1>3, <1>4

----------------------------------------------------------------------------
(* The two ends agree.                                                     *)

\* The node starts with nothing to agree on.
LEMMA InitAgree == ASSUME Init PROVE \E f : Agree(f)
<1> DEFINE f == [t \in Nat |-> NoPeer]
<1>0. NoPeer \notin Peers /\ f \in Maps /\ \A t \in Nat : f[t] = NoPeer
    BY LanesAssumption DEF Maps
<1>1. OnWire = {} /\ UnderWay = {} /\ DOMAIN store = {}
    BY DEF Init, OnWire, UnderWay, Works
<1>2. \A l \in Threads : turn[l].kind = "None"
    BY DEF Init, NoTurn, Turn
<1>3. \A p \in Peers : peers[p].state = "Idle" /\ peers[p].ours = 0
    BY DEF Init
<1> HIDE DEF f
<1>4. Matches(f)
    <2>1. Pairs(f) /\ Single(f)
        BY <1>0 DEF Pairs, Single
    <2>2. \A p \in Peers : PeerFits(f, p)
        BY <1>0, <1>3 DEF PeerFits
    <2>3. \A t \in Nat, p \in Peers : ~Known(t, p)
        BY <1>1, <1>2 DEF Known, Runs
    <2>4. \A l \in Threads : TurnMatches(f, l)
        BY <1>2 DEF TurnMatches
    <2> QED BY <1>0, <1>1, <2>1, <2>2, <2>3, <2>4 DEF Matches
<1>5. Places(f)
    <2>1. \A l \in Lanes : DOMAIN lanes[l] = {}
        BY DEF Init
    <2> QED BY <1>2, <2>1 DEF Places, TurnPlaced
<1>6. \A p \in Peers : Ends(f, p)
    BY <1>1, <1>3 DEF Ends, AnswerComes, AnswerIsMeant, OpenIsServed, ClosedIsGone, Closing, OverIsLeft, NewIsUnknown
<1> QED BY <1>4, <1>5, <1>6 DEF Agree

\* Every step keeps the two ends in agreement.
LEMMA NextAgree ==
    ASSUME BaseInv, [Next]_vars, NEW f, Agree(f)
    PROVE  \E g : Agree(g)'
<1>1. CASE Dispatch \/ Sweep \/ UNCHANGED vars \/ \E t \in Tids : QueueTimers(t) \/ Elapses(t)
    BY <1>1, AgreeElsewhere
<1>2. ASSUME NEW l \in Lanes, LaneStep(l) PROVE \E g : Agree(g)'
    BY <1>2, AgreeDiscards, AgreeRefuses, AgreeProblem, AgreeUnserved, AgreeBegins, AgreeUnknown, AgreeTurns,
       AgreeAborts, AgreeTimers DEF LaneStep
<1>3. ASSUME NEW l \in Threads, TurnEnds(l) \/ Panics(l) PROVE \E g : Agree(g)'
    BY <1>3, AgreeTurnEnds, AgreePanics
<1>4. CASE Originate \/ Loses
    BY <1>4, AgreeOriginates, AgreeLoses
<1>5. CASE PeerStep
    BY <1>5, AgreeSpeaks, AgreeHears
<1> QED BY <1>1, <1>2, <1>3, <1>4, <1>5 DEF Next

\* What the agreement says of what the peer sees.
LEMMA AgreeSuffices == ASSUME NEW f, Agree(f) PROVE EndsAgree
<1>1. ASSUME NEW p \in Peers, p \notin hurt, NEW t, t = peers[p].ours
      PROVE  /\ peers[p].state = "Sent" =>
                    \/ \E i \in DOMAIN wire : wire[i].dtid = p
                    \/ \E m \in UnderWay : m.otid = p
                    \/ \E l \in Threads : turn[l].kind # "None" /\ turn[l].dlg.peer = p
             /\ peers[p].state = "Open" =>
                    \/ Alive(t) \/ (\E i \in DOMAIN wire : Closes(wire[i], p)) \/ ~peers[p].spoke
                    \/ \E m \in UnderWay : m.otid = p
             /\ peers[p].state = "Over" /\ t # 0 =>
                    \/ ~Alive(t)
                    \/ \E m \in UnderWay : m.dtid = t /\ m.type \in {"End", "Abort"}
                    \/ \E l \in Threads : turn[l].kind = "End" /\ turn[l].dlg.our = t
    <2>1. AnswerComes(p) /\ OpenIsServed(p) /\ OverIsLeft(p)
        BY <1>1 DEF Agree, Ends
    <2>2. peers[p].state = "Sent" =>
              \/ \E i \in DOMAIN wire : wire[i].dtid = p
              \/ \E m \in UnderWay : m.otid = p
              \/ \E l \in Threads : turn[l].kind # "None" /\ turn[l].dlg.peer = p
        BY <2>1 DEF AnswerComes, OnWire, FirstBegin, IsFirst, Awaited
    <2>3. Known(t, p) => Alive(t)
        BY DEF Known, Alive, InTurn, Runs
    <2>4. peers[p].state = "Open" =>
              \/ Alive(t) \/ (\E i \in DOMAIN wire : Closes(wire[i], p)) \/ ~peers[p].spoke
              \/ \E m \in UnderWay : m.otid = p
        BY <1>1, <2>1, <2>3 DEF OpenIsServed, Closing, OnWire
    <2>5. peers[p].state = "Over" /\ t # 0 =>
              \/ ~Alive(t)
              \/ \E m \in UnderWay : m.dtid = t /\ m.type \in {"End", "Abort"}
              \/ \E l \in Threads : turn[l].kind = "End" /\ turn[l].dlg.our = t
        BY <1>1, <2>1 DEF OverIsLeft, Ending
    <2> QED BY <2>2, <2>4, <2>5
<1> QED BY <1>1 DEF EndsAgree, Unhurt

\* The inductive invariant of the agreement: some map of our transactions to the
\* peer's fits all there is.
Agreement == BaseInv /\ \E f : Agree(f)

\* The lanes, the sweep and the peer keep it, whatever they do at the same time, where no message
\* was lost, damaged or dropped unanswered (a segment, or one out of hops that asked for no
\* return) and no handler panicked.
THEOREM EngineAgrees == Spec => []Agreement
<1>1. Init => Agreement
    BY InitTypes, InitShape, InitOwned, InitOnce, InitBound, InitAgree DEF Agreement, BaseInv
<1>2. Agreement /\ [Next]_vars => Agreement'
    <2>1. ASSUME Agreement, [Next]_vars PROVE BaseInv'
        BY <2>1, NextTypes, NextShape, NextMail, NextOwned, NextOnce, NextBound DEF Agreement, BaseInv
    <2>2. ASSUME Agreement, [Next]_vars PROVE (\E f : Agree(f))'
        <3>1. PICK f : Agree(f)
            BY <2>2 DEF Agreement
        <3> QED BY <2>2, <3>1, NextAgree DEF Agreement
    <2> QED BY <2>1, <2>2 DEF Agreement
<1> QED BY <1>1, <1>2, PTL DEF Spec

\* finish_turn, on_turn, on_abort, expire: but for what is under way between them the
\* two ends agree on which dialogues there are, in every transaction that none of those
\* faults has touched.
THEOREM EndsAlwaysAgree == Spec => []EndsAgree
<1>1. Agreement => EndsAgree
    BY AgreeSuffices DEF Agreement
<1> QED BY <1>1, EngineAgrees, PTL

=============================================================================
