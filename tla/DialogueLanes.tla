----------------------------- MODULE DialogueLanes -----------------------------
(***************************************************************************)
(* The dialogue engine on its lanes (dialogue.rs, DialogueEngine, and      *)
(* transport/mod.rs, serve_dialogues and serve_originations).              *)
(*                                                                         *)
(* One task dispatches every inbound message to a lane and once a second   *)
(* claims the dialogues whose timers are due; each lane runs one handler   *)
(* turn at a time on a thread of its own; one more task opens the          *)
(* dialogues this node originates.  A turn takes the dialogue out of the   *)
(* store, runs the handler without the lock, and puts it back or tells the *)
(* handler that it closed, so a turn is two steps here: what the engine    *)
(* does up to the handler, and what it does after it.  Between the two     *)
(* every other task may move.                                              *)
(*                                                                         *)
(* The peer is external: it opens dialogues, answers what it was asked,    *)
(* ends and aborts, and its messages may be damaged, come in segments, or  *)
(* run out of hops.  Messages to it may be lost.  A handler runs any of    *)
(* Scripts, or panics.  Time is abstract: an invocation timer or the idle  *)
(* timer of a stored dialogue may pass at any moment.                      *)
(***************************************************************************)
EXTENDS Dialogue, TLC

CONSTANTS
    Lanes,          \* DIALOGUE_LANES lanes, numbered from 0
    LaneDepth,      \* LANE_DEPTH
    LaneOfPeer,     \* tid_lane modulo the lanes, of the peer's transaction ids
    LaneOfTid,      \* and of ours
    Peers,          \* the peer's transaction ids
    MaxDialogues,   \* max_dialogues
    Scripts,        \* what a handler may do in a turn
    Openings,       \* the Begins a peer may send
    Answering,      \* the components a peer may answer an Invoke with
    Faults,         \* which of "Panic", "Loss", "Damage" happen
    MaxOriginated, MaxPeerMessages, MaxLegs, MaxFaults, MaxLocal   \* bounds

ASSUME LanesAssumption == 0 \in Lanes /\ LaneDepth \in Nat \ {0} /\ NoPeer \notin Peers
ASSUME ScriptsAssumption == Scripts \subseteq Seq(Commands)

VARIABLES
    store,      \* our transaction id -> Record
    counter,    \* tid_counter
    local,      \* the local-delivery channel
    sweeping,   \* claimed dialogues the dispatcher has yet to hand to their lanes
    lanes,      \* lane -> its queue of LaneWork
    turn,       \* thread -> the handler turn it runs
    wire,       \* messages under way to the peer
    peers,      \* the peer's transactions
    told,       \* our transaction id -> how often on_closed was called
    untold,     \* the dialogues with no handler to tell: none was found, or it panicked
    hurt,       \* the transactions of the peer a fault has touched
    spent       \* what has been used of the bounds

vars == <<store, counter, local, sweeping, lanes, turn, wire, peers, told, untold, hurt, spent>>

(* The thread of serve_originations. *)
Origin == -1

Threads == Lanes \cup {Origin}

Tids == 1..(Cardinality(Peers) + MaxOriginated)

(* A thread of serve_originations is none of the lanes. *)
ASSUME LaneOfAssumption ==
    /\ Origin \notin Lanes
    /\ \A p \in Peers : LaneOfPeer[p] \in Lanes
    /\ \A t \in Tids : LaneOfTid[t] \in Lanes

(***************************************************************************)
(* Messages, work and turns.                                               *)
(***************************************************************************)
NoComponents == <<>>

(* How the SCCP brings a message: whole, as a segment, or with its hop counter  *)
(* run out, asked to be returned ("Returnable") or not ("Exhausted").           *)
Forms == {"Unitdata", "Segment", "Exhausted", "Returnable"}

Inbound(type, otid, dtid, components, fault) ==
    [type |-> type, otid |-> otid, dtid |-> dtid, components |-> components,
     fault |-> fault, portion |-> "None", form |-> "Unitdata", served |-> TRUE]

InboundMessages ==
    [type : {"Begin", "Continue", "End", "Abort", "Unidirectional"},
     otid : Peers \cup {NoPeer}, dtid : Nat, components : Seq([kind : Kinds, id : Int]),
     fault : {"None", "Component", "Transaction", "Dialogue", "Unreadable"},
     portion : {"None", "Aarq", "Version", "Abnormal"},
     form : Forms, served : BOOLEAN]

ASSUME OpeningsAssumption == Openings \subseteq InboundMessages /\ Answering \subseteq Kinds

(* A first message names no transaction of this node. *)
ASSUME FirstAssumption == \A o \in Openings : o.dtid = 0

Deliver(m) == [do |-> "Deliver", m |-> m, tid |-> 0]

NoMessage == Inbound("None", NoPeer, 0, NoComponents, "None")

Timers(t) == [do |-> "Timers", m |-> NoMessage, tid |-> t]

Record(d, idle) == [dlg |-> d, idle |-> idle, claimed |-> FALSE]

Turn(kind, d, idle, expired) ==
    [kind |-> kind, dlg |-> d, idle |-> idle, expired |-> expired]

NoTurn == Turn("None", NewDialogue("Responder", 0, NoPeer, FALSE), FALSE, <<>>)

Init ==
    /\ store = <<>>
    /\ counter = 0
    /\ local = <<>>
    /\ sweeping = {}
    /\ lanes = [l \in Lanes |-> <<>>]
    /\ turn = [l \in Threads |-> NoTurn]
    /\ wire = <<>>
    /\ peers = [p \in Peers |-> [state |-> "Idle", ours |-> 0, asked |-> {}, spoke |-> FALSE]]
    /\ told = [t \in Tids |-> 0]
    /\ untold = {}
    /\ hurt = {}
    /\ spent = [origins |-> 0, messages |-> 0, legs |-> 0, faults |-> 0]

(* take: the handler runs with the dialogue out of the store. *)
Removed(t) == [x \in DOMAIN store \ {t} |-> store[x]]

Storing(t, r) == [x \in DOMAIN store \cup {t} |-> IF x = t THEN r ELSE store[x]]

(* A mistake: a Continue goes by the peer's transaction id, like a Begin. *)
LaneByOrigin(m) ==
    IF m.fault # "None" \/ m.type \notin {"Begin", "Continue", "End", "Abort"} THEN 0
    ELSE IF m.type \in {"Begin", "Continue"} THEN LaneOfPeer[m.otid] ELSE LaneOfTid[m.dtid]

(* dialogue_lane: by the transaction id of the dialogue at this node, a Begin *)
(* by the peer's.  What does not decode goes to lane 0.                       *)
DialogueLane(m) ==
    IF m.fault # "None" \/ m.type \notin {"Begin", "Continue", "End", "Abort"} THEN 0
    ELSE IF m.type = "Begin" THEN LaneOfPeer[m.otid] ELSE LaneOfTid[m.dtid]

Room(l) == Len(lanes[l]) < LaneDepth

(***************************************************************************)
(* Sending (send_reply, send_sweep_abort, send_via).  A message there is   *)
(* no live sender or no route for is lost like one lost on the way: Loses. *)
(***************************************************************************)
Sends(messages) == wire' = wire \o messages

PAbort(p, cause) == Message("Abort", 0, p, {}, {}, cause)

(***************************************************************************)
(* The dispatcher.                                                         *)
(***************************************************************************)

(* The dispatcher waits for a lane that is full. *)
Dispatches(l) ==
    /\ sweeping = {} /\ local # <<>>
    /\ DialogueLane(Head(local)) = l /\ Room(l)
    /\ local' = Tail(local)

Dispatch ==
    \E l \in Lanes :
        /\ Dispatches(l)
        /\ lanes' = [lanes EXCEPT ![l] = Append(@, Deliver(Head(local)))]
        /\ UNCHANGED <<untold, store, counter, sweeping, turn, wire, peers, told, hurt, spent>>

IdleExpired(r) == r.idle /\ r.dlg.ages

TimersDue(r) ==
    IdleExpired(r) \/ \E i \in DOMAIN r.dlg.outstanding : r.dlg.outstanding[i].due

Claimable == {t \in DOMAIN store : ~store[t].claimed /\ TimersDue(store[t])}

(* A tick of the sweep: claim_expired claims every dialogue that is due ... *)
Claims ==
    /\ sweeping = {} /\ Claimable # {}
    /\ store' = [t \in DOMAIN store |->
                    [store[t] EXCEPT !.claimed = @ \/ t \in Claimable]]

Sweep ==
    /\ Claims
    /\ sweeping' = Claimable
    /\ UNCHANGED <<untold, counter, local, lanes, turn, wire, peers, told, hurt, spent>>

(* A mistake: the claim stays. *)
KeepsClaim(t) == store

(* ... and each goes to its lane, or is released when the lane is full. *)
Released(t) == [x \in DOMAIN store |-> IF x = t THEN [store[x] EXCEPT !.claimed = FALSE]
                                                ELSE store[x]]

HandsOver(t) == t \in sweeping /\ sweeping' = sweeping \ {t}

QueueTimers(t) ==
    /\ HandsOver(t)
    /\ IF Room(LaneOfTid[t])
       THEN /\ lanes' = [lanes EXCEPT ![LaneOfTid[t]] = Append(@, Timers(t))]
            /\ UNCHANGED store
       ELSE /\ store' = Released(t)
            /\ UNCHANGED lanes
    /\ UNCHANGED <<untold, counter, local, turn, wire, peers, told, hurt, spent>>

(***************************************************************************)
(* A lane takes its next work: what the engine does up to the handler.     *)
(***************************************************************************)
Takes(l) ==
    /\ turn[l].kind = "None" /\ lanes[l] # <<>>
    /\ lanes' = [lanes EXCEPT ![l] = Tail(@)]

Work(l) == Head(lanes[l])

Understood(l, types) ==
    /\ Work(l).do = "Deliver" /\ Work(l).m.form = "Unitdata"
    /\ Work(l).m.type \in types /\ Work(l).m.fault \in {"None", "Component"}

Starts(l, t) == turn' = [turn EXCEPT ![l] = t]

(* The paths of `deliver` that end without an answer. *)
Discards(l) ==
    /\ Takes(l)
    /\ Work(l).do = "Deliver"
    /\ LET m == Work(l).m IN
       \/ m.form = "Segment"
       \/ m.form = "Unitdata" /\ m.fault = "Unreadable"
       \/ Understood(l, {"Unidirectional"})
    /\ UNCHANGED <<untold, store, counter, local, sweeping, turn, wire, peers, told, hurt, spent>>

(* sccp_return: nothing unless it was asked for.  The return of an End or an  *)
(* Abort finds no transaction at the peer any more, and is left out.          *)
ReturnOf(m) ==
    IF m.form = "Returnable" /\ m.otid # NoPeer
    THEN <<Message("Returned", 0, m.otid, {}, {}, "HopCounter")>> ELSE <<>>

(* hop_counter_violation: the engine does not look at the message. *)
ReturnsExhausted(l) ==
    /\ Takes(l)
    /\ Work(l).do = "Deliver" /\ Work(l).m.form \in {"Exhausted", "Returnable"}
    /\ Sends(ReturnOf(Work(l).m))
    /\ UNCHANGED <<untold, hurt, store, counter, local, sweeping, turn, peers, told, spent>>

(* on_problem, of a fault in the transaction or the dialogue portion: an Abort *)
(* for what has an originator, and the transaction here is released.           *)
OnProblem(l) ==
    /\ Takes(l)
    /\ Work(l).do = "Deliver" /\ Work(l).m.form = "Unitdata"
    /\ Work(l).m.fault \in {"Transaction", "Dialogue"}
    /\ LET m == Work(l).m IN
       /\ Sends(IF m.type \in {"Begin", "Continue"} THEN <<PAbort(m.otid, m.fault)>> ELSE <<>>)
       /\ store' = Removed(m.dtid)
       /\ told' = [t \in Tids |-> told[t] + IF t = m.dtid /\ t \in DOMAIN store THEN 1 ELSE 0]
    /\ UNCHANGED <<untold, hurt, counter, local, sweeping, turn, peers, spent>>

(***************************************************************************)
(* on_begin                                                                *)
(***************************************************************************)
Ceiling == Cardinality(DOMAIN store) >= MaxDialogues

Opened(m) ==
    StageReject(ReceiveComponents(NewDialogue("Responder", counter + 1, m.otid, m.portion = "Aarq"),
                                  m.components, FALSE),
                m.fault = "Component", FALSE)

Dispatchable(m) == \E i \in DOMAIN m.components : m.components[i].kind = "Invoke"

(* Room for a transaction is looked at first, then the dialogue portion. *)
Refused(m) == Ceiling \/ m.portion \in {"Version", "Abnormal"}

RefuseBegin(l) ==
    /\ Takes(l)
    /\ Understood(l, {"Begin"}) /\ Refused(Work(l).m)
    /\ Sends(<<PAbort(Work(l).m.otid, IF Ceiling THEN "Resource" ELSE Work(l).m.portion)>>)
    /\ UNCHANGED <<untold, hurt, store, counter, local, sweeping, turn, peers, told, spent>>

(* Nothing to dispatch, or nobody to dispatch it to: the dialogue ends with *)
(* the Rejects there are to send, or is aborted.                            *)
UnservedAnswer(m) ==
    IF ~Dispatchable(m) /\ Opened(m).rejects # {} THEN Flush(Opened(m), TRUE).out
    ELSE AbortAs(Opened(m), "Aborted").out

UnservedBegin(l) ==
    /\ Takes(l)
    /\ Understood(l, {"Begin"})
    /\ LET m == Work(l).m IN
       /\ ~Refused(m) /\ (~Dispatchable(m) \/ ~m.served)
       /\ Sends(UnservedAnswer(m))
    /\ counter' = counter + 1
    /\ untold' = untold \cup {counter + 1}
    /\ UNCHANGED <<hurt, store, local, sweeping, turn, peers, told, spent>>

OnBegin(l) ==
    /\ Takes(l)
    /\ Understood(l, {"Begin"})
    /\ LET m == Work(l).m IN
       /\ ~Refused(m) /\ Dispatchable(m) /\ m.served
       /\ Starts(l, Turn("Begin", Opened(m), FALSE, <<>>))
    /\ counter' = counter + 1
    /\ UNCHANGED <<untold, store, local, sweeping, wire, peers, told, hurt, spent>>

(***************************************************************************)
(* on_turn and on_abort                                                    *)
(***************************************************************************)

(* A Continue for a transaction that does not exist is aborted, an End or an *)
(* Abort is discarded.                                                       *)
Unknown(l) ==
    /\ Takes(l)
    /\ Understood(l, {"Continue", "End", "Abort"})
    /\ LET m == Work(l).m IN
       /\ m.dtid \notin DOMAIN store
       /\ Sends(IF m.type = "Continue" THEN <<PAbort(m.otid, "Unrecognized")>> ELSE <<>>)
    /\ UNCHANGED <<untold, hurt, store, counter, local, sweeping, turn, peers, told, spent>>

(* The dialogue as the handler of a Continue or an End finds it. *)
Received(d, m) ==
    LET isEnd == m.type = "End"
        known == IF m.type = "Continue" /\ d.peer = NoPeer THEN [d EXCEPT !.peer = m.otid] ELSE d
        read  == StageReject(ReceiveComponents(known, m.components, isEnd),
                             m.fault = "Component", isEnd)
    IN IF isEnd THEN [read EXCEPT !.outstanding = <<>>, !.rejects = {}, !.closed = "PeerEnded"]
       ELSE read

OnTurn(l) ==
    /\ Takes(l)
    /\ Understood(l, {"Continue", "End"})
    /\ LET m == Work(l).m IN
       /\ m.dtid \in DOMAIN store
       /\ store' = Removed(m.dtid)
       /\ Starts(l, Turn(m.type, Received(store[m.dtid].dlg, m), FALSE, <<>>))
    /\ UNCHANGED <<untold, counter, local, sweeping, wire, peers, told, hurt, spent>>

OnAbort(l) ==
    /\ Takes(l)
    /\ Understood(l, {"Abort"})
    /\ LET t == Work(l).m.dtid IN
       /\ t \in DOMAIN store
       /\ store' = Removed(t)
       /\ told' = [told EXCEPT ![t] = @ + 1]
    /\ UNCHANGED <<untold, counter, local, sweeping, turn, wire, peers, hurt, spent>>

(***************************************************************************)
(* expire                                                                  *)
(***************************************************************************)
IsTimers(l, t) == Work(l).do = "Timers" /\ Work(l).tid = t

(* Gone, or no longer due: a claim that is left is given back. *)
ExpireNothing(l, t) ==
    /\ Takes(l)
    /\ IsTimers(l, t)
    /\ t \in DOMAIN store => ~TimersDue(store[t])
    /\ store' = Released(t)
    /\ UNCHANGED <<untold, counter, local, sweeping, turn, wire, peers, told, hurt, spent>>

IsDue(o) == o.due

IsWaitedFor(o) == ~o.due

Expire(l, t) ==
    /\ Takes(l)
    /\ IsTimers(l, t)
    /\ t \in DOMAIN store /\ TimersDue(store[t])
    /\ LET d == store[t].dlg IN
       Starts(l, Turn("Timer",
                      [d EXCEPT !.outstanding = Only(@, IsWaitedFor)],
                      IdleExpired(store[t]),
                      Only(d.outstanding, IsDue)))
    /\ store' = Removed(t)
    /\ UNCHANGED <<untold, counter, local, sweeping, wire, peers, told, hurt, spent>>

(***************************************************************************)
(* The handler returns: what the engine does after it.                     *)
(***************************************************************************)

(* The callback of each expired invocation in turn, until one of them closes *)
(* the dialogue; class 4 is silent.                                          *)
TimedOut(d, expired, scripts) ==
    LET after[n \in 0..Len(expired)] ==
            IF n = 0 THEN d
            ELSE IF ~IsOpen(after[n - 1]) \/ expired[n].class = 4 THEN after[n - 1]
            ELSE Run(after[n - 1], scripts[n])
    IN after[Len(expired)]

(* A Begin that was not answered is aborted. *)
Answered(d) == IF d.out = <<>> THEN AbortAs(d, "NoAnswer") ELSE d

Handled(k, scripts) ==
    CASE k.kind = "Begin" -> Answered(Run(k.dlg, scripts[1]))
      [] k.kind = "Timer" ->
            LET d == TimedOut(k.dlg, k.expired, scripts) IN
            IF k.idle THEN AbortAs(d, "IdleTimeout") ELSE d
      [] k.kind = "Start" ->
            LET d == Run(k.dlg, scripts[1]) IN
            IF IsOpen(d) /\ d.out # <<>> THEN d
            ELSE [d EXCEPT !.out = <<>>, !.closed = IF IsOpen(d) THEN "NotSent" ELSE @]
      [] OTHER -> Run(k.dlg, scripts[1])

(* A mistake: a timer turn stores its dialogue back claimed. *)
StillClaimed(k, d) ==
    Storing(d.our, [Record([d EXCEPT !.out = <<>>], k.idle) EXCEPT !.claimed = k.kind = "Timer"])

(* A timer turn that sent nothing is not activity. *)
StoredBack(k, d) ==
    Storing(d.our, Record([d EXCEPT !.out = <<>>], k.kind = "Timer" /\ d.out = <<>> /\ k.idle))

(* A mistake: with nothing to send, nothing more is done. *)
FinishEarly(k, d) ==
    /\ spent' = [spent EXCEPT !.legs = @ + Len(d.out)]
    /\ Sends(d.out)
    /\ IF IsOpen(d)
       THEN store' = StoredBack(k, d) /\ UNCHANGED told
       ELSE told' = [told EXCEPT ![d.our] = IF d.out = <<>> THEN @ ELSE @ + 1] /\ UNCHANGED store

(* finish_turn, and the tails of on_turn (End) and begin. *)
Finish(k, d) ==
    /\ spent' = [spent EXCEPT !.legs = @ + Len(d.out)]
    /\ Sends(d.out)
    /\ IF IsOpen(d)
       THEN store' = StoredBack(k, d) /\ UNCHANGED told
       ELSE told' = [told EXCEPT ![d.our] = @ + 1] /\ UNCHANGED store

Affordable(script) ==
    spent.legs + Cardinality({i \in DOMAIN script : script[i].do \in {"Send", "End"}}) <= MaxLegs

Returns(l) == turn[l].kind # "None" /\ turn' = [turn EXCEPT ![l] = NoTurn]

(* One script per callback of the turn. *)
Callbacks(k) == IF k.kind = "Timer" THEN DOMAIN k.expired ELSE {1}

TurnEnds(l) ==
    /\ Returns(l)
    /\ \E scripts \in [Callbacks(turn[l]) -> {s \in Scripts : Affordable(s)}] :
          Finish(turn[l], Handled(turn[l], scripts))
    /\ UNCHANGED <<untold, hurt, counter, local, sweeping, lanes, peers>>

(* serve_originations: the dialogue is made, and its handler stages the Begin. *)
Originate ==
    /\ turn[Origin].kind = "None" /\ spent.origins < MaxOriginated
    /\ counter' = counter + 1
    /\ Starts(Origin, Turn("Start", NewDialogue("Initiator", counter + 1, NoPeer, TRUE), FALSE, <<>>))
    /\ spent' = [spent EXCEPT !.origins = @ + 1]
    /\ UNCHANGED <<untold, store, local, sweeping, lanes, wire, peers, told, hurt>>

(***************************************************************************)
(* Time: the idle timer and the invocation timers of a stored dialogue.    *)
(***************************************************************************)
IdleElapses(t) ==
    /\ t \in DOMAIN store /\ store[t].dlg.ages /\ ~store[t].idle
    /\ store' = [store EXCEPT ![t].idle = TRUE]

InvokeElapses(t, i) ==
    /\ t \in DOMAIN store /\ i \in DOMAIN store[t].dlg.outstanding
    /\ ~store[t].dlg.outstanding[i].due
    /\ store' = [store EXCEPT ![t].dlg.outstanding[i].due = TRUE]

Elapses(t) ==
    /\ IdleElapses(t) \/ \E i \in 1..(Ring + Negatives) : InvokeElapses(t, i)
    /\ UNCHANGED <<untold, counter, local, sweeping, lanes, turn, wire, peers, told, hurt, spent>>

(***************************************************************************)
(* The peer (external).                                                    *)
(***************************************************************************)
PeerForms == IF "Damage" \in Faults THEN Forms ELSE {"Unitdata"}

PeerFaults == IF "Damage" \in Faults THEN {"None", "Component", "Transaction"} ELSE {"None"}

(* It answers what it was asked, or nothing; a damaged message is damaged in *)
(* its first component or before.                                            *)
PeerSays(p, fault) ==
    {NoComponents} \cup
        IF fault # "None" THEN {}
        ELSE {<<[kind |-> k, id |-> i]>> : k \in Answering, i \in peers[p].asked}

Answers(components) ==
    {components[i].id : i \in {j \in DOMAIN components : Concludes(components[j])}}

(* What this node does not read, or returns.  The return of a Begin ends the  *)
(* peer's transaction, as any answer could; nothing else makes up for it.     *)
Unread(m) == m.form # "Unitdata" /\ ~(m.form = "Returnable" /\ m.type = "Begin")

FaultsOf(p, m) == IF m.fault # "None" \/ Unread(m) THEN {p} ELSE {}

(* A message of the peer's enters the local-delivery channel. *)
PeerSends(p, m, after) ==
    /\ spent.messages < MaxPeerMessages /\ Len(local) < MaxLocal
    /\ FaultsOf(p, m) # {} => spent.faults < MaxFaults
    /\ local' = Append(local, m)
    /\ peers' = [peers EXCEPT ![p] = after]
    /\ hurt' = hurt \cup FaultsOf(p, m)
    /\ spent' = [spent EXCEPT !.messages = @ + 1,
                              !.faults = @ + Cardinality(FaultsOf(p, m))]
    /\ UNCHANGED <<untold, store, counter, sweeping, lanes, turn, wire, told>>

PeerBegins(p) ==
    /\ peers[p].state = "Idle"
    /\ \E o \in Openings :
          /\ o.fault \in PeerFaults
          /\ PeerSends(p, [o EXCEPT !.otid = p],
                       [peers[p] EXCEPT !.state = IF o.type = "Begin" THEN "Sent" ELSE "Over",
                                        !.spoke = TRUE])

PeerContinues(p) ==
    /\ peers[p].state = "Open"
    /\ \E f \in PeerFaults, form \in PeerForms : \E c \in PeerSays(p, f) :
          PeerSends(p, [Inbound("Continue", p, peers[p].ours, c, f) EXCEPT !.form = form],
                    [peers[p] EXCEPT !.spoke = TRUE, !.asked = @ \ Answers(c)])

PeerEnds(p) ==
    /\ peers[p].state = "Open"
    /\ \E f \in PeerFaults, form \in PeerForms : \E c \in PeerSays(p, f) :
          PeerSends(p, [Inbound("End", NoPeer, peers[p].ours, c, f) EXCEPT !.form = form],
                    [peers[p] EXCEPT !.state = "Over"])

PeerAborts(p) ==
    /\ peers[p].state = "Open"
    /\ \E f \in PeerFaults \ {"Component"}, form \in PeerForms :
          PeerSends(p, [Inbound("Abort", NoPeer, peers[p].ours, NoComponents, f)
                           EXCEPT !.form = form],
                    [peers[p] EXCEPT !.state = "Over"])

(* What the peer makes of a message. *)
PeerHears(p, m) ==
    CASE m.type = "Begin" -> [state |-> "Open", ours |-> m.otid, asked |-> m.asks, spoke |-> FALSE]
      [] m.type = "Continue" /\ peers[p].state \in {"Sent", "Open"} ->
            [peers[p] EXCEPT !.state = "Open", !.ours = m.otid, !.asked = @ \cup m.asks]
      [] m.type \in {"End", "Abort", "Returned"} -> [peers[p] EXCEPT !.state = "Over", !.asked = {}]
      [] OTHER -> peers[p]

IdlePeers == {p \in Peers : peers[p].state = "Idle"}

(* It has no transaction for a Begin, or none any more for a Continue. *)
Refuses(m) ==
    \/ m.type = "Begin" /\ IdlePeers = {}
    \/ m.type = "Continue" /\ peers[m.dtid].state = "Over"

PeerReceives ==
    /\ wire # <<>>
    /\ LET m == Head(wire) IN
       IF Refuses(m)
       THEN /\ local' = Append(local, Inbound("Abort", NoPeer, m.otid, NoComponents, "None"))
            /\ UNCHANGED peers
       ELSE /\ \E p \in IF m.type = "Begin" THEN IdlePeers ELSE {m.dtid} :
                  peers' = [peers EXCEPT ![p] = PeerHears(p, m)]
            /\ UNCHANGED local
    /\ wire' = Tail(wire)
    /\ UNCHANGED <<untold, store, counter, sweeping, lanes, turn, told, hurt, spent>>

(***************************************************************************)
(* Faults: a handler that panics takes its dialogue with it, untold; a     *)
(* message to the peer is lost.                                            *)
(***************************************************************************)
Faulty(f) == f \in Faults /\ spent.faults < MaxFaults

Panics(l) ==
    /\ Faulty("Panic")
    /\ Returns(l)
    /\ hurt' = hurt \cup {turn[l].dlg.peer}
    /\ untold' = untold \cup {turn[l].dlg.our}
    /\ spent' = [spent EXCEPT !.faults = @ + 1]
    /\ UNCHANGED <<store, counter, local, sweeping, lanes, wire, peers, told>>

Loses ==
    /\ Faulty("Loss") /\ wire # <<>>
    /\ hurt' = hurt \cup {Head(wire).dtid}
    /\ wire' = Tail(wire)
    /\ spent' = [spent EXCEPT !.faults = @ + 1]
    /\ UNCHANGED <<untold, store, counter, local, sweeping, lanes, turn, peers, told>>

-------------------------------------------------------------------------------

LaneStep(l) ==
    \/ Discards(l) \/ ReturnsExhausted(l) \/ OnProblem(l)
    \/ RefuseBegin(l) \/ UnservedBegin(l) \/ OnBegin(l)
    \/ Unknown(l) \/ OnTurn(l) \/ OnAbort(l)
    \/ \E t \in Tids : ExpireNothing(l, t) \/ Expire(l, t)

PeerStep == \/ \E p \in Peers : PeerBegins(p) \/ PeerContinues(p) \/ PeerEnds(p) \/ PeerAborts(p)
            \/ PeerReceives

Next ==
    \/ Dispatch \/ Sweep
    \/ \E t \in Tids : QueueTimers(t) \/ Elapses(t)
    \/ \E l \in Lanes : LaneStep(l)
    \/ \E l \in Threads : TurnEnds(l) \/ Panics(l)
    \/ Originate
    \/ PeerStep
    \/ Loses

(* The tasks run, a handler returns, and the idle timer of a dialogue runs out. *)
Fairness ==
    /\ \A l \in Lanes : WF_local(Dispatches(l)) /\ WF_lanes(Takes(l))
    /\ \A l \in Threads : WF_turn(Returns(l))
    /\ WF_store(Claims)
    /\ \A t \in Tids : WF_sweeping(HandsOver(t)) /\ WF_store(IdleElapses(t))

Spec == Init /\ [][Next]_vars /\ Fairness

-------------------------------------------------------------------------------

InTurn(t) == \E l \in Threads : turn[l].kind # "None" /\ turn[l].dlg.our = t

Alive(t) == t \in DOMAIN store \/ InTurn(t)

Works == UNION {{lanes[l][i] : i \in DOMAIN lanes[l]} : l \in Lanes}

UnderWay == {local[i] : i \in DOMAIN local} \cup {w.m : w \in {v \in Works : v.do = "Deliver"}}

(* A handler that was given a dialogue is told that it closed exactly once,   *)
(* when the engine no longer has it, on every path: the peer's End or Abort,  *)
(* its own End or Abort, a refusal, a damaged message, a timer, and whatever  *)
(* two lanes and the sweep do at the same time (`closed`).  Nobody is told of *)
(* a Begin that found no handler, and a handler that panicked is not.         *)
ToldOnce ==
    \A t \in Tids :
        told[t] = IF t > counter \/ Alive(t) \/ t \in untold THEN 0 ELSE 1

(* A dialogue that is claimed is on its way to `expire`: the sweep holds it,  *)
(* or its Timers work waits on its lane.  A claim that outlived its work      *)
(* would keep the dialogue from being aged for ever.                          *)
ClaimIsQueued ==
    \A t \in DOMAIN store :
        store[t].claimed => t \in sweeping \/ Timers(t) \in Works

Closes(m, p) == m.dtid = p /\ m.type \in {"End", "Abort", "Returned"}

Unhurt(p) == p \notin hurt

(* The two ends agree on which dialogues there are, but for what is under     *)
(* way between them: the peer never waits for an answer to its Begin that     *)
(* nobody will send, nor keeps a dialogue that this node has dropped without  *)
(* an End or Abort on its way; and this node never keeps one that the peer    *)
(* has ended.  The code does not see to it, and so the transaction is left    *)
(* out, where a message of it was lost or damaged, a handler panicked in it,  *)
(* or `deliver` dropped a message without an answer: a segment, or one that   *)
(* ran out of hops, unless it was a Begin that asked to be returned.          *)
EndsAgree ==
    \A p \in Peers : Unhurt(p) =>
        LET t == peers[p].ours
            news == \E i \in DOMAIN wire : wire[i].dtid = p
            closing == \E i \in DOMAIN wire : Closes(wire[i], p)
        IN CASE peers[p].state = "Sent" ->
                  news \/ (\E m \in UnderWay : m.otid = p)
                       \/ (\E l \in Threads : turn[l].kind # "None" /\ turn[l].dlg.peer = p)
             [] peers[p].state = "Open" ->
                  Alive(t) \/ closing \/ ~peers[p].spoke \/ (\E m \in UnderWay : m.otid = p)
             [] peers[p].state = "Over" /\ t # 0 ->
                  \/ ~Alive(t)
                  \/ \E m \in UnderWay : m.dtid = t /\ m.type \in {"End", "Abort"}
                  \/ \E l \in Threads : turn[l].kind = "End" /\ turn[l].dlg.our = t
             [] OTHER -> TRUE

(* The sweep leaves no dialogue behind: one with an idle timer is closed in   *)
(* the end, whatever the peer and the handler do and however full its lane is.*)
EveryDialogueEnds == <>[](\A t \in DOMAIN store : ~store[t].dlg.ages)

===============================================================================
