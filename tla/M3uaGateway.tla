---------------------------- MODULE M3uaGateway ----------------------------
(***************************************************************************)
(* A signalling gateway and its ASPs: the tasks of src/transport/m3ua.rs   *)
(* and src/transport/mod.rs around the machine of Aspm.                    *)
(*                                                                         *)
(*   - an association is accepted, waits for its slot, and is served by a  *)
(*     task of its own (admit, run_sg, Peer::run), which hands what the    *)
(*     ASP asks to the layer and waits until that was acted on (submit);   *)
(*   - the layer (run_layer, serve, perform) is one task.  It carries out  *)
(*     the actions of the machine one after another, and every other task  *)
(*     runs between two of them;                                           *)
(*   - traffic for a server is sent by tasks of its own (forward.rs,       *)
(*     send_now), which read flags and states one at a time.               *)
(*                                                                         *)
(* The ASPs are free: they ask for anything at any time, and lose their    *)
(* associations.  A task may also end without running to its end (a panic  *)
(* in what it calls), which Occupancy::drop is written for.                *)
(***************************************************************************)
EXTENDS Aspm, AssocSlot, AsRegistry

CONSTANTS
    Rules,       \* Rules[asp]: whom the association of an ASP accepts
    Presented,   \* Presented[x]: the addresses and ports of a peer
    ServerOf,    \* ServerOf[m]: the server a message is routed to
    Sls,         \* Sls[m]: its selection code
    Actives,     \* the modes and contexts an ASP asks to be active with
    Inactives    \* the contexts it asks to be inactive in

\* Whoever is accepted is an ASP this node is the gateway of: both are the
\* associations of role Server.
ASSUME RulesAssumption == DOMAIN Rules \subseteq Gateway

VARIABLES
    machine,     \* Layer::machine
    todo,        \* the actions the layer has still to perform
    client,      \* the association that waits for them (Request::done)
    requests,    \* the channel to the layer
    deadlines,   \* the servers whose T(r) runs
    entries,     \* entries[s]: the registry's entry of a server
    slots,       \* slots[asp]
    task,        \* task[x]: where the task of an association stands
    fate,        \* fate[m]: where a message stands, "Free" before it comes and after it went
    said,        \* the pairs <<x, s>>: x asked to be active in s and got, or was due, an answer
    told         \* told[a][s]: the last state of s that ASP a was notified of since it is up,
                 \* or "NotSent" if the last Notify about it was given up

layer == <<machine, todo, client, deadlines>>
transfer == <<fate>>
vars == <<layer, requests, entries, slots, task, transfer, said, told>>

DoorOf(x) == Admit(Rules, Presented[x]).door

\* The layer waits for its next event.
Idle == todo = <<>> /\ client = NoAssoc

Init ==
    /\ machine = NewMachine
    /\ todo = <<>>
    /\ client = NoAssoc
    /\ requests = <<>>
    /\ deadlines = {}
    /\ entries = [s \in Servers |-> NewEntry]
    /\ slots = [a \in Asps |-> EmptySlot]
    /\ task = [x \in Assoc |-> "None"]
    /\ fate = [m \in Msu |-> "Free"]
    /\ said = {}
    /\ told = [a \in Asps |-> [s \in Servers |-> "Down"]]

----------------------------------------------------------------------------
(* An association.                                                         *)

AtTask(x, at, then) == task[x] = at /\ task' = [task EXCEPT ![x] = then]

\* admit: a peer no rule takes is refused, and nothing it sent is read.
Accept(x) ==
    /\ AtTask(x, "None", IF DoorOf(x) = 0 THEN "None" ELSE "Knocks")
    /\ UNCHANGED <<layer, requests, entries, slots, transfer, said, told>>

\* The loop of admit: the slot is taken, or its vacation awaited.
Knock(x) ==
    LET slot == slots[DoorOf(x)]
    IN  /\ task[x] = "Knocks"
        /\ AtTask(x, "Knocks", IF Occupied(slot) THEN "Listens" ELSE "Holds")
        /\ slots' = IF Occupied(slot) THEN slots
                    ELSE [slots EXCEPT ![DoorOf(x)] = Occupy(slot, x)]
        /\ UNCHANGED <<layer, requests, entries, transfer, said, told>>

Listen(x) ==
    LET slot == slots[DoorOf(x)]
    IN  /\ task[x] = "Listens"
        /\ AtTask(x, "Listens", IF slot.permit THEN "Knocks" ELSE "Waits")
        /\ slots' = [slots EXCEPT ![DoorOf(x)] = Await(slot, x)]
        /\ UNCHANGED <<layer, requests, entries, transfer, said, told>>

\* HANDOVER passed while another association had the slot.
HandoverPasses(x) ==
    /\ AtTask(x, "Waits", "Gone")
    /\ slots' = [slots EXCEPT ![DoorOf(x)] = GiveUp(@, x)]
    /\ UNCHANGED <<layer, requests, entries, transfer, said, told>>

QuiesceSlot(x) ==
    /\ AtTask(x, "Holds", "Quiet")
    /\ entries' = [s \in Servers |-> Quiesce(entries[s], DoorOf(x))]
    /\ UNCHANGED <<layer, requests, slots, transfer, said, told>>

\* submit: the request waits in the channel.  What it asks is decided when the
\* layer takes it (Request), since nothing looks at it before.
Submit(x) == requests' = Append(requests, x)

\* A mistake: what the association before left in the machine is kept.
BeginKeepingState(x) ==
    /\ AtTask(x, "Quiet", "Serves")
    /\ slots' = [slots EXCEPT ![DoorOf(x)] = SetSender(@, x)]
    /\ UNCHANGED <<layer, requests, entries, transfer, said, told>>

\* set_sender, and run_sg: the state of the association before is reported lost.
Begin(x) ==
    /\ AtTask(x, "Quiet", "Begins")
    /\ slots' = [slots EXCEPT ![DoorOf(x)] = SetSender(@, x)]
    /\ Submit(x)
    /\ UNCHANGED <<layer, entries, transfer, said, told>>

\* Peer::received and asp_asked.  Whatever the ASP asks for is submitted while
\* the slot is this association's; the task of a superseded one just ends.
Receive(x) ==
    /\ task[x] = "Serves"
    /\ IF IsSender(slots[DoorOf(x)], x)
       THEN AtTask(x, "Serves", "Asks") /\ Submit(x)
       ELSE AtTask(x, "Serves", "Leaves") /\ UNCHANGED requests
    /\ UNCHANGED <<layer, entries, slots, transfer, said, told>>

\* The association ended: the peer or the network ended it, or two intervals
\* of T(beat) passed in silence.
End(x) ==
    LET slot == slots[DoorOf(x)]
    IN  /\ task[x] = "Serves"
        /\ IF IsSender(slot, x)
           THEN /\ AtTask(x, "Serves", "Ends")
                /\ slots' = [slots EXCEPT ![DoorOf(x)] = ClearSender(slot)]
                /\ Submit(x)
           ELSE AtTask(x, "Serves", "Leaves") /\ UNCHANGED <<slots, requests>>
        /\ UNCHANGED <<layer, entries, transfer, said, told>>

\* The task dies in something it calls, and only its Occupancy is dropped.
Die(x) ==
    /\ AtTask(x, "Serves", "Leaves")
    /\ UNCHANGED <<layer, requests, entries, slots, transfer, said, told>>

\* Occupancy::drop.  The one it wakes tries the slot again.
Leave(x) ==
    /\ task[x] = "Leaves"
    /\ \E slot \in Vacate(slots[DoorOf(x)], x) :
        /\ task' = [y \in Assoc |->
                       IF y = x THEN "Gone"
                       ELSE IF y \in slots[DoorOf(x)].waiting \ slot.waiting THEN "Knocks"
                       ELSE task[y]]
        /\ slots' = [slots EXCEPT ![DoorOf(x)] = slot]
        /\ said' = {p \in said : p[1] # x}
        /\ UNCHANGED <<layer, requests, entries, transfer, told>>

----------------------------------------------------------------------------
(* The layer.                                                              *)

\* The machine takes an input.  Timers are the layer's own and are not looked
\* at before it is idle again: they are started and stopped at once.
Accepts(input) ==
    LET after        == Handle(machine, input)
        Timers(what) == {after.out[i].server : i \in
                            {j \in 1 .. Len(after.out) : after.out[j].do = what}}
        Visible(act) == act.do \in {"Send", "Asp", "Server"}
    IN  /\ machine' = [after EXCEPT !.out = <<>>]
        /\ todo' = Only(after.out, Visible)
        /\ deadlines' = ((deadlines \ Timers("Stop")) \cup Timers("Start"))
                            \ (IF input.kind = "Timeout" THEN {input.server} ELSE {})
        /\ told' = [a \in Asps |-> IF a \in after.up THEN told[a]
                                   ELSE [s \in Servers |-> "Down"]]

\* What an ASP may ask: Actives is a set of pairs of a mode and contexts.
Asked(x) ==
    LET asp == DoorOf(x)
    IN  [kind : {"Up", "Down"}, asp : {asp}]
        \cup {[kind |-> "Active", asp |-> asp, mode |-> p[1], contexts |-> p[2]] : p \in Actives}
        \cup [kind : {"Inactive"}, asp : {asp}, contexts : Inactives]

\* What the task of an association submits: what its ASP asked, or that the
\* association before it, or its own, is lost.
Request(x) == IF task[x] = "Asks" THEN Asked(x) ELSE {[kind |-> "Lost", asp |-> DoorOf(x)]}

\* Layer::serve.
Serve ==
    /\ Idle
    /\ requests # <<>>
    /\ \E input \in Request(Head(requests)) : Accepts(input)
    /\ client' = Head(requests)
    /\ requests' = Tail(requests)
    /\ UNCHANGED <<entries, slots, task, transfer, said>>

\* T(r) of a server ran out.
Timeout(s) ==
    /\ Idle
    /\ s \in deadlines
    /\ Accepts([kind |-> "Timeout", server |-> s])
    /\ UNCHANGED <<client, requests, entries, slots, task, transfer, said>>

\* perform: the action at the head of todo.
Performs(what) == todo # <<>> /\ Head(todo).do = what /\ todo' = Tail(todo)

\* The messages at the head of todo go out one by one, each to the association
\* its slot has; one that has none is not told.  Any of them may be given up
\* (send_management: SEND_WAIT passed, or SCTP refused it), which changes nothing
\* else.  They are one step: a task that runs between two of them can only take
\* away an association.
PerformSend ==
    /\ todo # <<>> /\ Head(todo).do = "Send"
    /\ LET n       == CHOOSE i \in 1 .. Len(todo) :
                          /\ \A j \in 1 .. i : todo[j].do = "Send"
                          /\ i < Len(todo) => todo[i + 1].do # "Send"
           To(a, s) == {i \in 1 .. n : /\ todo[i].asp = a
                                       /\ todo[i].message \in StateNotices
                                       /\ s \in todo[i].about}
           Last(I)  == CHOOSE i \in I : \A j \in I : j <= i
       IN  /\ \E notSent \in SUBSET (1 .. n) :
                 told' = [a \in Asps |-> [s \in Servers |->
                             IF To(a, s) = {} \/ slots[a].sender = NoAssoc THEN told[a][s]
                             ELSE IF Last(To(a, s)) \in notSent THEN "NotSent"
                             ELSE StateIn(todo[Last(To(a, s))].message)]]
           /\ said' = said \cup UNION {{client} \X todo[i].about :
                                           i \in {j \in 1 .. n : todo[j].message = "ActiveAck"}}
           /\ todo' = SubSeq(todo, n + 1, Len(todo))
    /\ UNCHANGED <<machine, client, deadlines, requests, entries, slots, task, transfer>>

PerformAsp ==
    /\ Performs("Asp")
    /\ LET act == Head(todo)
       IN  entries' = [entries EXCEPT ![act.server] =
                           SetAspActive(@, act.asp, act.state = "Active")]
    /\ UNCHANGED <<machine, client, deadlines, requests, slots, task, transfer, said, told>>

\* set_server_state: first the state ...
PerformServer ==
    /\ todo # <<>> /\ Head(todo).do = "Server"
    /\ LET act == Head(todo)
       IN  /\ entries' = [entries EXCEPT ![act.server] = StoreState(@, act.state)]
           /\ todo' = <<[act EXCEPT !.do = "Take"]>> \o Tail(todo)
    /\ UNCHANGED <<machine, client, deadlines, requests, slots, task, transfer, said, told>>

\* ... then the queue, which is sent when the server is active and dropped
\* otherwise.  Routing follows before anything of it is sent.
PerformTake ==
    /\ todo # <<>> /\ Head(todo).do = "Take"
    /\ LET s      == Head(todo).server
           queued == IF TakesQueue(entries[s]) THEN entries[s].pending ELSE <<>>
           taken  == IF TakesQueue(entries[s]) THEN TakeQueue(entries[s]) ELSE entries[s]
       IN  /\ entries' = [entries EXCEPT ![s] = Recompute(taken)]
           /\ IF entries[s].state = "Active"
              THEN /\ todo' = [i \in 1 .. Len(queued) |->
                                  [do |-> "Flush", msu |-> queued[i]]] \o Tail(todo)
                   /\ UNCHANGED fate
              ELSE /\ todo' = Tail(todo)
                   /\ fate' = [m \in Msu |-> IF \E i \in 1 .. Len(queued) : queued[i] = m
                                             THEN "Free" ELSE fate[m]]
    /\ UNCHANGED <<machine, client, deadlines, requests, slots, task, said, told>>

\* Everything was done: the task that asked goes on.
Done ==
    /\ todo = <<>>
    /\ client # NoAssoc
    /\ client' = NoAssoc
    /\ task' = [task EXCEPT ![client] = IF @ = "Ends" THEN "Leaves" ELSE "Serves"]
    /\ entries' = [s \in Servers |-> Recompute(entries[s])]
    /\ UNCHANGED <<machine, todo, deadlines, requests, slots, transfer, said, told>>

----------------------------------------------------------------------------
(* Traffic for a server.                                                   *)

\* The members of a server that take traffic.
Carrying(s) == {a \in entries[s].active : slots[a].sender # NoAssoc}

Chosen(m) == Choose(Mode[ServerOf[m]], Carrying(ServerOf[m]), Sls[m])

Goes(m, from, to) == fate[m] = from /\ fate' = [fate EXCEPT ![m] = to]

Unmoved == UNCHANGED <<layer, requests, slots, task, said, told>>

\* A message that has no route is counted and dropped.
Route(m) ==
    /\ Goes(m, "Free", IF entries[ServerOf[m]].up THEN "Routed" ELSE "Free")
    /\ Unmoved /\ UNCHANGED entries

\* send_now: sent to those chosen, or to be queued when nothing carries.  select
\* asks for the association of each once more, after all flags were read; if it
\* has ended the message is dropped, which is "Free" as well.
Select(m) ==
    /\ Goes(m, "Routed", IF Chosen(m) # {} THEN "Free" ELSE "Unselected")
    /\ Unmoved /\ UNCHANGED entries

\* queue_if_pending: the state is looked at ...
LookAtState(m) ==
    /\ Goes(m, "Unselected", IF entries[ServerOf[m]].state = "Pending" THEN "Pending" ELSE "Free")
    /\ Unmoved /\ UNCHANGED entries

\* ... and once more under the lock of the queue.  A message that finds no
\* egress, or the queue full, is counted and dropped.
Enqueue(m) ==
    LET entry == entries[ServerOf[m]]
        taken == StillPending(entry) /\ ~Full(entry)
    IN  /\ Goes(m, "Pending", IF taken THEN "Queued" ELSE "Free")
        /\ entries' = IF taken THEN [entries EXCEPT ![ServerOf[m]] = Push(entry, m)] ELSE entries
        /\ Unmoved

\* The layer sends what was queued to those chosen now, if there are any.
Flush ==
    /\ Performs("Flush")
    /\ LET m == Head(todo).msu
       IN  Goes(m, "Queued", "Free")
    /\ UNCHANGED <<machine, client, deadlines, requests, entries, slots, task, said, told>>

----------------------------------------------------------------------------
Association(x) ==
    \/ Knock(x) \/ Listen(x) \/ QuiesceSlot(x) \/ Begin(x) \/ Leave(x)

Layer == \/ Serve \/ PerformSend \/ PerformAsp \/ PerformServer
         \/ PerformTake \/ Flush \/ Done

Traffic(m) == Route(m) \/ Select(m) \/ LookAtState(m) \/ Enqueue(m)

Next ==
    \/ \E x \in Assoc : \/ Accept(x) \/ HandoverPasses(x) \/ End(x) \/ Die(x)
                        \/ Association(x) \/ Receive(x)
    \/ Layer
    \/ \E s \in Servers : Timeout(s)
    \/ \E m \in Msu : Traffic(m)

Spec == Init /\ [][Next]_vars

----------------------------------------------------------------------------
(* Properties.                                                             *)

\* admit waits for vacated after it found the slot taken: however the two race,
\* and whoever else comes first, a task never waits beside a free slot without
\* a wake-up on its way.
NoLostWakeUp ==
    \A a \in Asps : ~Occupied(slots[a]) /\ slots[a].waiting # {} =>
        \E x \in Assoc : DoorOf(x) = a /\ task[x] = "Knocks"

\* quiesce: an association "becomes an egress when its peer has said so, never
\* by being accepted".  An association is an egress only after it has itself
\* asked for it and the acknowledgement was its turn to be sent, whatever the one
\* before it left behind.
OnlyWhoAsked ==
    \A s \in Servers, a \in Asps : a \in Carrying(s) => <<slots[a].sender, s>> \in said

\* When the layer has done everything, the transfer path sees what the machine
\* decided: states, flags of those that are there to be sent to, routes and the
\* timer of every server that waits.
TransferPathFollows ==
    Idle =>
        /\ deadlines = {s \in Servers : machine.state[s] = "Pending"}
        /\ \A s \in Servers :
            /\ entries[s].state = machine.state[s]
            /\ entries[s].up <=> machine.state[s] \in {"Active", "Pending"}
            /\ Carrying(s) \subseteq ActiveIn(machine, s)
            /\ \A x \in Assoc : task[x] = "Serves" /\ DoorOf(x) \in ActiveIn(machine, s) =>
                   DoorOf(x) \in Carrying(s)

\* set_server_state: "a message is either in what is returned here, or sees the
\* new state and is not queued".  Nothing stays in a queue nobody will take.
NothingIsStranded ==
    \A s \in Servers : entries[s].pending # <<>> =>
        \/ entries[s].state = "Pending"
        \/ todo # <<>> /\ Head(todo).do = "Take" /\ Head(todo).server = s

\* "every change of the state of a server is told to its ASPs that are not
\* down ...; an ASP that comes up is told the state the server is in."  The last
\* Notify an ASP got is about the state the server is in, unless it was given up
\* itself: nobody repeats it before the server changes its state again.
EveryUpAspKnows ==
    Idle => \A x \in Assoc, s \in Servers :
        /\ task[x] = "Serves"
        /\ DoorOf(x) \in machine.up \cap Member[s]
        /\ machine.state[s] # "Down"
        => told[DoorOf(x)][s] \in {machine.state[s], "NotSent"}

\* The server the abstract specification is checked for.
Watched == 1

AS == INSTANCE ApplicationServer WITH
    Members     <- Member[Watched],
    N           <- Required[Watched],
    Override    <- (Mode[Watched] = "Override"),
    HasRecovery <- Recovers[Watched],
    asp         <- [a \in Member[Watched] |-> AspStateIn(machine, a, Watched)],
    as          <- machine.state[Watched]

\* Whatever the ASPs ask and however their associations come and go, every
\* server (Watched stands for each) moves along the arrows of Figure 4.
FollowsFigure4 == AS!Spec
=============================================================================
