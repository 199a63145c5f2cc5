------------------------- MODULE M3uaGatewayProofs -------------------------
(***************************************************************************)
(* Proofs about M3uaGateway.                                               *)
(***************************************************************************)
EXTENDS M3uaGateway, AspmProofs

----------------------------------------------------------------------------
(* Slots and the tasks of associations.                                    *)

TaskState == {"None", "Knocks", "Listens", "Waits", "Holds", "Quiet", "Begins", "Serves",
              "Asks", "Ends", "Leaves", "Gone"}

\* Between taking a slot and dropping its Occupancy.
Holding == {"Holds", "Quiet", "Begins", "Serves", "Asks", "Ends", "Leaves"}

\* Waiting for the layer, in submit.
Submitted == {"Begins", "Asks", "Ends"}

TypesOfSlots == slots \in [Asps -> Slot] /\ task \in [Assoc -> TaskState]

Doors == \A x \in Assoc : task[x] # "None" => DoorOf(x) \in Asps

Waiters == \A a \in Asps, x \in Assoc :
    x \in slots[a].waiting <=> task[x] = "Waits" /\ DoorOf(x) = a

Permits == \A a \in Asps : slots[a].permit => slots[a].waiting = {}

Occupants == \A a \in Asps, x \in Assoc :
    slots[a].occupant = x <=> task[x] \in Holding /\ DoorOf(x) = a

Senders == \A a \in Asps, x \in Assoc :
    /\ slots[a].sender = x => slots[a].occupant = x
    /\ slots[a].occupant = x /\ task[x] \in {"Begins", "Serves", "Asks"} => slots[a].sender = x
    /\ slots[a].occupant = x /\ task[x] \in {"Holds", "Quiet", "Ends"} => slots[a].sender = NoAssoc

\* A task that found the slot taken is about to be woken up, or to find the
\* permit, whenever the slot is free.
WakeUps == \A a \in Asps :
    /\ ~Occupied(slots[a])
    /\ \E x \in Assoc : DoorOf(x) = a /\ task[x] \in {"Listens", "Waits"}
    => \/ slots[a].permit
       \/ \E x \in Assoc : DoorOf(x) = a /\ task[x] = "Knocks"

\* Those whose request the layer has, or is carrying out, wait for it.
Submissions ==
    /\ requests \in Seq(Assoc)
    /\ client \in Assoc \cup {NoAssoc}
    /\ client # NoAssoc => task[client] \in Submitted
    /\ \A i \in 1 .. Len(requests) : task[requests[i]] \in Submitted /\ requests[i] # client
    /\ \A i, j \in 1 .. Len(requests) : requests[i] = requests[j] => i = j

SlotInv == /\ TypesOfSlots /\ Doors /\ Waiters /\ Permits /\ Occupants /\ Senders /\ WakeUps
           /\ Submissions

\* DoorOf finds a slot or none.
LEMMA DoorIsSlot ==
    ASSUME NEW x
    PROVE  DoorOf(x) \in Asps \cup {0}
<1> DEFINE taking == {i \in DOMAIN Rules : Takes(Rules[i], Presented[x])}
<1>1. taking \in SUBSET Nat /\ taking \subseteq Asps
    <2>1. \A a \in Asps : a \in Nat
        BY LayoutAssumption, FS_CardinalityType
    <2>2. Gateway \subseteq Asps
        BY LayoutAssumption
    <2> QED BY <2>1, <2>2, RulesAssumption
<1>2. taking # {} => (CHOOSE i \in taking : \A j \in taking : i <= j) \in taking
    <2> HIDE DEF taking
    <2> QED BY <1>1, LeastElement
<1>3. DoorOf(x) \in {0, CHOOSE i \in taking : \A j \in taking : i <= j}
    <2>1. Presented[x] = {} => DoorOf(x) = 0
        BY DEF DoorOf, Admit
    <2>2. Presented[x] # {} /\ taking = {} => DoorOf(x) = 0
        BY DEF DoorOf, Admit
    <2>3. Presented[x] # {} /\ taking # {} =>
              DoorOf(x) = CHOOSE i \in taking : \A j \in taking : i <= j
        BY DEF DoorOf, Admit
    <2> QED BY <2>1, <2>2, <2>3
<1>4. taking = {} => DoorOf(x) = 0
    BY DEF DoorOf, Admit
<1> QED BY <1>1, <1>2, <1>3, <1>4

----------------------------------------------------------------------------
(* Every action keeps SlotInv.                                             *)

\* What SlotInv speaks of is not touched.
LEMMA SlotsUntouched ==
    SlotInv /\ UNCHANGED <<slots, task, requests, client>> => SlotInv'
BY DEF SlotInv, TypesOfSlots, Doors, Waiters, Permits, Occupants, Senders, WakeUps, Submissions

\* Before anyone is accepted.
LEMMA InitSlots == Init => SlotInv
<1> SUFFICES ASSUME Init PROVE SlotInv
    OBVIOUS
<1> USE NoAssocAssumption DEF Init, EmptySlot
<1>1. TypesOfSlots
    BY DEF TypesOfSlots, Slot, TaskState
<1>2. Doors /\ Waiters /\ Permits /\ WakeUps
    BY DEF Doors, Waiters, Permits, WakeUps
<1>3. Occupants /\ Senders
    BY DEF Occupants, Senders, Holding
<1>4. Submissions
    BY DEF Submissions
<1> QED BY <1>1, <1>2, <1>3, <1>4 DEF SlotInv

\* A task that is accepted goes to the slot of its ASP.
LEMMA AcceptKeepsSlots ==
    ASSUME SlotInv, NEW x \in Assoc, Accept(x)
    PROVE  SlotInv'
<1>0. DoorOf(x) \in Asps \cup {0} /\ 0 \notin Asps
    BY DoorIsSlot, LayoutAssumption, FS_CardinalityType
<1> USE DEF SlotInv, Accept, AtTask, layer
<1>1. task' = task \/ task' = [task EXCEPT ![x] = "Knocks"]
    BY DEF TypesOfSlots
<1>2. TypesOfSlots'
    BY <1>1 DEF TypesOfSlots, TaskState
<1>3. Doors'
    BY <1>0 DEF Doors, TypesOfSlots
<1>4. Waiters' /\ Permits' /\ Occupants' /\ Senders'
    BY <1>1 DEF Waiters, Permits, Occupants, Senders, Holding, TypesOfSlots
<1>5. WakeUps'
    BY <1>1 DEF WakeUps, TypesOfSlots
<1>6. Submissions'
    BY <1>1 DEF Submissions, Submitted, TypesOfSlots
<1> QED BY <1>2, <1>3, <1>4, <1>5, <1>6

\* A free slot is taken; a task that finds it taken is about to wait.
LEMMA KnockKeepsSlots ==
    ASSUME SlotInv, NEW x \in Assoc, Knock(x)
    PROVE  SlotInv'
<1> USE NoAssocAssumption DEF SlotInv, AtTask, layer
<1>0. DoorOf(x) \in Asps
    BY DEF Doors, Knock
<1>1. CASE Occupied(slots[DoorOf(x)])
    <2>1. task' = [task EXCEPT ![x] = "Listens"] /\ UNCHANGED <<slots, requests, client>>
        BY <1>1 DEF Knock
    <2>2. TypesOfSlots' /\ Doors'
        BY <1>0, <2>1 DEF TypesOfSlots, TaskState, Doors
    <2>3. Waiters' /\ Permits' /\ Occupants' /\ Senders'
        BY <2>1 DEF Waiters, Permits, Occupants, Senders, Holding, TypesOfSlots, Knock
    <2>4. WakeUps'
        BY <1>1, <2>1 DEF WakeUps, TypesOfSlots
    <2>5. Submissions'
        BY <2>1 DEF Submissions, Submitted, TypesOfSlots, Knock
    <2> QED BY <2>2, <2>3, <2>4, <2>5
<1>2. CASE ~Occupied(slots[DoorOf(x)])
    <2>1. /\ task' = [task EXCEPT ![x] = "Holds"]
          /\ slots' = [slots EXCEPT ![DoorOf(x)] = [@ EXCEPT !.occupant = x]]
          /\ UNCHANGED <<requests, client>>
        BY <1>2 DEF Knock, Occupy
    <2>2. TypesOfSlots' /\ Doors'
        BY <1>0, <2>1 DEF TypesOfSlots, TaskState, Doors, Slot
    <2>3. Waiters' /\ Permits'
        BY <1>0, <2>1 DEF Waiters, Permits, TypesOfSlots, Knock, Slot
    <2>4. Occupants' /\ Senders'
        BY <1>0, <1>2, <2>1 DEF Occupants, Senders, Holding, TypesOfSlots, Knock, Slot, Occupied
    <2>5. WakeUps'
        BY <1>0, <2>1 DEF WakeUps, TypesOfSlots, Slot, Occupied
    <2>6. Submissions'
        BY <2>1 DEF Submissions, Submitted, TypesOfSlots, Knock
    <2> QED BY <2>2, <2>3, <2>4, <2>5, <2>6
<1> QED BY <1>1, <1>2

\* A permit sends the task back to the slot, and without one it waits.
LEMMA ListenKeepsSlots ==
    ASSUME SlotInv, NEW x \in Assoc, Listen(x)
    PROVE  SlotInv'
<1> USE NoAssocAssumption DEF SlotInv, AtTask, layer
<1>0. DoorOf(x) \in Asps
    BY DEF Doors, Listen
<1>1. CASE slots[DoorOf(x)].permit
    <2>1. /\ task' = [task EXCEPT ![x] = "Knocks"]
          /\ slots' = [slots EXCEPT ![DoorOf(x)] = [@ EXCEPT !.permit = FALSE]]
          /\ UNCHANGED <<requests, client>>
        BY <1>1 DEF Listen, Await
    <2>2. TypesOfSlots' /\ Doors'
        BY <1>0, <2>1 DEF TypesOfSlots, TaskState, Doors, Slot
    <2>3. Waiters' /\ Permits'
        BY <1>0, <2>1 DEF Waiters, Permits, TypesOfSlots, Listen, Slot
    <2>4. Occupants' /\ Senders'
        BY <1>0, <2>1 DEF Occupants, Senders, Holding, TypesOfSlots, Listen, Slot
    <2>5. WakeUps'
        BY <1>0, <2>1 DEF WakeUps, TypesOfSlots, Slot, Occupied
    <2>6. Submissions'
        BY <2>1 DEF Submissions, Submitted, TypesOfSlots, Listen
    <2> QED BY <2>2, <2>3, <2>4, <2>5, <2>6
<1>2. CASE ~slots[DoorOf(x)].permit
    <2>1. /\ task' = [task EXCEPT ![x] = "Waits"]
          /\ slots' = [slots EXCEPT ![DoorOf(x)] =
                        [@ EXCEPT !.waiting = slots[DoorOf(x)].waiting \cup {x}]]
          /\ UNCHANGED <<requests, client>>
        BY <1>2 DEF Listen, Await
    <2>2. TypesOfSlots' /\ Doors'
        BY <1>0, <2>1 DEF TypesOfSlots, TaskState, Doors, Slot
    <2>3. Waiters' /\ Permits'
        BY <1>0, <1>2, <2>1 DEF Waiters, Permits, TypesOfSlots, Listen, Slot
    <2>4. Occupants' /\ Senders'
        BY <1>0, <2>1 DEF Occupants, Senders, Holding, TypesOfSlots, Listen, Slot
    <2>5. WakeUps'
        BY <1>0, <2>1 DEF WakeUps, TypesOfSlots, Slot, Occupied, Listen
    <2>6. Submissions'
        BY <2>1 DEF Submissions, Submitted, TypesOfSlots, Listen
    <2> QED BY <2>2, <2>3, <2>4, <2>5, <2>6
<1> QED BY <1>1, <1>2

\* One that gives up is not counted among those that wait.
LEMMA HandoverKeepsSlots ==
    ASSUME SlotInv, NEW x \in Assoc, HandoverPasses(x)
    PROVE  SlotInv'
<1> USE NoAssocAssumption DEF SlotInv, AtTask, layer
<1>0. DoorOf(x) \in Asps
    BY DEF Doors, HandoverPasses
<1>1. /\ task[x] = "Waits"
      /\ task' = [task EXCEPT ![x] = "Gone"]
      /\ slots' = [slots EXCEPT ![DoorOf(x)] =
                       [@ EXCEPT !.waiting = slots[DoorOf(x)].waiting \ {x}]]
      /\ UNCHANGED <<requests, client>>
    BY DEF HandoverPasses, GiveUp
<1>2. TypesOfSlots' /\ Doors'
    BY <1>0, <1>1 DEF TypesOfSlots, TaskState, Doors, Slot
<1>3. Waiters' /\ Permits'
    BY <1>0, <1>1 DEF Waiters, Permits, TypesOfSlots, Slot
<1>4. Occupants' /\ Senders'
    BY <1>0, <1>1 DEF Occupants, Senders, Holding, TypesOfSlots, Slot
<1>5. WakeUps'
    BY <1>0, <1>1 DEF WakeUps, TypesOfSlots, Slot, Occupied
<1>6. Submissions'
    BY <1>1 DEF Submissions, Submitted, TypesOfSlots
<1> QED BY <1>2, <1>3, <1>4, <1>5, <1>6

\* The task of x goes from one state in which it holds the slot to another.
LEMMA HolderMoves ==
    ASSUME SlotInv, NEW x \in Assoc, task[x] \in Holding, NEW at \in Holding,
           task' = [task EXCEPT ![x] = at],
           slots' = slots
    PROVE  TypesOfSlots' /\ Doors' /\ Waiters' /\ Permits' /\ Occupants' /\ WakeUps'
<1> USE DEF SlotInv, Holding
<1>1. TypesOfSlots' /\ Doors'
    BY DEF TypesOfSlots, TaskState, Doors
<1>2. Waiters' /\ Permits'
    BY DEF Waiters, Permits, TypesOfSlots
<1>3. Occupants'
    BY DEF Occupants, TypesOfSlots
<1>4. WakeUps'
    BY DEF WakeUps, TypesOfSlots
<1> QED BY <1>1, <1>2, <1>3, <1>4

\* The holder of a slot goes on to the next point of run_sg.
LEMMA QuiesceKeepsSlots ==
    ASSUME SlotInv, NEW x \in Assoc, QuiesceSlot(x)
    PROVE  SlotInv'
<1>1. /\ task[x] = "Holds"
      /\ task' = [task EXCEPT ![x] = "Quiet"]
      /\ UNCHANGED <<slots, requests, client>>
    BY DEF QuiesceSlot, AtTask, layer
<1>2. TypesOfSlots' /\ Doors' /\ Waiters' /\ Permits' /\ Occupants' /\ WakeUps'
    BY <1>1, HolderMoves DEF Holding
<1>3. Senders'
    BY <1>1 DEF SlotInv, TypesOfSlots, Senders
<1>4. Submissions'
    BY <1>1 DEF SlotInv, TypesOfSlots, Submissions, Submitted
<1> QED BY <1>2, <1>3, <1>4 DEF SlotInv

\* A request of x is put into the channel.
LEMMA SubmitKeeps ==
    ASSUME SlotInv, NEW x \in Assoc, task[x] \notin Submitted, NEW at \in Submitted,
           task' = [task EXCEPT ![x] = at], Submit(x), client' = client
    PROVE  Submissions'
<1> USE DEF SlotInv, TypesOfSlots
<1>1. requests \in Seq(Assoc) /\ requests' = Append(requests, x)
    BY DEF Submissions, Submit
<1>2. /\ requests' \in Seq(Assoc) /\ Len(requests') = Len(requests) + 1
      /\ requests'[Len(requests) + 1] = x
      /\ \A i \in 1 .. Len(requests) : requests'[i] = requests[i] /\ requests[i] \in Assoc
    BY <1>1
<1>3. \A i \in 1 .. Len(requests) : requests[i] # x
    BY DEF Submissions
<1>4. \A y \in Assoc : task'[y] = IF y = x THEN at ELSE task[y]
    OBVIOUS
<1>5. client' # x /\ (client' # NoAssoc => task'[client'] \in Submitted)
    BY <1>4, NoAssocAssumption DEF Submissions
<1>6. ASSUME NEW i \in 1 .. Len(requests')
      PROVE  task'[requests'[i]] \in Submitted /\ requests'[i] # client'
    <2>1. CASE i = Len(requests) + 1
        BY <1>2, <1>4, <1>5, <2>1
    <2>2. CASE i \in 1 .. Len(requests)
        BY <1>2, <1>4, <2>2 DEF Submissions
    <2> QED BY <1>1, <1>2, <2>1, <2>2
<1>7. ASSUME NEW i \in 1 .. Len(requests'), NEW j \in 1 .. Len(requests'),
             requests'[i] = requests'[j]
      PROVE  i = j
    <2>1. CASE i \in 1 .. Len(requests) /\ j \in 1 .. Len(requests)
        BY <1>2, <1>7, <2>1 DEF Submissions
    <2>2. CASE i = Len(requests) + 1 \/ j = Len(requests) + 1
        BY <1>1, <1>2, <1>3, <1>7, <2>2
    <2> QED BY <1>1, <1>2, <2>1, <2>2
<1> QED BY <1>2, <1>5, <1>6, <1>7 DEF Submissions

\* The holder becomes the sender, and its request is queued.
LEMMA BeginKeepsSlots ==
    ASSUME SlotInv, NEW x \in Assoc, Begin(x)
    PROVE  SlotInv'
<1> USE NoAssocAssumption DEF SlotInv
<1>0. DoorOf(x) \in Asps
    BY DEF Doors, Begin, AtTask
<1>1. /\ task[x] = "Quiet"
      /\ task' = [task EXCEPT ![x] = "Begins"]
      /\ slots' = [slots EXCEPT ![DoorOf(x)] = [@ EXCEPT !.sender = x]]
      /\ Submit(x) /\ client' = client
    BY DEF Begin, AtTask, SetSender, layer
<1>2. TypesOfSlots' /\ Doors'
    BY <1>0, <1>1 DEF TypesOfSlots, TaskState, Doors, Slot
<1>3. Waiters' /\ Permits'
    BY <1>0, <1>1 DEF Waiters, Permits, TypesOfSlots, Slot
<1>4. Occupants' /\ Senders'
    BY <1>0, <1>1 DEF Occupants, Senders, Holding, TypesOfSlots, Slot
<1>5. WakeUps'
    BY <1>0, <1>1 DEF WakeUps, TypesOfSlots, Slot, Occupied
<1>6. Submissions'
    BY <1>1, SubmitKeeps DEF Submitted
<1> QED BY <1>2, <1>3, <1>4, <1>5, <1>6

\* A task that is served and has nothing with the layer moves on alone.
LEMMA UnsubmittedMoves ==
    ASSUME SlotInv, NEW x \in Assoc, task[x] \notin Submitted, NEW at \in TaskState,
           task' = [task EXCEPT ![x] = at], UNCHANGED <<requests, client>>
    PROVE  Submissions'
BY DEF SlotInv, TypesOfSlots, Submissions, Submitted

\* What the sender received is queued; a superseded task leaves.
LEMMA ReceiveKeepsSlots ==
    ASSUME SlotInv, NEW x \in Assoc, Receive(x)
    PROVE  SlotInv'
<1>1. /\ task[x] = "Serves"
      /\ UNCHANGED <<slots, client>>
      /\ \/ task' = [task EXCEPT ![x] = "Asks"] /\ Submit(x)
         \/ task' = [task EXCEPT ![x] = "Leaves"] /\ UNCHANGED requests
    BY DEF Receive, AtTask, layer
<1>2. TypesOfSlots' /\ Doors' /\ Waiters' /\ Permits' /\ Occupants' /\ WakeUps'
    BY <1>1, HolderMoves DEF Holding
<1>3. Senders'
    BY <1>1 DEF SlotInv, TypesOfSlots, Senders
<1>4. Submissions'
    BY <1>1, SubmitKeeps, UnsubmittedMoves DEF Submitted, TaskState
<1> QED BY <1>2, <1>3, <1>4 DEF SlotInv

\* The sender is taken away before the loss is queued.
LEMMA EndKeepsSlots ==
    ASSUME SlotInv, NEW x \in Assoc, End(x)
    PROVE  SlotInv'
<1> USE NoAssocAssumption DEF SlotInv
<1>0. DoorOf(x) \in Asps
    BY DEF Doors, End
<1>1. CASE IsSender(slots[DoorOf(x)], x)
    <2>1. /\ task[x] = "Serves"
          /\ task' = [task EXCEPT ![x] = "Ends"]
          /\ slots' = [slots EXCEPT ![DoorOf(x)] = [@ EXCEPT !.sender = NoAssoc]]
          /\ Submit(x) /\ client' = client
        BY <1>1 DEF End, AtTask, ClearSender, layer
    <2>2. TypesOfSlots' /\ Doors'
        BY <1>0, <2>1 DEF TypesOfSlots, TaskState, Doors, Slot
    <2>3. Waiters' /\ Permits'
        BY <1>0, <2>1 DEF Waiters, Permits, TypesOfSlots, Slot
    <2>4. Occupants' /\ Senders'
        BY <1>0, <2>1 DEF Occupants, Senders, Holding, TypesOfSlots, Slot
    <2>5. WakeUps'
        BY <1>0, <2>1 DEF WakeUps, TypesOfSlots, Slot, Occupied
    <2>6. Submissions'
        BY <2>1, SubmitKeeps DEF Submitted
    <2> QED BY <2>2, <2>3, <2>4, <2>5, <2>6
<1>2. CASE ~IsSender(slots[DoorOf(x)], x)
    <2>1. /\ task[x] = "Serves"
          /\ task' = [task EXCEPT ![x] = "Leaves"]
          /\ UNCHANGED <<slots, requests, client>>
        BY <1>2 DEF End, AtTask, layer
    <2>2. TypesOfSlots' /\ Doors' /\ Waiters' /\ Permits' /\ Occupants' /\ WakeUps'
        BY <2>1, HolderMoves DEF Holding
    <2>3. Senders'
        BY <2>1 DEF TypesOfSlots, Senders
    <2>4. Submissions'
        BY <2>1, UnsubmittedMoves DEF Submitted, TaskState
    <2> QED BY <2>2, <2>3, <2>4
<1> QED BY <1>1, <1>2

\* A task that dies leaves like one that ended.
LEMMA DieKeepsSlots ==
    ASSUME SlotInv, NEW x \in Assoc, Die(x)
    PROVE  SlotInv'
<1>1. /\ task[x] = "Serves"
      /\ task' = [task EXCEPT ![x] = "Leaves"]
      /\ UNCHANGED <<slots, requests, client>>
    BY DEF Die, AtTask, layer
<1>2. TypesOfSlots' /\ Doors' /\ Waiters' /\ Permits' /\ Occupants' /\ WakeUps'
    BY <1>1, HolderMoves DEF Holding
<1>3. Senders'
    BY <1>1 DEF SlotInv, TypesOfSlots, Senders
<1>4. Submissions'
    BY <1>1, UnsubmittedMoves DEF Submitted, TaskState
<1> QED BY <1>2, <1>3, <1>4 DEF SlotInv

\* The occupant leaves: one of those that wait is woken, or the permit kept.
LEMMA LeaveKeepsSlots ==
    ASSUME SlotInv, NEW x \in Assoc, Leave(x)
    PROVE  SlotInv'
<1> USE NoAssocAssumption DEF SlotInv
<1> DEFINE a == DoorOf(x)
           old == slots[a]
           freed == [old EXCEPT !.sender = IF old.sender = x THEN NoAssoc ELSE old.sender,
                                !.occupant = NoAssoc]
<1>a. a \in Asps /\ task[x] = "Leaves"
    BY DEF Doors, Leave
<1>b. old \in Slot
    BY <1>a DEF TypesOfSlots
<1>c. old.sender # x => old.sender = NoAssoc
    BY <1>a, <1>b DEF Occupants, Senders, Holding, Slot
<1>d. freed = [old EXCEPT !.sender = NoAssoc, !.occupant = NoAssoc]
    BY <1>c
<1>0. a \in Asps /\ task[x] = "Leaves" /\ old \in Slot /\ freed \in Slot
    BY <1>a, <1>b, <1>d DEF Slot
<1>1. /\ freed.occupant = NoAssoc /\ freed.sender = NoAssoc
      /\ freed.permit = old.permit /\ freed.waiting = old.waiting
    BY <1>b, <1>d DEF Slot
<1>2. PICK slot \in NotifyOne(freed) :
          /\ task' = [y \in Assoc |-> IF y = x THEN "Gone"
                                      ELSE IF y \in old.waiting \ slot.waiting THEN "Knocks"
                                      ELSE task[y]]
          /\ slots' = [slots EXCEPT ![a] = slot]
          /\ UNCHANGED <<requests, client>>
    BY DEF Leave, Vacate, layer
<1>3. \/ /\ old.waiting = {}
         /\ slot = [freed EXCEPT !.permit = TRUE]
         /\ task' = [task EXCEPT ![x] = "Gone"]
      \/ \E z \in old.waiting :
            /\ slot = [freed EXCEPT !.waiting = old.waiting \ {z}]
            /\ task' = [task EXCEPT ![x] = "Gone", ![z] = "Knocks"]
    <2>1. CASE old.waiting = {}
        <3>1. slot = [freed EXCEPT !.permit = TRUE]
            BY <1>1, <1>2, <2>1 DEF NotifyOne
        <3> QED BY <1>0, <1>1, <1>2, <2>1, <3>1 DEF TypesOfSlots, Slot
    <2>2. CASE old.waiting # {}
        <3>1. PICK z \in old.waiting : slot = [freed EXCEPT !.waiting = old.waiting \ {z}]
            BY <1>1, <1>2, <2>2 DEF NotifyOne, GiveUp
        <3>2. old.waiting \ slot.waiting = {z} /\ z \in Assoc /\ z # x
            BY <1>0, <3>1 DEF Waiters, Slot
        <3> QED BY <1>0, <1>2, <3>1, <3>2 DEF TypesOfSlots
    <2> QED BY <2>1, <2>2
<1>4. /\ slot \in Slot /\ slot.occupant = NoAssoc /\ slot.sender = NoAssoc
    <2> HIDE DEF freed, old
    <2>1. [freed EXCEPT !.permit = TRUE] \in Slot
        BY <1>0 DEF Slot
    <2>2. \A z : [freed EXCEPT !.waiting = old.waiting \ {z}] \in Slot
        BY <1>0 DEF Slot
    <2> QED BY <1>0, <1>1, <1>3, <2>1, <2>2 DEF Slot
<1>5. CASE old.waiting = {}
    <2>1. /\ slot.permit /\ slot.waiting = {}
          /\ task' = [task EXCEPT ![x] = "Gone"]
        BY <1>0, <1>1, <1>3, <1>5 DEF Slot
    <2> HIDE DEF a, old, freed
    <2>2. TypesOfSlots' /\ Doors'
        BY <1>0, <1>2, <1>4, <2>1 DEF TypesOfSlots, TaskState, Doors
    <2>3. Waiters' /\ Permits'
        BY <1>0, <1>2, <1>4, <1>5, <2>1 DEF Waiters, Permits, TypesOfSlots, a, old
    <2>4. Occupants' /\ Senders'
        BY <1>0, <1>2, <1>4, <2>1 DEF Occupants, Senders, Holding, TypesOfSlots, a
    <2>5. WakeUps'
        BY <1>0, <1>2, <1>4, <2>1 DEF WakeUps, TypesOfSlots, Occupied, a
    <2>6. Submissions'
        BY <1>0, <1>2, <2>1, UnsubmittedMoves DEF Submitted, TaskState
    <2> QED BY <2>2, <2>3, <2>4, <2>5, <2>6
<1>6. CASE old.waiting # {}
    <2>1. PICK z \in old.waiting :
            /\ slot = [freed EXCEPT !.waiting = old.waiting \ {z}]
            /\ task' = [task EXCEPT ![x] = "Gone", ![z] = "Knocks"]
        BY <1>3, <1>6
    <2>2. /\ slot.waiting = old.waiting \ {z} /\ slot.permit = old.permit
          /\ z \in Assoc /\ task[z] = "Waits" /\ DoorOf(z) = a /\ ~old.permit
        BY <1>0, <1>1, <2>1 DEF Slot, Waiters, Permits
    <2> HIDE DEF a, old, freed
    <2>3. TypesOfSlots' /\ Doors'
        BY <1>0, <1>2, <1>4, <2>1, <2>2 DEF TypesOfSlots, TaskState, Doors
    <2>4. Waiters' /\ Permits'
        BY <1>0, <1>2, <1>4, <2>1, <2>2 DEF Waiters, Permits, TypesOfSlots, a, old
    <2>5. Occupants' /\ Senders'
        BY <1>0, <1>2, <1>4, <2>1, <2>2 DEF Occupants, Senders, Holding, TypesOfSlots, a
    <2>6. WakeUps'
        BY <1>0, <1>2, <1>4, <2>1, <2>2 DEF WakeUps, TypesOfSlots, Occupied, a
    <2>7. Submissions'
        BY <1>0, <1>2, <2>1, <2>2 DEF Submissions, Submitted, TypesOfSlots
    <2> QED BY <2>3, <2>4, <2>5, <2>6, <2>7
<1> QED BY <1>5, <1>6

\* The layer takes the request at the head of the channel.
LEMMA ServeKeepsSlots ==
    ASSUME SlotInv, Serve
    PROVE  SlotInv'
<1> USE NoAssocAssumption DEF SlotInv
<1>1. /\ client = NoAssoc /\ requests # <<>>
      /\ client' = Head(requests) /\ requests' = Tail(requests)
      /\ UNCHANGED <<slots, task>>
    BY DEF Serve, Idle
<1>2. TypesOfSlots' /\ Doors' /\ Waiters' /\ Permits' /\ Occupants' /\ Senders' /\ WakeUps'
    BY <1>1 DEF TypesOfSlots, Doors, Waiters, Permits, Occupants, Senders, WakeUps
<1>3. requests \in Seq(Assoc)
    BY DEF Submissions
<1>4. /\ Tail(requests) \in Seq(Assoc) /\ Len(Tail(requests)) = Len(requests) - 1
      /\ Head(requests) = requests[1] /\ requests[1] \in Assoc /\ 1 \in 1 .. Len(requests)
      /\ \A i \in 1 .. Len(Tail(requests)) :
             i + 1 \in 1 .. Len(requests) /\ Tail(requests)[i] = requests[i + 1]
    BY <1>1, <1>3
<1>5. Submissions'
    BY <1>1, <1>4 DEF Submissions
<1> QED BY <1>2, <1>5

\* The task that waited for the layer goes on.
LEMMA DoneKeepsSlots ==
    ASSUME SlotInv, Done
    PROVE  SlotInv'
<1> USE DEF SlotInv
<1>1. /\ client \in Assoc /\ task[client] \in Submitted /\ client' = NoAssoc
      /\ task' = [task EXCEPT ![client] = IF task[client] = "Ends" THEN "Leaves" ELSE "Serves"]
      /\ UNCHANGED <<requests, slots>>
    BY DEF Done, Submissions
<1>2. TypesOfSlots' /\ Doors' /\ Waiters' /\ Permits' /\ Occupants' /\ WakeUps'
    BY <1>1, HolderMoves DEF Holding, Submitted
<1>3. Senders'
    BY <1>1 DEF TypesOfSlots, Senders, Submitted
<1>4. Submissions'
    <2>1. \A i \in 1 .. Len(requests) :
              requests[i] \in Assoc /\ requests[i] # client /\ task[requests[i]] \in Submitted
        BY DEF Submissions
    <2>2. \A y \in Assoc : y # client => task'[y] = task[y]
        BY <1>1 DEF TypesOfSlots
    <2> QED BY <1>1, <2>1, <2>2, NoAssocAssumption DEF Submissions
<1> QED BY <1>2, <1>3, <1>4

\* SlotInv is inductive.
LEMMA NextKeepsSlots == SlotInv /\ [Next]_vars => SlotInv'
<1> SUFFICES ASSUME SlotInv, [Next]_vars PROVE SlotInv'
    OBVIOUS
<1>1. ASSUME NEW x \in Assoc,
             \/ Accept(x) \/ HandoverPasses(x) \/ End(x) \/ Die(x)
             \/ Association(x) \/ Receive(x)
      PROVE  SlotInv'
    BY <1>1, AcceptKeepsSlots, HandoverKeepsSlots, EndKeepsSlots, DieKeepsSlots,
       KnockKeepsSlots, ListenKeepsSlots, QuiesceKeepsSlots, BeginKeepsSlots, LeaveKeepsSlots,
       ReceiveKeepsSlots DEF Association
<1>2. CASE Layer
    <2>1. CASE PerformSend \/ PerformAsp \/ PerformServer \/ PerformTake \/ Flush
        BY <2>1, SlotsUntouched DEF PerformSend, PerformAsp, PerformServer, PerformTake, Flush
    <2> QED BY <1>2, <2>1, ServeKeepsSlots, DoneKeepsSlots DEF Layer
<1>3. ASSUME NEW s \in Servers, Timeout(s) PROVE SlotInv'
    BY <1>3, SlotsUntouched DEF Timeout
<1>4. ASSUME NEW m \in Msu, Traffic(m) PROVE SlotInv'
    BY <1>4, SlotsUntouched DEF Traffic, Route, Select, LookAtState, Enqueue, Unmoved, layer
<1>5. CASE UNCHANGED vars
    BY <1>5, SlotsUntouched DEF vars, layer
<1> QED BY <1>1, <1>2, <1>3, <1>4, <1>5 DEF Next

\* The slots and the tasks of associations stay consistent whatever comes and
\* goes: who holds a slot, who may send, who waits, whose request is under way.
THEOREM SlotInvariant == Spec => []SlotInv
<1> QED BY InitSlots, NextKeepsSlots, PTL DEF Spec

\* NoLostWakeUp: however admit, Occupancy::drop and the end of HANDOVER race,
\* a task never waits beside a free slot without a wake-up on its way.
THEOREM NoWakeUpIsLost == Spec => []NoLostWakeUp
<1>1. SlotInv => NoLostWakeUp
    <2> SUFFICES ASSUME SlotInv, NEW a \in Asps, ~Occupied(slots[a]), slots[a].waiting # {}
                 PROVE  \E x \in Assoc : DoorOf(x) = a /\ task[x] = "Knocks"
        BY DEF NoLostWakeUp
    <2>1. PICK x \in slots[a].waiting : x \in Assoc
        BY DEF SlotInv, TypesOfSlots, Slot
    <2>2. task[x] = "Waits" /\ DoorOf(x) = a /\ ~slots[a].permit
        BY <2>1 DEF SlotInv, Waiters, Permits
    <2> QED BY <2>1, <2>2 DEF SlotInv, WakeUps
<1> QED BY <1>1, SlotInvariant, PTL

----------------------------------------------------------------------------
(* The layer, what it has still to perform, and what follows from it.      *)

VisibleActs == {act \in Action : act.do \in {"Send", "Asp", "Server"}}

TakeActs == [do : {"Take"}, server : Servers, state : AsState]

FlushActs == [do : {"Flush"}, msu : Msu]

ToDo == VisibleActs \cup TakeActs \cup FlushActs

\* What an ASP heard of a server: a state of it, or nothing of the last one.
Heard == AsState \cup {"NotSent"}

Entry == [active : SUBSET Asps, state : AsState, pending : Seq(Msu), up : BOOLEAN]

TypesOfLayer ==
    /\ Sound(machine)
    /\ todo \in Seq(ToDo)
    /\ entries \in [Servers -> Entry]
    /\ told \in [Asps -> [Servers -> Heard]]

\* The queue of server s is about to be looked at.
Taking(s) == todo # <<>> /\ Head(todo).do = "Take" /\ Head(todo).server = s

TimersFollow == deadlines = {s \in Servers : machine.state[s] = "Pending"}

\* Once todo is performed, the registry has the state the machine is in ...
StatesFollow == \A s \in Servers : SeenState(todo, s, entries[s].state) = machine.state[s]

\* ... and the flag of nobody whom the machine does not take for active.
FlagsFollow == \A s \in Servers, a \in Asps :
    SeenActive(todo, a, s, a \in entries[s].active) => IsActive(machine, a, s)

RoutesFollow == \A s \in Servers :
    Taking(s) \/ (entries[s].up <=> entries[s].state \in {"Active", "Pending"})

LayerInv == TypesOfLayer /\ TimersFollow /\ StatesFollow /\ FlagsFollow /\ RoutesFollow
               /\ NothingIsStranded

\* An association that is served finds the flags the machine has for it, and its
\* ASP hears of the states of its servers, or the last Notify was given up.
Served(x) == \A s \in Servers :
    LET a == DoorOf(x)
    IN  /\ IsActive(machine, a, s) => SeenActive(todo, a, s, a \in entries[s].active)
        /\ a \in UpIn(machine, s) /\ machine.state[s] # "Down" =>
               SeenNotice(todo, a, s, told[a][s]) \in {machine.state[s], "NotSent"}

\* What an association before it left in the machine is lost before it is served.
ServedInv ==
    /\ \A x \in Assoc : task[x] \in {"Serves", "Asks"} => Served(x)
    /\ client # NoAssoc /\ task[client] = "Begins" => DoorOf(client) \notin machine.up

\* Only the client may become active, and not before it is acknowledged.
Asking == \A s \in Servers :
    /\ \A a \in Asps : Has(todo, ActiveActs({a}, s)) => client # NoAssoc /\ DoorOf(client) = a
    /\ client # NoAssoc => \/ <<client, s>> \in said
                           \/ Before(todo, ActiveActs(Asps, s), AckActs(DoorOf(client), s))

\* A flag is left to the association that was acknowledged, or to none.
Acknowledged == \A s \in Servers : \A a \in entries[s].active :
    slots[a].sender # NoAssoc => <<slots[a].sender, s>> \in said

Quieted == \A x \in Assoc, s \in Servers : task[x] = "Quiet" => DoorOf(x) \notin entries[s].active

AskingInv == Asking /\ Acknowledged /\ Quieted

\* todo is what there is to see of the actions of the machine.
LEMMA VisiblePart ==
    ASSUME NEW out \in Seq(Action), NEW I,
           I = {i \in 1 .. Len(out) : out[i].do \in {"Send", "Asp", "Server"}}
    PROVE  /\ Those(out, I) \in Seq(VisibleActs)
           /\ \A s, q : SeenState(Those(out, I), s, q) = SeenState(out, s, q)
           /\ \A a, s, q : /\ SeenActive(Those(out, I), a, s, q) = SeenActive(out, a, s, q)
                           /\ SeenNotice(Those(out, I), a, s, q) = SeenNotice(out, a, s, q)
           /\ \A X, s : Has(Those(out, I), ActiveActs(X, s)) <=> Has(out, ActiveActs(X, s))
           /\ \A X, s, asp : Before(out, ActiveActs(X, s), AckActs(asp, s)) =>
                                 Before(Those(out, I), ActiveActs(X, s), AckActs(asp, s))
<1> DEFINE some == Those(out, I)
<1>0. I \in SUBSET (1 .. Len(out)) /\ \A i \in 1 .. Len(out) : out[i] \in Action
    OBVIOUS
<1>1. some \in Seq(VisibleActs)
    <2>1. /\ some \in Seq(Action)
          /\ \A n \in 1 .. Len(some) : InOrder(I)[n] \in I /\ some[n] = out[InOrder(I)[n]]
        BY <1>0, ThoseKeeps
    <2> HIDE DEF some
    <2>2. \A n \in 1 .. Len(some) : some[n] \in VisibleActs
        BY <1>0, <2>1 DEF VisibleActs
    <2> QED BY <2>1, <2>2
<1>2. ASSUME NEW K, \A i \in 1 .. Len(out) : out[i] \in K => i \in I
      PROVE  (Has(some, K) <=> Has(out, K)) /\ (Has(out, K) => LastIn(some, K) = LastIn(out, K))
    BY <1>0, <1>2, LastOfThose
<1>3. ASSUME NEW K, NEW L, \A i \in 1 .. Len(out) : out[i] \in L => i \in I, Before(out, K, L)
      PROVE  Before(some, K, L)
    BY <1>0, <1>3, BeforeInThose
<1>4. /\ \A s : \A i \in 1 .. Len(out) : out[i] \in ServerActs(s) => i \in I
      /\ \A a, s : \A i \in 1 .. Len(out) : out[i] \in AspActs(a, s) => i \in I
      /\ \A a, s : \A i \in 1 .. Len(out) : out[i] \in NoticeActs(a, s) => i \in I
      /\ \A X, s : \A i \in 1 .. Len(out) : out[i] \in ActiveActs(X, s) => i \in I
      /\ \A asp, s : \A i \in 1 .. Len(out) : out[i] \in AckActs(asp, s) => i \in I
    BY DEF ServerActs, AspActs, NoticeActs, ActiveActs, AckActs, AnswerActs
<1> HIDE DEF some
<1>5. \A s, q : SeenState(some, s, q) = SeenState(out, s, q)
    <2> SUFFICES ASSUME NEW s, NEW q PROVE SeenState(some, s, q) = SeenState(out, s, q)
        OBVIOUS
    <2>1. /\ Has(some, ServerActs(s)) <=> Has(out, ServerActs(s))
          /\ Has(out, ServerActs(s)) => LastIn(some, ServerActs(s)) = LastIn(out, ServerActs(s))
        BY <1>2, <1>4
    <2> QED BY <2>1 DEF SeenState
<1>6. \A a, s, q : SeenActive(some, a, s, q) = SeenActive(out, a, s, q)
    <2> SUFFICES ASSUME NEW a, NEW s, NEW q PROVE SeenActive(some, a, s, q) = SeenActive(out, a, s, q)
        OBVIOUS
    <2>1. /\ Has(some, AspActs(a, s)) <=> Has(out, AspActs(a, s))
          /\ Has(out, AspActs(a, s)) => LastIn(some, AspActs(a, s)) = LastIn(out, AspActs(a, s))
        BY <1>2, <1>4
    <2> QED BY <2>1 DEF SeenActive
<1>7. \A a, s, q : SeenNotice(some, a, s, q) = SeenNotice(out, a, s, q)
    <2> SUFFICES ASSUME NEW a, NEW s, NEW q PROVE SeenNotice(some, a, s, q) = SeenNotice(out, a, s, q)
        OBVIOUS
    <2>1. /\ Has(some, NoticeActs(a, s)) <=> Has(out, NoticeActs(a, s))
          /\ Has(out, NoticeActs(a, s)) => LastIn(some, NoticeActs(a, s)) = LastIn(out, NoticeActs(a, s))
        BY <1>2, <1>4
    <2> QED BY <2>1 DEF SeenNotice
<1>8. \A X, s : Has(some, ActiveActs(X, s)) <=> Has(out, ActiveActs(X, s))
    BY <1>2, <1>4
<1>9. \A X, s, asp : Before(out, ActiveActs(X, s), AckActs(asp, s)) =>
                        Before(some, ActiveActs(X, s), AckActs(asp, s))
    BY <1>3, <1>4
<1> QED BY <1>1, <1>5, <1>6, <1>7, <1>8, <1>9 DEF some

\* What the layer does when the machine takes an input.
LEMMA AcceptsShows ==
    ASSUME Sound(machine), NEW input, Accepts(input), Sound(Handle(machine, input))
    PROVE  /\ Sound(machine') /\ todo' \in Seq(ToDo)
           /\ machine'.up = Handle(machine, input).up
           /\ machine'.active = Handle(machine, input).active
           /\ machine'.state = Handle(machine, input).state
           /\ \A s, q : SeenState(todo', s, q) = SeenState(Handle(machine, input).out, s, q)
           /\ \A a, s, q :
                 /\ SeenActive(todo', a, s, q) = SeenActive(Handle(machine, input).out, a, s, q)
                 /\ SeenNotice(todo', a, s, q) = SeenNotice(Handle(machine, input).out, a, s, q)
           /\ \A X, s : Has(todo', ActiveActs(X, s)) <=>
                           Has(Handle(machine, input).out, ActiveActs(X, s))
           /\ \A X, s, asp :
                 Before(Handle(machine, input).out, ActiveActs(X, s), AckActs(asp, s)) =>
                     Before(todo', ActiveActs(X, s), AckActs(asp, s))
           /\ \A s \in Servers :
                 s \in deadlines' <=>
                     /\ \/ s \in deadlines /\ ~Has(Handle(machine, input).out, StopActs(s))
                        \/ Has(Handle(machine, input).out, StartActs(s))
                     /\ input.kind = "Timeout" => s # input.server
           /\ \A s \in deadlines' : s \in deadlines \/ s \in Servers
           /\ told' = [a \in Asps |-> IF a \in machine'.up THEN told[a]
                                      ELSE [s \in Servers |-> "Down"]]
<1> DEFINE o == Handle(machine, input)
           out == o.out
           I == {i \in 1 .. Len(out) : out[i].do \in {"Send", "Asp", "Server"}}
           Timers(what) == {out[i].server : i \in {j \in 1 .. Len(out) : out[j].do = what}}
<1>1. /\ machine' = [o EXCEPT !.out = <<>>]
      /\ todo' = Those(out, I)
      /\ deadlines' = ((deadlines \ Timers("Stop")) \cup Timers("Start"))
                            \ (IF input.kind = "Timeout" THEN {input.server} ELSE {})
      /\ told' = [a \in Asps |-> IF a \in o.up THEN told[a] ELSE [s \in Servers |-> "Down"]]
    BY DEF Accepts, Only
<1>2. o \in Working /\ out \in Seq(Action)
    BY DEF Sound, Working
<1> HIDE DEF o
<1>3. /\ machine'.up = o.up /\ machine'.active = o.active /\ machine'.state = o.state
      /\ machine' \in Working
    <2>1. <<>> \in Seq(Action)
        OBVIOUS
    <2> QED BY <1>1, <1>2, <2>1 DEF Working
<1>4. Sound(machine')
    BY <1>3 DEF Sound, ActiveIn, IsActive, o
<1>5. ASSUME NEW act \in Action
      PROVE  /\ \A s : act.do = "Stop" /\ act.server = s <=> act \in StopActs(s)
             /\ \A s : act.do = "Start" /\ act.server = s <=> act \in StartActs(s)
             /\ act.do \in {"Stop", "Start"} => act.server \in Servers
    <2>1. act \in AnswerActs \/ \E t \in Servers : act \in ActsOf(t, Asps)
        BY DEF Action
    <2>2. act.do = "Stop" => \E t \in Servers : act \in StopActs(t)
        BY <2>1 DEF AnswerActs, ActsOf, NotifyActs, ServerActs, StartActs, ActiveActs
    <2>3. act.do = "Start" => \E t \in Servers : act \in StartActs(t)
        BY <2>1 DEF AnswerActs, ActsOf, NotifyActs, ServerActs, StopActs, ActiveActs
    <2> QED BY <2>2, <2>3 DEF StopActs, StartActs
<1>6. \A i \in 1 .. Len(out) : out[i] \in Action
    BY <1>2
<1>7. \A s : /\ s \in Timers("Stop") <=> Has(out, StopActs(s))
             /\ s \in Timers("Start") <=> Has(out, StartActs(s))
             /\ s \in Timers("Start") => s \in Servers
    BY <1>5, <1>6 DEF Has
<1> HIDE DEF Timers
<1>8. /\ \A s \in Servers :
            s \in deadlines' <=>
                /\ \/ s \in deadlines /\ ~Has(out, StopActs(s))
                   \/ Has(out, StartActs(s))
                /\ input.kind = "Timeout" => s # input.server
      /\ \A s \in deadlines' : s \in deadlines \/ s \in Servers
    BY <1>1, <1>7
<1> HIDE DEF out, I
<1>9. I = {i \in 1 .. Len(out) : out[i].do \in {"Send", "Asp", "Server"}}
    BY DEF I
<1>10. /\ todo' \in Seq(VisibleActs)
       /\ \A s, q : SeenState(todo', s, q) = SeenState(out, s, q)
       /\ \A a, s, q : /\ SeenActive(todo', a, s, q) = SeenActive(out, a, s, q)
                       /\ SeenNotice(todo', a, s, q) = SeenNotice(out, a, s, q)
       /\ \A X, s : Has(todo', ActiveActs(X, s)) <=> Has(out, ActiveActs(X, s))
       /\ \A X, s, asp : Before(out, ActiveActs(X, s), AckActs(asp, s)) =>
                             Before(todo', ActiveActs(X, s), AckActs(asp, s))
    BY <1>1, <1>2, <1>9, VisiblePart
<1>11. todo' \in Seq(ToDo)
    BY <1>10 DEF ToDo
<1> QED BY <1>1, <1>3, <1>4, <1>8, <1>10, <1>11 DEF o, out

\* Nothing is seen in nothing.
LEMMA NothingSeen ==
    /\ \A K : ~Has(<<>>, K)
    /\ \A s, q : SeenState(<<>>, s, q) = q
    /\ \A a, s, q : SeenActive(<<>>, a, s, q) = q /\ SeenNotice(<<>>, a, s, q) = q
<1>1. \A K : ~Has(<<>>, K)
    <2>1. 1 .. Len(<<>>) = {}
        OBVIOUS
    <2> QED BY <2>1 DEF Has
<1> QED BY <1>1 DEF SeenState, SeenActive, SeenNotice

\* What is reported is what the registry and the ASPs come to know.
LEMMA ReportsAreHeard ==
    ASSUME LayerInv, todo = <<>>, NEW input, Accepts(input), UNCHANGED <<entries, task>>,
           Sound(Handle(machine, input)),
           \A t \in Servers : Reports(machine, Handle(machine, input), t)
    PROVE  /\ TypesOfLayer' /\ StatesFollow' /\ FlagsFollow' /\ RoutesFollow'
           /\ NothingIsStranded'
           /\ \A x \in Assoc : Served(x) /\ DoorOf(x) \in Gateway => Served(x)'
<1> DEFINE o == Handle(machine, input)
<1>0. Gateway \subseteq Asps
    BY LayoutAssumption
<1>1. /\ Sound(machine') /\ todo' \in Seq(ToDo)
      /\ machine'.up = o.up /\ machine'.active = o.active /\ machine'.state = o.state
      /\ \A s, q : SeenState(todo', s, q) = SeenState(o.out, s, q)
      /\ \A a, s, q : /\ SeenActive(todo', a, s, q) = SeenActive(o.out, a, s, q)
                      /\ SeenNotice(todo', a, s, q) = SeenNotice(o.out, a, s, q)
      /\ told' = [a \in Asps |-> IF a \in machine'.up THEN told[a]
                                 ELSE [s \in Servers |-> "Down"]]
    BY AcceptsShows DEF LayerInv, TypesOfLayer
<1>2. \A t \in Servers : Reports(machine, o, t)
    OBVIOUS
<1> HIDE DEF o
<1>3. /\ \A s \in Servers : entries[s].state = machine.state[s]
      /\ \A s \in Servers, a \in Asps : a \in entries[s].active => IsActive(machine, a, s)
      /\ \A s \in Servers : entries[s].up <=> entries[s].state \in {"Active", "Pending"}
      /\ \A s \in Servers : entries[s].pending # <<>> => entries[s].state = "Pending"
    BY NothingSeen DEF LayerInv, StatesFollow, FlagsFollow, RoutesFollow, NothingIsStranded, Taking
<1>4. TypesOfLayer'
    <2>1. told' \in [Asps -> [Servers -> Heard]]
        BY <1>1 DEF LayerInv, TypesOfLayer, Heard, AsState
    <2> QED BY <1>1, <2>1 DEF LayerInv, TypesOfLayer
<1>5. StatesFollow'
    BY <1>1, <1>2, <1>3 DEF StatesFollow, Reports
<1>6. \A a, s : IsActive(machine', a, s) = IsActive(o, a, s)
    BY <1>1 DEF IsActive
<1>7. FlagsFollow'
    <2> SUFFICES ASSUME NEW s \in Servers, NEW a \in Asps,
                        SeenActive(todo', a, s, a \in entries[s].active)
                 PROVE  IsActive(machine', a, s)
        BY DEF FlagsFollow
    <2>1. SeenActive(o.out, a, s, IsActive(machine, a, s)) = IsActive(o, a, s)
        BY <1>2 DEF Reports
    <2> QED BY <1>1, <1>3, <1>6, <2>1 DEF SeenActive
<1>8. RoutesFollow' /\ NothingIsStranded'
    BY <1>3 DEF RoutesFollow, NothingIsStranded
<1>9. ASSUME NEW x \in Assoc, Served(x), DoorOf(x) \in Gateway PROVE Served(x)'
    <2> DEFINE a == DoorOf(x)
    <2>0. a \in Gateway /\ a \in Asps /\ UNCHANGED a
        BY <1>0, <1>9 DEF DoorOf
    <2>1. \A s \in Servers :
              /\ IsActive(machine, a, s) => a \in entries[s].active
              /\ a \in UpIn(machine, s) /\ machine.state[s] # "Down" =>
                     told[a][s] \in {machine.state[s], "NotSent"}
        <3> SUFFICES ASSUME NEW s \in Servers
                     PROVE  /\ IsActive(machine, a, s) => a \in entries[s].active
                            /\ a \in UpIn(machine, s) /\ machine.state[s] # "Down" =>
                                   told[a][s] \in {machine.state[s], "NotSent"}
            OBVIOUS
        <3>1. /\ IsActive(machine, a, s) => SeenActive(todo, a, s, a \in entries[s].active)
              /\ a \in UpIn(machine, s) /\ machine.state[s] # "Down" =>
                     SeenNotice(todo, a, s, told[a][s]) \in {machine.state[s], "NotSent"}
            BY <1>9 DEF Served
        <3> HIDE DEF a
        <3>2. SeenActive(todo, a, s, a \in entries[s].active) = (a \in entries[s].active)
            BY NothingSeen
        <3>3. SeenNotice(todo, a, s, told[a][s]) = told[a][s]
            BY NothingSeen
        <3> QED BY <3>1, <3>2, <3>3
    <2> SUFFICES ASSUME NEW s \in Servers
                 PROVE  /\ IsActive(machine', a, s) => SeenActive(todo', a, s, a \in entries[s].active)
                        /\ a \in UpIn(machine', s) /\ machine'.state[s] # "Down" =>
                               SeenNotice(todo', a, s, told'[a][s]) \in {machine'.state[s], "NotSent"}
        BY <2>0 DEF Served
    <2> HIDE DEF a
    <2>2. IsActive(machine', a, s) => SeenActive(todo', a, s, a \in entries[s].active)
        <3>1. SeenActive(o.out, a, s, IsActive(machine, a, s)) = IsActive(o, a, s)
            BY <1>2, <2>0 DEF Reports
        <3> QED BY <1>1, <1>6, <2>1, <3>1 DEF SeenActive
    <2>3. ASSUME a \in UpIn(machine', s), machine'.state[s] # "Down"
          PROVE  SeenNotice(todo', a, s, told'[a][s]) \in {machine'.state[s], "NotSent"}
        <3>1. a \in UpIn(o, s) \cap Gateway /\ o.state[s] # "Down" /\ told'[a][s] = told[a][s]
            BY <1>1, <2>0, <2>3 DEF UpIn
        <3>2. \/ told[a][s] \in {machine.state[s], "NotSent"}
              \/ machine.state[s] = "Down" \/ a \notin machine.up
            BY <2>1, <3>1 DEF UpIn
        <3>3. \A q : q = machine.state[s] \/ machine.state[s] = "Down" \/ a \notin machine.up
                         => SeenNotice(o.out, a, s, q) = o.state[s]
            BY <1>2, <3>1 DEF Reports
        <3>4. \/ SeenNotice(o.out, a, s, "NotSent") = SeenNotice(o.out, a, s, machine.state[s])
              \/ SeenNotice(o.out, a, s, "NotSent") = "NotSent"
            BY DEF SeenNotice
        <3>5. SeenNotice(o.out, a, s, told[a][s]) \in {o.state[s], "NotSent"}
            BY <3>2, <3>3, <3>4
        <3> QED BY <1>1, <3>1, <3>5
    <2> QED BY <2>2, <2>3
<1> QED BY <1>4, <1>5, <1>7, <1>8, <1>9

\* An association that is past admit is one of an ASP of this gateway.
LEMMA DoorIsGateway ==
    ASSUME SlotInv, NEW x \in Assoc, task[x] # "None"
    PROVE  DoorOf(x) \in Gateway /\ DoorOf(x) \in Asps
<1> DEFINE taking == {i \in DOMAIN Rules : Takes(Rules[i], Presented[x])}
<1>1. taking \in SUBSET Nat /\ taking \subseteq Gateway
    <2>1. Gateway \subseteq Asps /\ \A a \in Asps : a \in Nat
        BY LayoutAssumption, FS_CardinalityType
    <2> QED BY <2>1, RulesAssumption
<1>2. taking # {} => (CHOOSE i \in taking : \A j \in taking : i <= j) \in taking
    <2> HIDE DEF taking
    <2> QED BY <1>1, LeastElement
<1>3. DoorOf(x) \in {0, CHOOSE i \in taking : \A j \in taking : i <= j}
    BY DEF DoorOf, Admit
<1>4. DoorOf(x) \in Asps /\ 0 \notin Asps
    BY LayoutAssumption, FS_CardinalityType DEF SlotInv, Doors
<1>5. taking # {}
    <2>1. taking = {} => DoorOf(x) = 0
        BY DEF DoorOf, Admit
    <2> QED BY <1>4, <2>1
<1> QED BY <1>1, <1>2, <1>3, <1>4, <1>5

\* serve: what the machine makes of a request is all in todo when it is begun.
LEMMA ServeKeepsLayer ==
    ASSUME SlotInv, LayerInv, ServedInv, AskingInv, Serve
    PROVE  LayerInv' /\ ServedInv' /\ AskingInv'
<1> DEFINE x == Head(requests)
           asp == DoorOf(x)
<1>0. todo = <<>> /\ client = NoAssoc /\ requests # <<>> /\ client' = x
      /\ UNCHANGED <<entries, slots, task, said>>
    BY DEF Serve, Idle
<1>1. PICK input \in Request(x) : Accepts(input)
    BY DEF Serve
<1>2. x \in Assoc /\ task[x] \in Submitted
    <2>1. requests \in Seq(Assoc) /\ x = requests[1] /\ 1 \in 1 .. Len(requests)
        BY <1>0 DEF SlotInv, Submissions
    <2> QED BY <2>1 DEF SlotInv, Submissions
<1>3. asp \in Gateway /\ asp \in Asps
    BY <1>2, DoorIsGateway DEF Submitted
<1> HIDE DEF x
<1>4. IsRequest(input) /\ input.asp = asp /\ (task[x] = "Begins" => input.kind = "Lost")
      /\ input.kind # "Timeout"
    BY <1>1, <1>3 DEF Request, Asked, IsRequest
<1> DEFINE o == Handle(machine, input)
<1>5. Carried(machine, o, asp) /\ (input.kind = "Lost" => o.up = machine.up \ {asp})
    BY <1>4, RequestCarries DEF LayerInv, TypesOfLayer
<1>6. Sound(o) /\ \A t \in Servers : Reports(machine, o, t) /\ Timed(machine, o, t) /\ Acked(o, asp, t)
    BY <1>5 DEF Carried
<1>7. /\ machine'.up = o.up /\ machine'.state = o.state
      /\ \A X, s : Has(todo', ActiveActs(X, s)) <=> Has(o.out, ActiveActs(X, s))
      /\ \A X, s : Before(o.out, ActiveActs(X, s), AckActs(asp, s)) =>
                      Before(todo', ActiveActs(X, s), AckActs(asp, s))
      /\ \A s \in Servers :
            s \in deadlines' <=> \/ s \in deadlines /\ ~Has(o.out, StopActs(s))
                                \/ Has(o.out, StartActs(s))
      /\ \A s \in deadlines' : s \in deadlines \/ s \in Servers
    BY <1>1, <1>4, <1>6, AcceptsShows DEF LayerInv, TypesOfLayer
<1>8. /\ TypesOfLayer' /\ StatesFollow' /\ FlagsFollow' /\ RoutesFollow' /\ NothingIsStranded'
      /\ \A y \in Assoc : Served(y) /\ DoorOf(y) \in Gateway => Served(y)'
    BY <1>0, <1>1, <1>6, ReportsAreHeard
<1> HIDE DEF o, asp
<1>9. TimersFollow'
    BY <1>6, <1>7 DEF LayerInv, TimersFollow, Timed
<1>10. LayerInv'
    BY <1>8, <1>9 DEF LayerInv
<1>11. ServedInv'
    <2>1. \A y \in Assoc : task[y] \in {"Serves", "Asks"} => Served(y) /\ DoorOf(y) \in Gateway
        BY DoorIsGateway DEF ServedInv
    <2>2. client' # NoAssoc /\ task'[client'] = "Begins" => DoorOf(client') \notin machine'.up
        BY <1>0, <1>4, <1>5, <1>7 DEF asp
    <2> QED BY <1>0, <1>8, <2>1, <2>2 DEF ServedInv
<1>12. Asking'
    <2>1. ASSUME NEW s \in Servers, NEW a \in Asps, Has(todo', ActiveActs({a}, s))
          PROVE  client' # NoAssoc /\ DoorOf(client') = a
        BY <1>0, <1>2, <1>6, <1>7, <2>1, NoAssocAssumption DEF Acked, asp
    <2>2. ASSUME NEW s \in Servers
          PROVE  Before(todo', ActiveActs(Asps, s), AckActs(asp, s))
        BY <1>3, <1>6, <1>7 DEF Acked
    <2>3. asp = DoorOf(client')
        BY <1>0 DEF asp
    <2> QED BY <2>1, <2>2, <2>3, Zenon DEF Asking
<1>13. Acknowledged' /\ Quieted'
    BY <1>0 DEF AskingInv, Acknowledged, Quieted
<1> QED BY <1>10, <1>11, <1>12, <1>13 DEF AskingInv

\* And of the end of T(r), for which no association waits.
LEMMA TimeoutKeepsLayer ==
    ASSUME SlotInv, LayerInv, ServedInv, AskingInv, NEW s \in Servers, Timeout(s)
    PROVE  LayerInv' /\ ServedInv' /\ AskingInv'
<1> DEFINE input == [kind |-> "Timeout", server |-> s]
           o == Handle(machine, input)
<1>0. todo = <<>> /\ client = NoAssoc /\ Accepts(input) /\ s \in deadlines
      /\ UNCHANGED <<client, entries, slots, task, said>>
    BY DEF Timeout, Idle
<1>1. machine.state[s] = "Pending" /\ Sound(machine)
    BY <1>0 DEF LayerInv, TimersFollow, TypesOfLayer
<1>2. Expired(machine, o, s)
    BY <1>1, RecoveryCarries
<1>3. Sound(o) /\ \A t \in Servers : Reports(machine, o, t)
    BY <1>2 DEF Expired
<1>4. /\ machine'.state = o.state
      /\ \A X, t : Has(todo', ActiveActs(X, t)) <=> Has(o.out, ActiveActs(X, t))
      /\ \A t \in Servers :
            t \in deadlines' <=>
                /\ \/ t \in deadlines /\ ~Has(o.out, StopActs(t))
                   \/ Has(o.out, StartActs(t))
                /\ input.kind = "Timeout" => t # input.server
      /\ \A t \in deadlines' : t \in deadlines \/ t \in Servers
    <2> HIDE DEF input
    <2> QED BY <1>0, <1>1, <1>3, AcceptsShows
<1>5. /\ TypesOfLayer' /\ StatesFollow' /\ FlagsFollow' /\ RoutesFollow' /\ NothingIsStranded'
      /\ \A y \in Assoc : Served(y) /\ DoorOf(y) \in Gateway => Served(y)'
    <2> HIDE DEF input
    <2> QED BY <1>0, <1>3, ReportsAreHeard
<1>6. TimersFollow'
    <2>1. machine.state \in [Servers -> AsState]
        BY <1>1 DEF Sound, Working
    <2> HIDE DEF o
    <2>2. \A t \in Servers : o.state[t] = "Pending" <=> t # s /\ machine.state[t] = "Pending"
        BY <1>2, <2>1 DEF Expired
    <2>3. \A t \in Servers : t \in deadlines' <=> t # s /\ t \in deadlines
        BY <1>2, <1>4 DEF Expired
    <2> QED BY <1>4, <2>2, <2>3 DEF LayerInv, TimersFollow
<1> HIDE DEF o, input
<1>7. LayerInv'
    BY <1>5, <1>6 DEF LayerInv
<1>8. ServedInv'
    <2>1. \A y \in Assoc : task[y] \in {"Serves", "Asks"} => Served(y) /\ DoorOf(y) \in Gateway
        BY DoorIsGateway DEF ServedInv
    <2> QED BY <1>0, <1>5, <2>1 DEF ServedInv
<1>9. Asking'
    <2>1. ASSUME NEW t \in Servers, NEW a \in Asps PROVE ~Has(todo', ActiveActs({a}, t))
        <3>1. ~Has(todo', ActiveActs(Asps, t))
            BY <1>2, <1>4 DEF Expired
        <3> QED BY <3>1 DEF Has, ActiveActs
    <2> QED BY <1>0, <2>1 DEF Asking
<1>10. Acknowledged' /\ Quieted'
    BY <1>0 DEF AskingInv, Acknowledged, Quieted
<1> QED BY <1>7, <1>8, <1>9, <1>10 DEF AskingInv

----------------------------------------------------------------------------
(* Performing what is at the head of todo.                                 *)

\* Of what is to be seen of a sequence, its head is seen first.
LEMMA HeadIsSeen ==
    ASSUME NEW A, NEW seq \in Seq(A), seq # <<>>
    PROVE  /\ \A s, q : SeenState(seq, s, q) =
                 SeenState(Tail(seq), s, IF Head(seq) \in ServerActs(s) THEN Head(seq).state ELSE q)
           /\ \A a, s, q : SeenActive(seq, a, s, q) =
                 SeenActive(Tail(seq), a, s,
                            IF Head(seq) \in AspActs(a, s) THEN Head(seq).state = "Active" ELSE q)
           /\ \A a, s, q : SeenNotice(seq, a, s, q) =
                 SeenNotice(Tail(seq), a, s,
                            IF Head(seq) \in NoticeActs(a, s) THEN StateIn(Head(seq).message) ELSE q)
<1>1. \A K : /\ Has(seq, K) <=> Head(seq) \in K \/ Has(Tail(seq), K)
             /\ Has(Tail(seq), K) => LastIn(Tail(seq), K) = LastIn(seq, K)
             /\ ~Has(Tail(seq), K) /\ Head(seq) \in K => LastIn(seq, K) = Head(seq)
    BY LastOfTail
<1>2. ASSUME NEW s, NEW q
      PROVE  SeenState(seq, s, q) =
                 SeenState(Tail(seq), s, IF Head(seq) \in ServerActs(s) THEN Head(seq).state ELSE q)
    BY <1>1 DEF SeenState
<1>3. ASSUME NEW a, NEW s, NEW q
      PROVE  SeenActive(seq, a, s, q) =
                 SeenActive(Tail(seq), a, s,
                            IF Head(seq) \in AspActs(a, s) THEN Head(seq).state = "Active" ELSE q)
    BY <1>1 DEF SeenActive
<1>4. ASSUME NEW a, NEW s, NEW q
      PROVE  SeenNotice(seq, a, s, q) =
                 SeenNotice(Tail(seq), a, s,
                            IF Head(seq) \in NoticeActs(a, s) THEN StateIn(Head(seq).message) ELSE q)
    BY <1>1 DEF SeenNotice
<1> QED BY <1>2, <1>3, <1>4

\* What the layer has to do of its own says nothing of servers and ASPs.
LEMMA OwnPrefix ==
    ASSUME NEW pre \in Seq(TakeActs \cup FlushActs), NEW rest \in Seq(ToDo)
    PROVE  /\ pre \o rest \in Seq(ToDo)
           /\ \A s, q : SeenState(pre \o rest, s, q) = SeenState(rest, s, q)
           /\ \A a, s, q : /\ SeenActive(pre \o rest, a, s, q) = SeenActive(rest, a, s, q)
                           /\ SeenNotice(pre \o rest, a, s, q) = SeenNotice(rest, a, s, q)
           /\ \A X, s : Has(pre \o rest, ActiveActs(X, s)) <=> Has(rest, ActiveActs(X, s))
           /\ \A X, s, L : Before(rest, ActiveActs(X, s), L) =>
                               Before(pre \o rest, ActiveActs(X, s), L)
<1>1. pre \in Seq(ToDo)
    BY DEF ToDo
<1>2. \A i \in 1 .. Len(pre) : pre[i] \in TakeActs \cup FlushActs
    OBVIOUS
<1>3. ASSUME NEW act \in TakeActs \cup FlushActs, NEW s
      PROVE  /\ act \notin ServerActs(s) /\ act \notin StartActs(s) /\ act \notin StopActs(s)
             /\ \A a : act \notin AspActs(a, s) /\ act \notin NoticeActs(a, s)
             /\ \A X : act \notin ActiveActs(X, s)
    BY DEF TakeActs, FlushActs, ServerActs, StartActs, StopActs, AspActs, NoticeActs, ActiveActs
<1>4. \A s : Silent(pre, s)
    BY <1>2, <1>3 DEF Silent, Has
<1>5. \A s : \A X : ~Has(pre, ActiveActs(X, s))
    BY <1>2, <1>3 DEF Has
<1>6. ASSUME NEW a, NEW s, NEW q
      PROVE  /\ SeenState(pre \o rest, s, q) = SeenState(rest, s, q)
             /\ SeenActive(pre \o rest, a, s, q) = SeenActive(rest, a, s, q)
             /\ SeenNotice(pre \o rest, a, s, q) = SeenNotice(rest, a, s, q)
    <2>1. /\ SeenState(pre \o rest, s, q) = SeenState(rest, s, SeenState(pre, s, q))
          /\ SeenActive(pre \o rest, a, s, q) = SeenActive(rest, a, s, SeenActive(pre, a, s, q))
          /\ SeenNotice(pre \o rest, a, s, q) = SeenNotice(rest, a, s, SeenNotice(pre, a, s, q))
        BY <1>1, SeenInTurn
    <2> QED BY <1>4, <2>1, SilenceSaysNothing
<1>7. \A s, q : SeenState(pre \o rest, s, q) = SeenState(rest, s, q)
    BY <1>6
<1>8. ASSUME NEW X, NEW s
      PROVE  /\ Has(pre \o rest, ActiveActs(X, s)) <=> Has(rest, ActiveActs(X, s))
             /\ \A L : Before(rest, ActiveActs(X, s), L) => Before(pre \o rest, ActiveActs(X, s), L)
    <2> DEFINE K == ActiveActs(X, s)
    <2>1. ~Has(pre, K)
        BY <1>5
    <2> HIDE DEF K
    <2>2. Has(pre \o rest, K) <=> Has(rest, K)
        BY <1>1, <2>1, LastOfConcat
    <2>3. ASSUME NEW L, Before(rest, K, L) PROVE Before(pre \o rest, K, L)
        <3>1. Before(pre, K, L)
            BY <2>1 DEF Before, Has
        <3> QED BY <1>1, <2>3, <3>1, BeforeInConcat
    <2> QED BY <2>2, <2>3 DEF K
<1>9. pre \o rest \in Seq(ToDo)
    BY <1>1
<1> QED BY <1>6, <1>7, <1>8, <1>9

\* What is still to be seen is what was to be seen, and what was performed.
SeenAlike ==
    /\ \A s \in Servers : SeenState(todo', s, entries'[s].state) = SeenState(todo, s, entries[s].state)
    /\ \A s \in Servers, a \in Asps :
          SeenActive(todo', a, s, a \in entries'[s].active) = SeenActive(todo, a, s, a \in entries[s].active)
    /\ \A s \in Servers, a \in Asps :
          SeenNotice(todo', a, s, told'[a][s]) = SeenNotice(todo, a, s, told[a][s])

\* When nothing more and nothing less is to be seen, it is still what the machine is in.
LEMMA SeenAlikeKeeps ==
    ASSUME SlotInv, LayerInv, SeenAlike, UNCHANGED <<machine, deadlines>>
    PROVE  /\ TimersFollow' /\ StatesFollow' /\ FlagsFollow'
           /\ \A x \in Assoc : task[x] # "None" /\ Served(x) => Served(x)'
<1>1. TimersFollow' /\ StatesFollow' /\ FlagsFollow'
    BY DEF LayerInv, TimersFollow, StatesFollow, FlagsFollow, SeenAlike
<1>2. ASSUME NEW x \in Assoc, task[x] # "None", Served(x) PROVE Served(x)'
    <2>1. DoorOf(x) \in Asps
        BY <1>2, DoorIsGateway
    <2> QED BY <1>2, <2>1 DEF Served, SeenAlike, DoorOf
<1> QED BY <1>1, <1>2

\* An act of the machine is what it says it does.
LEMMA VisibleKinds ==
    ASSUME NEW act \in ToDo
    PROVE  /\ act.do = "Asp" => /\ act.asp \in Asps /\ act.server \in Servers
                                /\ act \in AspActs(act.asp, act.server)
                                /\ act.state = "Active" => act \in ActiveActs({act.asp}, act.server)
           /\ act.do = "Server" => act.server \in Servers /\ act \in ServerActs(act.server)
                                   /\ act.state \in AsState
           /\ act.do = "Take" => act \in TakeActs
           /\ act.do = "Flush" => act \in FlushActs
           /\ act.do = "Send" => act \in AnswerActs \/ \E s \in Servers : act \in NotifyActs(s)
<1>1. act \in AnswerActs \/ (\E s \in Servers : act \in ActsOf(s, Asps)) \/ act \in TakeActs
          \/ act \in FlushActs
    BY DEF ToDo, VisibleActs, Action
<1>2. CASE act \in AnswerActs
    BY <1>2 DEF AnswerActs
<1>3. CASE act \in TakeActs \/ act \in FlushActs
    BY <1>3 DEF TakeActs, FlushActs
<1>4. ASSUME NEW s \in Servers, act \in ActsOf(s, Asps)
      PROVE  /\ act.do = "Asp" => /\ act.asp \in Asps /\ act.server = s /\ act.state \in AspState
                                  /\ act = [do |-> "Asp", asp |-> act.asp, server |-> s, state |-> act.state]
             /\ act.do = "Server" => act \in ServerActs(s)
             /\ act.do # "Take" /\ act.do # "Flush"
             /\ act.do = "Send" => act \in NotifyActs(s)
    <2>1. CASE act \in NotifyActs(s)
        BY <2>1 DEF NotifyActs
    <2>2. CASE act \in ServerActs(s) \/ act \in StartActs(s) \/ act \in StopActs(s)
                 \/ act \in [do : {"Activated"}, asp : Asps, server : {s}]
        BY <2>2 DEF ServerActs, StartActs, StopActs
    <2>3. CASE \/ act \in ActiveActs(Asps, s)
               \/ act \in [do : {"Asp"}, asp : Asps, server : {s}, state : {"Inactive", "Down"}]
        BY <2>3 DEF ActiveActs, AspState
    <2> QED BY <1>4, <2>1, <2>2, <2>3 DEF ActsOf
<1>5. CASE \E s \in Servers : act \in ActsOf(s, Asps)
    <2>1. PICK s \in Servers : act \in ActsOf(s, Asps)
        BY <1>5
    <2>2. act.do = "Server" => act.server = s /\ act.state \in AsState
        BY <1>4, <2>1 DEF ServerActs
    <2>3. act.do = "Asp" => /\ act \in AspActs(act.asp, act.server)
                            /\ act.state = "Active" => act \in ActiveActs({act.asp}, act.server)
        BY <1>4, <2>1 DEF AspActs, ActiveActs
    <2> QED BY <1>4, <2>1, <2>2, <2>3
<1> QED BY <1>1, <1>2, <1>3, <1>5

\* The head of todo goes, and what comes instead of it is the layer's own.
LEMMA HeadGoes ==
    ASSUME LayerInv, AskingInv, todo # <<>>, NEW pre \in Seq(TakeActs \cup FlushActs),
           todo' = pre \o Tail(todo), Head(todo).do # "Send", UNCHANGED <<client, said>>
    PROVE  /\ todo' \in Seq(ToDo) /\ Head(todo) \in ToDo
           /\ \A s, q : SeenState(todo, s, q) =
                 SeenState(todo', s, IF Head(todo) \in ServerActs(s) THEN Head(todo).state ELSE q)
           /\ \A a, s, q : SeenActive(todo, a, s, q) =
                 SeenActive(todo', a, s,
                            IF Head(todo) \in AspActs(a, s) THEN Head(todo).state = "Active" ELSE q)
           /\ \A a, s, q : SeenNotice(todo, a, s, q) = SeenNotice(todo', a, s, q)
           /\ Asking'
<1> DEFINE rest == Tail(todo)
           h == Head(todo)
<1>0. todo \in Seq(ToDo) /\ rest \in Seq(ToDo) /\ h \in ToDo
    <2>1. todo \in Seq(ToDo)
        BY DEF LayerInv, TypesOfLayer
    <2> QED BY <2>1
<1>1. /\ \A s, q : SeenState(todo, s, q) =
            SeenState(rest, s, IF h \in ServerActs(s) THEN h.state ELSE q)
      /\ \A a, s, q : SeenActive(todo, a, s, q) =
            SeenActive(rest, a, s, IF h \in AspActs(a, s) THEN h.state = "Active" ELSE q)
      /\ \A a, s, q : SeenNotice(todo, a, s, q) =
            SeenNotice(rest, a, s, IF h \in NoticeActs(a, s) THEN StateIn(h.message) ELSE q)
    BY <1>0, HeadIsSeen
<1>2. /\ \A a, s : h \notin NoticeActs(a, s)
      /\ \A asp, s : h \notin AckActs(asp, s)
    BY DEF NoticeActs, AckActs, AnswerActs
<1>3. \A X, s : Has(rest, ActiveActs(X, s)) => Has(todo, ActiveActs(X, s))
    BY <1>0, LastOfTail
<1>4. ASSUME NEW X, NEW s, NEW asp, Before(todo, ActiveActs(X, s), AckActs(asp, s))
      PROVE  Before(rest, ActiveActs(X, s), AckActs(asp, s))
    BY <1>0, <1>2, <1>4, BeforeInTail
<1> HIDE DEF rest, h
<1>5. /\ todo' \in Seq(ToDo)
      /\ \A s, q : SeenState(todo', s, q) = SeenState(rest, s, q)
      /\ \A a, s, q : /\ SeenActive(todo', a, s, q) = SeenActive(rest, a, s, q)
                      /\ SeenNotice(todo', a, s, q) = SeenNotice(rest, a, s, q)
      /\ \A X, s : Has(todo', ActiveActs(X, s)) <=> Has(rest, ActiveActs(X, s))
      /\ \A X, s, L : Before(rest, ActiveActs(X, s), L) => Before(todo', ActiveActs(X, s), L)
    <2>1. todo' = pre \o rest
        BY DEF rest
    <2>2. /\ pre \o rest \in Seq(ToDo)
          /\ \A s, q : SeenState(pre \o rest, s, q) = SeenState(rest, s, q)
          /\ \A a, s, q : /\ SeenActive(pre \o rest, a, s, q) = SeenActive(rest, a, s, q)
                          /\ SeenNotice(pre \o rest, a, s, q) = SeenNotice(rest, a, s, q)
          /\ \A X, s : Has(pre \o rest, ActiveActs(X, s)) <=> Has(rest, ActiveActs(X, s))
          /\ \A X, s, L : Before(rest, ActiveActs(X, s), L) =>
                              Before(pre \o rest, ActiveActs(X, s), L)
        BY <1>0, OwnPrefix
    <2> QED BY <2>1, <2>2, Zenon
<1>6. Asking'
    <2>1. ASSUME NEW s \in Servers, NEW a \in Asps, Has(todo', ActiveActs({a}, s))
          PROVE  client # NoAssoc /\ DoorOf(client) = a
        BY <1>3, <1>5, <2>1 DEF AskingInv, Asking
    <2>2. ASSUME NEW s \in Servers, client # NoAssoc
          PROVE  \/ <<client, s>> \in said
                 \/ Before(todo', ActiveActs(Asps, s), AckActs(DoorOf(client), s))
        BY <1>4, <1>5, <2>2 DEF AskingInv, Asking
    <2>3. DoorOf(client)' = DoorOf(client)
        BY DEF DoorOf
    <2> QED BY <2>1, <2>2, <2>3 DEF Asking
<1> QED BY <1>0, <1>1, <1>2, <1>5, <1>6 DEF rest, h

\* perform, Asp: a flag is set or put out as todo said it would be.
LEMMA PerformAspKeepsLayer ==
    ASSUME SlotInv, LayerInv, ServedInv, AskingInv, PerformAsp
    PROVE  LayerInv' /\ ServedInv' /\ AskingInv'
<1> DEFINE h == Head(todo)
<1>0. /\ todo # <<>> /\ h.do = "Asp" /\ todo' = Tail(todo)
      /\ entries' = [entries EXCEPT ![h.server] = SetAspActive(entries[h.server], h.asp, h.state = "Active")]
      /\ UNCHANGED <<machine, client, deadlines, requests, slots, task, fate, said, told>>
    BY DEF PerformAsp, Performs, transfer
<1>1. todo' = <<>> \o Tail(todo) /\ <<>> \in Seq(TakeActs \cup FlushActs)
    <2>1. todo \in Seq(ToDo)
        BY DEF LayerInv, TypesOfLayer
    <2> QED BY <1>0, <2>1
<1>2. /\ todo' \in Seq(ToDo) /\ h \in ToDo
      /\ \A s, q : SeenState(todo, s, q) =
            SeenState(todo', s, IF h \in ServerActs(s) THEN h.state ELSE q)
      /\ \A a, s, q : SeenActive(todo, a, s, q) =
            SeenActive(todo', a, s, IF h \in AspActs(a, s) THEN h.state = "Active" ELSE q)
      /\ \A a, s, q : SeenNotice(todo, a, s, q) = SeenNotice(todo', a, s, q)
      /\ Asking'
    BY <1>0, <1>1, HeadGoes
<1>3. /\ h.asp \in Asps /\ h.server \in Servers /\ h \in AspActs(h.asp, h.server)
      /\ h.state = "Active" => h \in ActiveActs({h.asp}, h.server)
    BY <1>0, <1>2, VisibleKinds
<1>4. /\ \A a, s : h \in AspActs(a, s) <=> a = h.asp /\ s = h.server
      /\ \A s : h \notin ServerActs(s)
    BY <1>0, <1>3 DEF AspActs, ServerActs
<1>5. entries \in [Servers -> Entry]
    BY DEF LayerInv, TypesOfLayer
<1> HIDE DEF h
<1>6. ASSUME NEW s \in Servers
      PROVE  /\ entries'[s].state = entries[s].state /\ entries'[s].pending = entries[s].pending
             /\ entries'[s].up = entries[s].up /\ entries'[s] \in Entry
             /\ \A a \in Asps : a \in entries'[s].active <=>
                    IF a = h.asp /\ s = h.server THEN h.state = "Active" ELSE a \in entries[s].active
    <2>1. CASE s = h.server
        BY <1>0, <1>3, <1>5, <2>1 DEF SetAspActive, Entry
    <2>2. CASE s # h.server
        BY <1>0, <1>3, <1>5, <2>2
    <2> QED BY <2>1, <2>2
<1>7. SeenAlike
    <2>1. ASSUME NEW s \in Servers
          PROVE  SeenState(todo', s, entries'[s].state) = SeenState(todo, s, entries[s].state)
        BY <1>2, <1>4, <1>6
    <2>2. ASSUME NEW s \in Servers, NEW a \in Asps
          PROVE  SeenActive(todo', a, s, a \in entries'[s].active) = SeenActive(todo, a, s, a \in entries[s].active)
        <3>1. (a \in entries'[s].active) = IF h \in AspActs(a, s) THEN h.state = "Active" ELSE a \in entries[s].active
            BY <1>4, <1>6
        <3> QED BY <1>2, <3>1
    <2> QED BY <1>0, <1>2, <2>1, <2>2 DEF SeenAlike
<1>8. /\ TimersFollow' /\ StatesFollow' /\ FlagsFollow'
      /\ \A x \in Assoc : task[x] # "None" /\ Served(x) => Served(x)'
    BY <1>0, <1>7, SeenAlikeKeeps
<1>9. TypesOfLayer'
    <2>1. entries' \in [Servers -> Entry]
        BY <1>0, <1>5, <1>6
    <2> QED BY <1>0, <1>2, <2>1 DEF LayerInv, TypesOfLayer
<1>10. RoutesFollow' /\ NothingIsStranded'
    <2>1. \A s : ~Taking(s)
        BY <1>0 DEF Taking, h
    <2> QED BY <1>0, <1>6, <2>1 DEF LayerInv, RoutesFollow, NothingIsStranded, Taking
<1>11. ServedInv'
    BY <1>0, <1>8 DEF ServedInv, DoorOf
<1>12. ASSUME NEW s \in Servers, NEW a \in entries'[s].active, a \notin entries[s].active
       PROVE  /\ client \in Assoc /\ slots[a].occupant = client /\ <<client, s>> \in said
              /\ task[client] \in Submitted /\ a \in Asps
    <2>1. a \in Asps
        BY <1>6 DEF Entry
    <2>2. a = h.asp /\ s = h.server /\ h.state = "Active"
        BY <1>6, <1>12, <2>1
    <2>3. h \in ActiveActs({a}, s) /\ h \in ActiveActs(Asps, s)
        BY <1>3, <2>1, <2>2 DEF ActiveActs
    <2>4. todo \in Seq(ToDo) /\ h = todo[1] /\ 1 \in 1 .. Len(todo)
        <3>1. todo \in Seq(ToDo)
            BY DEF LayerInv, TypesOfLayer
        <3> QED BY <1>0, <3>1 DEF h
    <2>5. client # NoAssoc /\ DoorOf(client) = a
        BY <2>1, <2>3, <2>4 DEF AskingInv, Asking, Has
    <2>6. <<client, s>> \in said
        <3>1. ~Before(todo, ActiveActs(Asps, s), AckActs(DoorOf(client), s))
            BY <2>3, <2>4 DEF Before
        <3> QED BY <2>5, <3>1 DEF AskingInv, Asking
    <2>7. client \in Assoc /\ task[client] \in Submitted
        BY <2>5 DEF SlotInv, Submissions
    <2> QED BY <2>1, <2>5, <2>6, <2>7 DEF SlotInv, Occupants, Submitted, Holding
<1>13. Acknowledged'
    <2> SUFFICES ASSUME NEW s \in Servers, NEW a \in entries'[s].active, slots[a].sender # NoAssoc
                 PROVE  <<slots[a].sender, s>> \in said
        BY <1>0 DEF Acknowledged
    <2>1. CASE a \in entries[s].active
        BY <2>1 DEF AskingInv, Acknowledged
    <2>2. CASE a \notin entries[s].active
        <3>1. slots[a].sender \in Assoc
            BY <1>12, <2>2 DEF SlotInv, TypesOfSlots, Slot
        <3>2. slots[a].sender = client
            BY <1>12, <2>2, <3>1 DEF SlotInv, Senders
        <3> QED BY <1>12, <2>2, <3>2
    <2> QED BY <2>1, <2>2
<1>14. Quieted'
    <2> SUFFICES ASSUME NEW x \in Assoc, NEW s \in Servers, task[x] = "Quiet",
                        DoorOf(x) \in entries'[s].active
                 PROVE  FALSE
        BY <1>0 DEF Quieted, DoorOf
    <2>1. DoorOf(x) \notin entries[s].active
        BY DEF AskingInv, Quieted
    <2>2. slots[DoorOf(x)].occupant = client /\ task[client] \in Submitted /\ DoorOf(x) \in Asps
        BY <1>12, <2>1
    <2>3. slots[DoorOf(x)].occupant = x
        BY <2>2 DEF SlotInv, Occupants, Holding
    <2> QED BY <2>2, <2>3 DEF Submitted
<1> QED BY <1>2, <1>8, <1>9, <1>10, <1>11, <1>13, <1>14 DEF LayerInv, AskingInv

\* What is put before a sequence is its head.
LEMMA FirstOfConcat ==
    ASSUME NEW A, NEW e \in A, NEW rest \in Seq(A)
    PROVE  <<e>> \o rest # <<>> /\ Head(<<e>> \o rest) = e
OBVIOUS

\* perform, Server: the state is stored, and the queue of its server looked at next.
LEMMA PerformServerKeepsLayer ==
    ASSUME SlotInv, LayerInv, ServedInv, AskingInv, PerformServer
    PROVE  LayerInv' /\ ServedInv' /\ AskingInv'
<1> DEFINE h == Head(todo)
           take == [h EXCEPT !.do = "Take"]
           pre == <<take>>
<1>0. /\ todo # <<>> /\ h.do = "Server" /\ todo' = pre \o Tail(todo)
      /\ entries' = [entries EXCEPT ![h.server] = StoreState(entries[h.server], h.state)]
      /\ UNCHANGED <<machine, client, deadlines, requests, slots, task, fate, said, told>>
    BY DEF PerformServer, transfer
<1>1. /\ h \in ToDo /\ h.server \in Servers /\ h \in ServerActs(h.server) /\ h.state \in AsState
      /\ todo \in Seq(ToDo) /\ Tail(todo) \in Seq(ToDo)
    <2>1. todo \in Seq(ToDo) /\ Tail(todo) \in Seq(ToDo) /\ h \in ToDo
        <3>1. todo \in Seq(ToDo)
            BY DEF LayerInv, TypesOfLayer
        <3> QED BY <1>0, <3>1
    <2> HIDE DEF h
    <2> QED BY <1>0, <2>1, VisibleKinds
<1>2. take \in TakeActs /\ take.do = "Take" /\ take.server = h.server
    BY <1>1 DEF TakeActs, ServerActs
<1>3. /\ \A s : h \in ServerActs(s) <=> s = h.server
      /\ \A a, s : h \notin AspActs(a, s)
    BY <1>0, <1>1 DEF AspActs, ServerActs
<1> HIDE DEF take
<1>4. /\ pre \in Seq(TakeActs \cup FlushActs)
      /\ todo' # <<>> /\ Head(todo') = take
    <2>1. pre \in Seq(TakeActs \cup FlushActs)
        BY <1>2
    <2>2. take \in ToDo
        BY <1>2 DEF ToDo
    <2>3. pre \o Tail(todo) # <<>> /\ Head(pre \o Tail(todo)) = take
        BY <1>1, <2>2, FirstOfConcat
    <2> QED BY <1>0, <2>1, <2>3
<1>5. /\ todo' \in Seq(ToDo)
      /\ \A s, q : SeenState(todo, s, q) =
            SeenState(todo', s, IF h \in ServerActs(s) THEN h.state ELSE q)
      /\ \A a, s, q : SeenActive(todo, a, s, q) =
            SeenActive(todo', a, s, IF h \in AspActs(a, s) THEN h.state = "Active" ELSE q)
      /\ \A a, s, q : SeenNotice(todo, a, s, q) = SeenNotice(todo', a, s, q)
      /\ Asking'
    <2>1. Head(todo).do # "Send"
        BY <1>0
    <2> HIDE DEF pre
    <2> QED BY <1>0, <1>4, <2>1, HeadGoes
<1>6. entries \in [Servers -> Entry]
    BY DEF LayerInv, TypesOfLayer
<1>7. \A s : ~Taking(s)
    BY <1>0 DEF Taking
<1> HIDE DEF h, pre
<1>8. ASSUME NEW s \in Servers
      PROVE  /\ entries'[s].active = entries[s].active /\ entries'[s].pending = entries[s].pending
             /\ entries'[s].up = entries[s].up /\ entries'[s] \in Entry
             /\ entries'[s].state = IF h \in ServerActs(s) THEN h.state ELSE entries[s].state
             /\ s = h.server => Taking(s)'
    <2>1. CASE s = h.server
        BY <1>0, <1>1, <1>2, <1>3, <1>4, <1>6, <2>1 DEF StoreState, Entry, Taking
    <2>2. CASE s # h.server
        BY <1>0, <1>1, <1>3, <1>6, <2>2
    <2> QED BY <2>1, <2>2
<1>9. SeenAlike
    BY <1>0, <1>3, <1>5, <1>8 DEF SeenAlike
<1>10. /\ TimersFollow' /\ StatesFollow' /\ FlagsFollow'
       /\ \A x \in Assoc : task[x] # "None" /\ Served(x) => Served(x)'
    BY <1>0, <1>9, SeenAlikeKeeps
<1>11. TypesOfLayer'
    <2>1. entries' \in [Servers -> Entry]
        BY <1>0, <1>6, <1>8
    <2> QED BY <1>0, <1>5, <2>1 DEF LayerInv, TypesOfLayer
<1>12. RoutesFollow' /\ NothingIsStranded'
    <2> SUFFICES ASSUME NEW s \in Servers
                 PROVE  /\ Taking(s)' \/ (entries'[s].up <=> entries'[s].state \in {"Active", "Pending"})
                        /\ entries'[s].pending # <<>> => entries'[s].state = "Pending" \/ Taking(s)'
        BY DEF RoutesFollow, NothingIsStranded, Taking
    <2>1. CASE s = h.server
        BY <1>8, <2>1
    <2>2. CASE s # h.server
        BY <1>3, <1>7, <1>8, <2>2 DEF LayerInv, RoutesFollow, NothingIsStranded, Taking
    <2> QED BY <2>1, <2>2
<1>13. ServedInv'
    BY <1>0, <1>10 DEF ServedInv, DoorOf
<1>14. Acknowledged' /\ Quieted'
    BY <1>0, <1>8 DEF AskingInv, Acknowledged, Quieted, DoorOf
<1> QED BY <1>5, <1>10, <1>11, <1>12, <1>13, <1>14 DEF LayerInv, AskingInv

\* What routing is told of an entry changes nothing else of it.
LEMMA Recomputed ==
    ASSUME NEW entry \in Entry
    PROVE  /\ Recompute(entry) \in Entry
           /\ Recompute(entry).active = entry.active /\ Recompute(entry).state = entry.state
           /\ Recompute(entry).pending = entry.pending
           /\ Recompute(entry).up <=> entry.state \in {"Active", "Pending"}
<1> DEFINE up == entry.state \in {"Active", "Pending"}
           new == [entry EXCEPT !.up = up]
<1>1. Recompute(entry) = new
    BY DEF Recompute
<1>2. up \in BOOLEAN /\ (up <=> entry.state \in {"Active", "Pending"})
    OBVIOUS
<1> HIDE DEF up
<1>3. new \in Entry /\ new.active = entry.active /\ new.state = entry.state
      /\ new.pending = entry.pending /\ new.up = up
    BY <1>2 DEF Entry
<1> QED BY <1>1, <1>2, <1>3

\* perform, Server: the queue is sent or dropped unless the server is pending, and routed for.
LEMMA PerformTakeKeepsLayer ==
    ASSUME SlotInv, LayerInv, ServedInv, AskingInv, PerformTake
    PROVE  LayerInv' /\ ServedInv' /\ AskingInv'
<1> DEFINE h == Head(todo)
           t == h.server
           queued == IF TakesQueue(entries[t]) THEN entries[t].pending ELSE <<>>
           taken == IF TakesQueue(entries[t]) THEN TakeQueue(entries[t]) ELSE entries[t]
           flushes == [i \in 1 .. Len(queued) |-> [do |-> "Flush", msu |-> queued[i]]]
           pre == IF entries[t].state = "Active" THEN flushes ELSE <<>>
<1>0. /\ todo # <<>> /\ h.do = "Take"
      /\ entries' = [entries EXCEPT ![t] = Recompute(taken)]
      /\ entries[t].state = "Active" => todo' = flushes \o Tail(todo)
      /\ entries[t].state # "Active" => todo' = Tail(todo)
      /\ UNCHANGED <<machine, client, deadlines, requests, slots, task, said, told>>
    BY DEF PerformTake
<1>1. /\ h \in ToDo /\ t \in Servers /\ h \in TakeActs
      /\ todo \in Seq(ToDo) /\ Tail(todo) \in Seq(ToDo)
    <2>1. todo \in Seq(ToDo) /\ Tail(todo) \in Seq(ToDo) /\ h \in ToDo
        <3>1. todo \in Seq(ToDo)
            BY DEF LayerInv, TypesOfLayer
        <3> QED BY <1>0, <3>1
    <2>2. h \in TakeActs
        <3> HIDE DEF h
        <3> QED BY <1>0, <2>1, VisibleKinds
    <2> QED BY <2>1, <2>2 DEF TakeActs
<1>2. entries \in [Servers -> Entry] /\ entries[t] \in Entry
    BY <1>1 DEF LayerInv, TypesOfLayer
<1>3. /\ \A s : h \notin ServerActs(s)
      /\ \A a, s : h \notin AspActs(a, s)
    BY <1>0 DEF AspActs, ServerActs
<1> HIDE DEF h
<1>4. pre \in Seq(TakeActs \cup FlushActs)
    <2>1. queued \in Seq(Msu)
        BY <1>2 DEF Entry
    <2> HIDE DEF queued
    <2>2. \A m \in Msu : [do |-> "Flush", msu |-> m] \in TakeActs \cup FlushActs
        BY DEF FlushActs
    <2>3. flushes \in Seq(TakeActs \cup FlushActs)
        BY <2>1, <2>2
    <2> HIDE DEF flushes
    <2> QED BY <2>3
<1>5. todo' = pre \o Tail(todo)
    <2>1. CASE entries[t].state = "Active"
        BY <1>0, <2>1 DEF h
    <2>2. CASE entries[t].state # "Active"
        <3>1. pre = <<>> /\ todo' = Tail(todo)
            BY <1>0, <2>2
        <3> HIDE DEF pre
        <3> QED BY <1>1, <3>1
    <2> QED BY <2>1, <2>2
<1> HIDE DEF pre
<1>6. /\ todo' \in Seq(ToDo)
      /\ \A s, q : SeenState(todo, s, q) =
            SeenState(todo', s, IF h \in ServerActs(s) THEN h.state ELSE q)
      /\ \A a, s, q : SeenActive(todo, a, s, q) =
            SeenActive(todo', a, s, IF h \in AspActs(a, s) THEN h.state = "Active" ELSE q)
      /\ \A a, s, q : SeenNotice(todo, a, s, q) = SeenNotice(todo', a, s, q)
      /\ Asking'
    <2>1. Head(todo).do # "Send" /\ UNCHANGED <<client, said>>
        BY <1>0 DEF h
    <2> HIDE DEF t, queued, taken, flushes
    <2> QED BY <1>0, <1>4, <1>5, <2>1, HeadGoes DEF h
<1>7. ASSUME NEW s \in Servers
      PROVE  /\ entries'[s].active = entries[s].active /\ entries'[s].state = entries[s].state
             /\ entries'[s] \in Entry
             /\ s # t => entries'[s] = entries[s]
             /\ s = t => /\ entries'[s].up <=> entries[s].state \in {"Active", "Pending"}
                         /\ entries'[s].pending # <<>> => entries[s].state = "Pending"
    <2>1. CASE s = t
        <3>1. taken \in Entry /\ taken.active = entries[t].active /\ taken.state = entries[t].state
              /\ (taken.pending # <<>> => entries[t].state = "Pending")
            <4>1. <<>> \in Seq(Msu)
                OBVIOUS
            <4> QED BY <1>2, <4>1 DEF TakesQueue, TakeQueue, Entry
        <3> HIDE DEF taken
        <3>2. entries'[t] = Recompute(taken)
            BY <1>0, <1>1, <1>2
        <3>3. /\ Recompute(taken) \in Entry
              /\ Recompute(taken).active = taken.active /\ Recompute(taken).state = taken.state
              /\ Recompute(taken).pending = taken.pending
              /\ Recompute(taken).up <=> taken.state \in {"Active", "Pending"}
            BY <3>1, Recomputed
        <3> QED BY <2>1, <3>1, <3>2, <3>3
    <2>2. CASE s # t
        BY <1>0, <1>2, <2>2
    <2> QED BY <2>1, <2>2
<1>8. SeenAlike
    BY <1>0, <1>3, <1>6, <1>7 DEF SeenAlike
<1>9. /\ TimersFollow' /\ StatesFollow' /\ FlagsFollow'
      /\ \A x \in Assoc : task[x] # "None" /\ Served(x) => Served(x)'
    BY <1>0, <1>8, SeenAlikeKeeps
<1>10. TypesOfLayer'
    <2>1. entries' \in [Servers -> Entry]
        BY <1>0, <1>2, <1>7
    <2> QED BY <1>0, <1>6, <2>1 DEF LayerInv, TypesOfLayer
<1>11. RoutesFollow' /\ NothingIsStranded'
    <2>1. \A s : s # t => ~Taking(s)
        BY DEF Taking, h
    <2>2. \A s \in Servers :
              /\ entries'[s].up <=> entries'[s].state \in {"Active", "Pending"}
              /\ entries'[s].pending # <<>> => entries'[s].state = "Pending"
        BY <1>7, <2>1 DEF LayerInv, RoutesFollow, NothingIsStranded, Taking
    <2> QED BY <2>2 DEF RoutesFollow, NothingIsStranded
<1>12. ServedInv'
    BY <1>0, <1>9 DEF ServedInv, DoorOf
<1>13. Acknowledged' /\ Quieted'
    BY <1>0, <1>7 DEF AskingInv, Acknowledged, Quieted, DoorOf
<1> QED BY <1>6, <1>9, <1>10, <1>11, <1>12, <1>13 DEF LayerInv, AskingInv

\* A queued message is sent.
LEMMA FlushKeepsLayer ==
    ASSUME SlotInv, LayerInv, ServedInv, AskingInv, Flush
    PROVE  LayerInv' /\ ServedInv' /\ AskingInv'
<1> DEFINE h == Head(todo)
<1>0. /\ todo # <<>> /\ h.do = "Flush" /\ todo' = Tail(todo)
      /\ UNCHANGED <<machine, client, deadlines, requests, entries, slots, task, said, told>>
    BY DEF Flush, Performs
<1>1. todo' = <<>> \o Tail(todo) /\ <<>> \in Seq(TakeActs \cup FlushActs)
    <2>1. todo \in Seq(ToDo)
        BY DEF LayerInv, TypesOfLayer
    <2> QED BY <1>0, <2>1
<1>2. /\ todo' \in Seq(ToDo)
      /\ \A s, q : SeenState(todo, s, q) =
            SeenState(todo', s, IF h \in ServerActs(s) THEN h.state ELSE q)
      /\ \A a, s, q : SeenActive(todo, a, s, q) =
            SeenActive(todo', a, s, IF h \in AspActs(a, s) THEN h.state = "Active" ELSE q)
      /\ \A a, s, q : SeenNotice(todo, a, s, q) = SeenNotice(todo', a, s, q)
      /\ Asking'
    BY <1>0, <1>1, HeadGoes
<1>3. /\ \A s : h \notin ServerActs(s)
      /\ \A a, s : h \notin AspActs(a, s)
      /\ \A s : ~Taking(s)
    BY <1>0 DEF AspActs, ServerActs, Taking
<1> HIDE DEF h
<1>4. SeenAlike
    BY <1>0, <1>2, <1>3 DEF SeenAlike
<1>5. /\ TimersFollow' /\ StatesFollow' /\ FlagsFollow'
      /\ \A x \in Assoc : task[x] # "None" /\ Served(x) => Served(x)'
    BY <1>0, <1>4, SeenAlikeKeeps
<1>6. TypesOfLayer' /\ RoutesFollow' /\ NothingIsStranded'
    BY <1>0, <1>2, <1>3 DEF LayerInv, TypesOfLayer, RoutesFollow, NothingIsStranded, Taking
<1>7. ServedInv'
    BY <1>0, <1>5 DEF ServedInv, DoorOf
<1>8. Acknowledged' /\ Quieted'
    BY <1>0 DEF AskingInv, Acknowledged, Quieted, DoorOf
<1> QED BY <1>2, <1>5, <1>6, <1>7, <1>8 DEF LayerInv, AskingInv

\* The client goes on.  One that began was of an ASP that is down, so that there
\* is nothing it could have missed.
LEMMA DoneKeepsLayer ==
    ASSUME SlotInv, LayerInv, ServedInv, AskingInv, Done
    PROVE  LayerInv' /\ ServedInv' /\ AskingInv'
<1>0. /\ todo = <<>> /\ todo' = <<>> /\ client # NoAssoc /\ client' = NoAssoc
      /\ task' = [task EXCEPT ![client] = IF task[client] = "Ends" THEN "Leaves" ELSE "Serves"]
      /\ entries' = [s \in Servers |-> Recompute(entries[s])]
      /\ UNCHANGED <<todo, machine, deadlines, requests, slots, fate, said, told>>
    BY DEF Done, transfer
<1>1. client \in Assoc /\ task[client] \in Submitted /\ task \in [Assoc -> TaskState]
    BY <1>0 DEF SlotInv, Submissions, TypesOfSlots
<1>2. entries \in [Servers -> Entry]
    BY DEF LayerInv, TypesOfLayer
<1>3. ASSUME NEW s \in Servers
      PROVE  /\ entries'[s].active = entries[s].active /\ entries'[s].state = entries[s].state
             /\ entries'[s].pending = entries[s].pending /\ entries'[s] \in Entry
             /\ entries'[s].up <=> entries'[s].state \in {"Active", "Pending"}
    <2>1. entries'[s] = Recompute(entries[s]) /\ entries[s] \in Entry
        BY <1>0, <1>2
    <2> QED BY <2>1, Recomputed
<1>4. SeenAlike
    BY <1>0, <1>3 DEF SeenAlike
<1>5. /\ TimersFollow' /\ StatesFollow' /\ FlagsFollow'
      /\ \A x \in Assoc : task[x] # "None" /\ Served(x) => Served(x)'
    BY <1>0, <1>4, SeenAlikeKeeps
<1>6. TypesOfLayer'
    <2>1. entries' \in [Servers -> Entry]
        BY <1>0, <1>3
    <2> QED BY <1>0, <2>1 DEF LayerInv, TypesOfLayer
<1>7. RoutesFollow' /\ NothingIsStranded'
    BY <1>0, <1>3 DEF LayerInv, RoutesFollow, NothingIsStranded
<1>8. ServedInv'
    <2>1. ASSUME NEW x \in Assoc, task'[x] \in {"Serves", "Asks"} PROVE Served(x)'
        <3>1. CASE x # client
            <4>1. task[x] \in {"Serves", "Asks"}
                BY <1>0, <1>1, <2>1, <3>1
            <4> QED BY <1>5, <4>1 DEF ServedInv
        <3>2. CASE x = client /\ task[client] = "Asks"
            BY <1>5, <3>2 DEF ServedInv
        <3>3. CASE x = client /\ task[client] = "Begins"
            <4>1. DoorOf(x) \notin machine'.up
                BY <1>0, <3>3 DEF ServedInv
            <4> QED BY <4>1 DEF Served, IsActive, UpIn, DoorOf
        <3>4. CASE x = client /\ task[client] = "Ends"
            BY <1>0, <1>1, <2>1, <3>4
        <3> QED BY <1>1, <3>1, <3>2, <3>3, <3>4 DEF Submitted
    <2> QED BY <1>0, <2>1 DEF ServedInv
<1>9. Asking'
    BY <1>0, NothingSeen DEF Asking
<1>10. Acknowledged' /\ Quieted'
    <2>1. ASSUME NEW x \in Assoc, task'[x] = "Quiet" PROVE task[x] = "Quiet"
        BY <1>0, <1>1, <2>1 DEF Submitted
    <2> QED BY <1>0, <1>3, <2>1 DEF AskingInv, Acknowledged, Quieted, DoorOf
<1> QED BY <1>5, <1>6, <1>7, <1>8, <1>9, <1>10 DEF LayerInv, AskingInv

\* The messages at the head of todo end somewhere.
LEMMA MessagesEnd ==
    ASSUME todo \in Seq(ToDo), todo # <<>>, Head(todo).do = "Send"
    PROVE  \E n \in 1 .. Len(todo) : /\ \A j \in 1 .. n : todo[j].do = "Send"
                                     /\ n < Len(todo) => todo[n + 1].do # "Send"
<1> DEFINE S == {n \in 0 .. Len(todo) : \A j \in 1 .. n : todo[j].do = "Send"}
<1>0. Len(todo) \in Nat \ {0} /\ todo[1].do = "Send"
    OBVIOUS
<1>1. 1 \in S /\ S \in SUBSET (0 .. Len(todo))
    BY <1>0
<1>2. PICK n \in S : \A k \in S : k <= n
    <2> HIDE DEF S
    <2> QED BY <1>0, <1>1, GreatestElement
<1>3. n \in 1 .. Len(todo) /\ \A j \in 1 .. n : todo[j].do = "Send"
    BY <1>0, <1>1, <1>2
<1>4. n < Len(todo) => todo[n + 1].do # "Send"
    <2> SUFFICES ASSUME n < Len(todo), todo[n + 1].do = "Send" PROVE FALSE
        OBVIOUS
    <2>1. n + 1 \in S
        BY <1>0, <1>3
    <2> QED BY <1>2, <1>3, <2>1
<1> QED BY <1>3, <1>4

\* A message about a state is what it says it is.
LEMMA MessageIsNotice ==
    ASSUME NEW act \in ToDo, act.do = "Send", NEW a \in Asps, NEW s \in Servers
    PROVE  /\ act \in NoticeActs(a, s) <=>
                  act.asp = a /\ act.message \in StateNotices /\ s \in act.about
           /\ \A t : act \notin ServerActs(t)
           /\ \A b, t : act \notin AspActs(b, t)
           /\ act \in AckActs(a, s) => act.message = "ActiveAck" /\ s \in act.about
           /\ act.message \in StateNotices => StateIn(act.message) \in AsState
<1>1. \A t : act \notin ServerActs(t)
    BY DEF ServerActs
<1>2. \A b, t : act \notin AspActs(b, t)
    BY DEF AspActs
<1>3. act \in AnswerActs \/ \E t \in Servers : act \in NotifyActs(t)
    BY VisibleKinds
<1>4. act \in AnswerActs => act.message \notin StateNotices
    BY DEF AnswerActs, Answers, StateNotices
<1>5. ASSUME NEW t \in Servers, act \in NotifyActs(t)
      PROVE  act \in NoticeActs(a, s) <=> act.asp = a /\ act.message \in StateNotices /\ s \in act.about
    <2>1. act = [do |-> "Send", asp |-> act.asp, message |-> act.message, about |-> {t}]
        BY <1>5 DEF NotifyActs
    <2>2. s \in act.about => s = t
        BY <2>1
    <2> QED BY <2>1, <2>2 DEF NoticeActs
<1>6. act \in NoticeActs(a, s) <=> act.asp = a /\ act.message \in StateNotices /\ s \in act.about
    <2>1. act \in NoticeActs(a, s) => act.message \in StateNotices
        BY DEF NoticeActs
    <2> QED BY <1>3, <1>4, <1>5, <2>1
<1>7. act.message \in StateNotices => StateIn(act.message) \in AsState
    BY DEF StateNotices, StateIn, AsState
<1>8. act \in AckActs(a, s) => act.message = "ActiveAck" /\ s \in act.about
    BY DEF AckActs
<1> QED BY <1>1, <1>2, <1>6, <1>7, <1>8

\* What is seen of two sequences, for every server and ASP.
LEMMA SeenInParts ==
    ASSUME NEW A, NEW pre \in Seq(A), NEW suf \in Seq(A)
    PROVE  /\ \A s, q : SeenState(pre \o suf, s, q) = SeenState(suf, s, SeenState(pre, s, q))
           /\ \A a, s, q :
                 /\ SeenActive(pre \o suf, a, s, q) = SeenActive(suf, a, s, SeenActive(pre, a, s, q))
                 /\ SeenNotice(pre \o suf, a, s, q) = SeenNotice(suf, a, s, SeenNotice(pre, a, s, q))
<1>1. ASSUME NEW a, NEW s, NEW q
      PROVE  /\ SeenState(pre \o suf, s, q) = SeenState(suf, s, SeenState(pre, s, q))
             /\ SeenActive(pre \o suf, a, s, q) = SeenActive(suf, a, s, SeenActive(pre, a, s, q))
             /\ SeenNotice(pre \o suf, a, s, q) = SeenNotice(suf, a, s, SeenNotice(pre, a, s, q))
    BY SeenInTurn
<1> QED BY <1>1

\* What the messages at the head of todo say is told to those who have an
\* association, or given up, and an acknowledgement among them is remembered.
LEMMA PerformSendTells ==
    ASSUME SlotInv, LayerInv, AskingInv, PerformSend
    PROVE  /\ todo' \in Seq(ToDo) /\ told' \in [Asps -> [Servers -> Heard]]
           /\ \A s \in Servers : \A q : SeenState(todo', s, q) = SeenState(todo, s, q)
           /\ \A a \in Asps, s \in Servers :
                 /\ \A q : SeenActive(todo', a, s, q) = SeenActive(todo, a, s, q)
                 /\ slots[a].sender # NoAssoc =>
                       SeenNotice(todo', a, s, told'[a][s])
                           \in {SeenNotice(todo, a, s, told[a][s]), "NotSent"}
           /\ said \subseteq said'
           /\ Asking'
<1> DEFINE n == CHOOSE i \in 1 .. Len(todo) :
                    /\ \A j \in 1 .. i : todo[j].do = "Send"
                    /\ i < Len(todo) => todo[i + 1].do # "Send"
           To(a, s) == {i \in 1 .. n : /\ todo[i].asp = a
                                       /\ todo[i].message \in StateNotices
                                       /\ s \in todo[i].about}
           Last(I)  == CHOOSE i \in I : \A j \in I : j <= i
           pre == SubSeq(todo, 1, n)
           suf == SubSeq(todo, n + 1, Len(todo))
<1> DEFINE Giving(notSent) ==
               told' = [a \in Asps |-> [s \in Servers |->
                           IF To(a, s) = {} \/ slots[a].sender = NoAssoc THEN told[a][s]
                           ELSE IF Last(To(a, s)) \in notSent THEN "NotSent"
                           ELSE StateIn(todo[Last(To(a, s))].message)]]
<1>0. /\ \E notSent \in SUBSET (1 .. n) : Giving(notSent)
      /\ said' = said \cup UNION {{client} \X todo[i].about :
                                      i \in {j \in 1 .. n : todo[j].message = "ActiveAck"}}
      /\ todo' = suf
      /\ todo # <<>> /\ Head(todo).do = "Send"
      /\ UNCHANGED client
    BY DEF PerformSend
<1>18. PICK notSent \in SUBSET (1 .. n) : Giving(notSent)
    BY <1>0, Zenon
<1>1. todo \in Seq(ToDo) /\ \A i \in 1 .. Len(todo) : todo[i] \in ToDo
    BY DEF LayerInv, TypesOfLayer
<1>2. n \in 1 .. Len(todo) /\ \A j \in 1 .. n : todo[j].do = "Send"
    BY <1>0, <1>1, MessagesEnd
<1> HIDE DEF n
<1>3. n \in Nat /\ Len(todo) \in Nat /\ n \in 0 .. Len(todo)
    BY <1>1, <1>2
<1>4. /\ pre \in Seq(ToDo) /\ suf \in Seq(ToDo) /\ Len(pre) = n
      /\ \A i \in 1 .. n : pre[i] = todo[i]
      /\ pre \o suf = todo
    BY <1>1, <1>3, SplitSequence
<1> HIDE DEF pre, suf
<1>5. \A i \in 1 .. Len(pre) : pre[i] = todo[i] /\ pre[i] \in ToDo /\ pre[i].do = "Send"
    BY <1>1, <1>2, <1>3, <1>4
<1>6. ASSUME NEW a \in Asps, NEW s \in Servers
      PROVE  /\ ~Has(pre, ServerActs(s)) /\ ~Has(pre, AspActs(a, s))
             /\ \A i \in 1 .. Len(pre) : pre[i] \in NoticeActs(a, s) <=> i \in To(a, s)
             /\ \A i \in 1 .. Len(pre) : pre[i] \in AckActs(a, s) =>
                   pre[i].message = "ActiveAck" /\ s \in pre[i].about
             /\ To(a, s) \in SUBSET (0 .. n)
    <2>1. \A i \in 1 .. Len(pre) :
              /\ pre[i] \in NoticeActs(a, s) <=>
                     pre[i].asp = a /\ pre[i].message \in StateNotices /\ s \in pre[i].about
              /\ pre[i] \notin ServerActs(s) /\ pre[i] \notin AspActs(a, s)
              /\ pre[i] \in AckActs(a, s) => pre[i].message = "ActiveAck" /\ s \in pre[i].about
        BY <1>5, MessageIsNotice
    <2> QED BY <1>3, <1>4, <2>1 DEF Has
<1>7. ASSUME NEW a \in Asps, NEW s \in Servers, NEW q
      PROVE  SeenNotice(pre, a, s, q) =
                 IF To(a, s) = {} THEN q ELSE StateIn(todo[Last(To(a, s))].message)
    <2> DEFINE K == NoticeActs(a, s)
               I == To(a, s)
    <2>0. /\ \A i \in 1 .. Len(pre) : pre[i] \in K <=> i \in I
          /\ I \in SUBSET (0 .. n) /\ I \subseteq 1 .. Len(pre)
        BY <1>4, <1>6
    <2> HIDE DEF K, I
    <2>1. CASE I = {}
        <3>1. ~Has(pre, K)
            BY <2>0, <2>1 DEF Has
        <3> QED BY <2>1, <3>1 DEF SeenNotice, K, I
    <2>2. CASE I # {}
        <3> DEFINE i == Last(I)
        <3>1. i \in I /\ \A j \in I : j <= i
            BY <1>3, <2>0, <2>2, GreatestElement
        <3> HIDE DEF i
        <3>2. IsLastAt(pre, K, i)
            BY <2>0, <3>1 DEF IsLastAt
        <3>3. Has(pre, K) /\ LastIn(pre, K) = pre[i]
            BY <1>4, <3>2, LastIsAt
        <3>4. pre[i] = todo[i]
            BY <1>5, <2>0, <3>1
        <3> QED BY <2>2, <3>3, <3>4 DEF SeenNotice, K, I, i
    <2> QED BY <2>1, <2>2
<1>8. ASSUME NEW a \in Asps, NEW s \in Servers
      PROVE  told'[a][s] \in Heard
    <2>1. \/ told'[a][s] \in {told[a][s], "NotSent"}
          \/ To(a, s) # {} /\ told'[a][s] = StateIn(todo[Last(To(a, s))].message)
        BY <1>18
    <2>2. To(a, s) # {} => StateIn(todo[Last(To(a, s))].message) \in AsState
        <3> DEFINE I == To(a, s)
                   i == Last(I)
        <3> SUFFICES ASSUME I # {} PROVE StateIn(todo[i].message) \in AsState
            OBVIOUS
        <3>0. I \in SUBSET (0 .. n)
            BY <1>6
        <3>1. i \in I
            <4> HIDE DEF I
            <4> QED BY <1>3, <3>0, GreatestElement
        <3> HIDE DEF i
        <3>2. todo[i].message \in StateNotices
            BY <3>1
        <3> QED BY <3>2 DEF StateNotices, StateIn, AsState
    <2>3. told[a][s] \in Heard
        BY DEF LayerInv, TypesOfLayer
    <2> QED BY <2>1, <2>2, <2>3 DEF Heard
<1>9. told' \in [Asps -> [Servers -> Heard]]
    BY <1>18, <1>8
<1>14. /\ \A s, q : SeenState(todo, s, q) = SeenState(suf, s, SeenState(pre, s, q))
       /\ \A a, s, q :
             /\ SeenActive(todo, a, s, q) = SeenActive(suf, a, s, SeenActive(pre, a, s, q))
             /\ SeenNotice(todo, a, s, q) = SeenNotice(suf, a, s, SeenNotice(pre, a, s, q))
    <2>1. pre \in Seq(ToDo) /\ suf \in Seq(ToDo)
        BY <1>4
    <2>2. /\ \A s, q : SeenState(pre \o suf, s, q) = SeenState(suf, s, SeenState(pre, s, q))
          /\ \A a, s, q :
                /\ SeenActive(pre \o suf, a, s, q) = SeenActive(suf, a, s, SeenActive(pre, a, s, q))
                /\ SeenNotice(pre \o suf, a, s, q) = SeenNotice(suf, a, s, SeenNotice(pre, a, s, q))
        BY <2>1, SeenInParts
    <2>3. pre \o suf = todo
        BY <1>4
    <2> QED BY <2>2, <2>3, Zenon
<1>10. ASSUME NEW a \in Asps, NEW s \in Servers, NEW q
       PROVE  /\ SeenState(suf, s, q) = SeenState(todo, s, q)
              /\ SeenActive(suf, a, s, q) = SeenActive(todo, a, s, q)
              /\ SeenNotice(suf, a, s, SeenNotice(pre, a, s, q)) = SeenNotice(todo, a, s, q)
    <2>1. SeenState(pre, s, q) = q /\ SeenActive(pre, a, s, q) = q
        BY <1>6 DEF SeenState, SeenActive
    <2>2. /\ SeenState(todo, s, q) = SeenState(suf, s, SeenState(pre, s, q))
          /\ SeenActive(todo, a, s, q) = SeenActive(suf, a, s, SeenActive(pre, a, s, q))
          /\ SeenNotice(todo, a, s, q) = SeenNotice(suf, a, s, SeenNotice(pre, a, s, q))
        BY <1>14
    <2> QED BY <2>1, <2>2
<1>11. ASSUME NEW s \in Servers, NEW q PROVE SeenState(suf, s, q) = SeenState(todo, s, q)
    <2>1. ~Has(pre, ServerActs(s))
        <3>1. \A i \in 1 .. Len(pre) : pre[i] \notin ServerActs(s)
            BY <1>5 DEF ServerActs
        <3> QED BY <3>1 DEF Has
    <2> QED BY <1>14, <2>1 DEF SeenState
<1>12. ASSUME NEW a \in Asps, NEW s \in Servers, slots[a].sender # NoAssoc
       PROVE  SeenNotice(suf, a, s, told'[a][s]) \in {SeenNotice(todo, a, s, told[a][s]), "NotSent"}
    <2>1. \/ told'[a][s] = "NotSent"
          \/ told'[a][s] = IF To(a, s) = {} THEN told[a][s] ELSE StateIn(todo[Last(To(a, s))].message)
        BY <1>18, <1>12
    <2>2. SeenNotice(pre, a, s, told[a][s]) =
              IF To(a, s) = {} THEN told[a][s] ELSE StateIn(todo[Last(To(a, s))].message)
        BY <1>7
    <2>3. told'[a][s] \in {SeenNotice(pre, a, s, told[a][s]), "NotSent"}
        BY <2>1, <2>2
    <2>4. SeenNotice(suf, a, s, SeenNotice(pre, a, s, told[a][s])) = SeenNotice(todo, a, s, told[a][s])
        BY <1>10
    <2>5. \/ SeenNotice(suf, a, s, "NotSent") = SeenNotice(suf, a, s, SeenNotice(pre, a, s, told[a][s]))
          \/ SeenNotice(suf, a, s, "NotSent") = "NotSent"
        BY DEF SeenNotice
    <2> QED BY <2>3, <2>4, <2>5
<1>13. said \subseteq said'
    BY <1>0
<1>15. Asking'
    <2>1. ASSUME NEW s \in Servers, NEW a \in Asps, Has(todo', ActiveActs({a}, s))
          PROVE  client # NoAssoc /\ DoorOf(client) = a
        <3> DEFINE K == ActiveActs({a}, s)
        <3>1. Has(suf, K)
            BY <1>0, <2>1
        <3> HIDE DEF K
        <3>2. Has(pre \o suf, K)
            BY <1>4, <3>1, LastOfConcat
        <3> QED BY <1>4, <3>2 DEF AskingInv, Asking, K
    <2>2. ASSUME NEW s \in Servers, client # NoAssoc
          PROVE  \/ <<client, s>> \in said'
                 \/ Before(todo', ActiveActs(Asps, s), AckActs(DoorOf(client), s))
        <3> DEFINE K == ActiveActs(Asps, s)
                   L == AckActs(DoorOf(client), s)
        <3>1. <<client, s>> \in said \/ Before(todo, K, L)
            BY <2>2 DEF AskingInv, Asking
        <3>2. DoorOf(client) \in Asps
            BY <2>2, DoorIsGateway DEF SlotInv, Submissions, Submitted
        <3>3. CASE Before(todo, K, L)
            <4> HIDE DEF K, L
            <4>1. Before(pre \o suf, K, L)
                BY <1>4, <3>3
            <4>2. Before(suf, K, L) \/ Has(pre, L)
                BY <1>4, <4>1, BeforeInRest
            <4>3. ASSUME Has(pre, L) PROVE <<client, s>> \in said'
                <5>1. PICK i \in 1 .. Len(pre) : pre[i] \in L
                    BY <4>3 DEF Has
                <5>2. pre[i].message = "ActiveAck" /\ s \in pre[i].about
                    BY <1>6, <3>2, <5>1 DEF L
                <5>3. i \in 1 .. n /\ todo[i].message = "ActiveAck" /\ s \in todo[i].about
                    BY <1>4, <1>5, <5>1, <5>2
                <5> QED BY <1>0, <5>3
            <4> QED BY <1>0, <4>2, <4>3 DEF K, L
        <3> QED BY <1>13, <3>1, <3>3
    <2>3. DoorOf(client)' = DoorOf(client)
        BY <1>0 DEF DoorOf
    <2> QED BY <1>0, <2>1, <2>2, <2>3 DEF Asking
<1>16. \A a \in Asps, s \in Servers :
           /\ \A q : SeenActive(suf, a, s, q) = SeenActive(todo, a, s, q)
           /\ slots[a].sender # NoAssoc =>
                 SeenNotice(suf, a, s, told'[a][s])
                     \in {SeenNotice(todo, a, s, told[a][s]), "NotSent"}
    BY <1>10, <1>12
<1>17. todo' = suf /\ suf \in Seq(ToDo)
    BY <1>0, <1>4
<1> QED BY <1>9, <1>11, <1>13, <1>15, <1>16, <1>17, Zenon

\* perform, Send: whoever is served has an association to be told by.
LEMMA PerformSendKeepsLayer ==
    ASSUME SlotInv, LayerInv, ServedInv, AskingInv, PerformSend
    PROVE  LayerInv' /\ ServedInv' /\ AskingInv'
<1>0. /\ todo # <<>> /\ Head(todo).do = "Send"
      /\ UNCHANGED <<machine, client, deadlines, requests, entries, slots, task, fate>>
    BY DEF PerformSend, transfer
<1>1. /\ todo' \in Seq(ToDo) /\ told' \in [Asps -> [Servers -> Heard]]
      /\ \A s \in Servers : \A q : SeenState(todo', s, q) = SeenState(todo, s, q)
      /\ \A a \in Asps, s \in Servers :
            /\ \A q : SeenActive(todo', a, s, q) = SeenActive(todo, a, s, q)
            /\ slots[a].sender # NoAssoc =>
                  SeenNotice(todo', a, s, told'[a][s])
                      \in {SeenNotice(todo, a, s, told[a][s]), "NotSent"}
      /\ said \subseteq said'
      /\ Asking'
    BY PerformSendTells
<1>2. TypesOfLayer' /\ TimersFollow' /\ StatesFollow' /\ FlagsFollow'
    BY <1>0, <1>1 DEF LayerInv, TypesOfLayer, TimersFollow, StatesFollow, FlagsFollow
<1>3. RoutesFollow' /\ NothingIsStranded'
    <2>1. \A s : ~Taking(s)
        BY <1>0 DEF Taking
    <2> QED BY <1>0, <2>1 DEF LayerInv, RoutesFollow, NothingIsStranded, Taking
<1>4. ServedInv'
    <2>1. ASSUME NEW x \in Assoc, task[x] \in {"Serves", "Asks"} PROVE Served(x)'
        <3>1. DoorOf(x) \in Asps /\ slots[DoorOf(x)].sender = x /\ x # NoAssoc
            <4>1. DoorOf(x) \in Asps
                BY <2>1, DoorIsGateway
            <4>2. slots[DoorOf(x)].occupant = x
                BY <2>1, <4>1 DEF SlotInv, Occupants, Holding
            <4> QED BY <2>1, <4>1, <4>2, NoAssocAssumption DEF SlotInv, Senders
        <3>2. Served(x)
            BY <2>1 DEF ServedInv
        <3>3. DoorOf(x)' = DoorOf(x)
            BY DEF DoorOf
        <3> QED BY <1>0, <1>1, <3>1, <3>2, <3>3 DEF Served
    <2> QED BY <1>0, <2>1 DEF ServedInv, DoorOf
<1>5. Acknowledged' /\ Quieted'
    BY <1>0, <1>1 DEF AskingInv, Acknowledged, Quieted, DoorOf
<1> QED BY <1>1, <1>2, <1>3, <1>4, <1>5 DEF LayerInv, AskingInv

----------------------------------------------------------------------------
(* The tasks of the associations, and the traffic.                         *)

\* What a task of an association may do beside the layer.
LEMMA LayerUntouched ==
    ASSUME LayerInv, ServedInv, AskingInv, UNCHANGED <<layer, entries, told>>,
           \A x \in Assoc : task'[x] \in {"Serves", "Asks"} => task[x] \in {"Serves", "Asks"},
           client # NoAssoc /\ task'[client] = "Begins" => task[client] = "Begins",
           \A x \in Assoc : task'[x] = "Quiet" => task[x] = "Quiet",
           \A a \in Asps : slots'[a].sender # NoAssoc =>
               slots'[a].sender = slots[a].sender \/ \A s \in Servers : a \notin entries[s].active,
           \A s \in Servers : \A x :
               /\ <<x, s>> \in said
               /\ (x = client /\ client # NoAssoc)
                      \/ \E a \in Asps : slots'[a].sender = x /\ x # NoAssoc
               => <<x, s>> \in said'
    PROVE  LayerInv' /\ ServedInv' /\ AskingInv'
<1>0. UNCHANGED <<machine, todo, client, deadlines, entries, told>>
    BY DEF layer
<1>1. LayerInv'
    BY <1>0 DEF LayerInv, TypesOfLayer, TimersFollow, StatesFollow, FlagsFollow, RoutesFollow,
                NothingIsStranded, Taking
<1>2. ServedInv'
    BY <1>0 DEF ServedInv, Served, DoorOf
<1>3. Asking'
    BY <1>0 DEF AskingInv, Asking, DoorOf
<1>4. Acknowledged'
    <2> SUFFICES ASSUME NEW s \in Servers, NEW a \in entries[s].active, slots'[a].sender # NoAssoc
                 PROVE  <<slots'[a].sender, s>> \in said'
        BY <1>0 DEF Acknowledged
    <2>1. a \in Asps
        BY DEF LayerInv, TypesOfLayer, Entry
    <2>2. slots'[a].sender = slots[a].sender
        BY <2>1
    <2> QED BY <2>1, <2>2 DEF AskingInv, Acknowledged
<1>5. Quieted'
    BY <1>0 DEF AskingInv, Quieted, DoorOf
<1> QED BY <1>1, <1>2, <1>3, <1>4, <1>5 DEF AskingInv

\* No task of an association gets in the way of the layer before it leaves.
LEMMA AssociationKeepsLayer ==
    ASSUME SlotInv, LayerInv, ServedInv, AskingInv, NEW x \in Assoc,
           \/ Accept(x) \/ Knock(x) \/ Listen(x) \/ HandoverPasses(x) \/ Begin(x)
           \/ Receive(x) \/ End(x) \/ Die(x)
    PROVE  LayerInv' /\ ServedInv' /\ AskingInv'
<1>0. UNCHANGED <<layer, entries, told, said>>
    BY DEF Accept, Knock, Listen, HandoverPasses, Begin, Receive, End, Die
<1>1. task \in [Assoc -> TaskState] /\ slots \in [Asps -> Slot]
    BY DEF SlotInv, TypesOfSlots
<1>2. client # NoAssoc => client \in Assoc /\ task[client] \in Submitted
    BY DEF SlotInv, Submissions
<1>3. PICK from, then :
          /\ task[x] = from /\ task' = [task EXCEPT ![x] = then]
          /\ then \in {"Serves", "Asks"} => from = "Serves"
          /\ then = "Begins" => from = "Quiet"
          /\ then # "Quiet"
    BY DEF Accept, Knock, Listen, HandoverPasses, Begin, Receive, End, Die, AtTask
<1>4. \A y \in Assoc : task'[y] = IF y = x THEN then ELSE task[y]
    BY <1>1, <1>3
<1>5. ASSUME NEW a \in Asps, slots'[a].sender # NoAssoc
      PROVE  slots'[a].sender = slots[a].sender \/ \A s \in Servers : a \notin entries[s].active
    <2>1. CASE Accept(x) \/ Receive(x) \/ Die(x)
        BY <2>1 DEF Accept, Receive, Die
    <2>2. CASE Knock(x)
        BY <1>1, <2>2 DEF Knock, Occupy, Slot
    <2>3. CASE Listen(x)
        BY <1>1, <2>3 DEF Listen, Await, Slot
    <2>4. CASE HandoverPasses(x)
        BY <1>1, <2>4 DEF HandoverPasses, GiveUp, Slot
    <2>5. CASE Begin(x)
        <3>1. task[x] = "Quiet" /\ slots' = [slots EXCEPT ![DoorOf(x)] = SetSender(slots[DoorOf(x)], x)]
            BY <2>5 DEF Begin, AtTask
        <3>2. CASE a = DoorOf(x)
            BY <3>1, <3>2 DEF AskingInv, Quieted
        <3>3. CASE a # DoorOf(x)
            BY <1>1, <3>1, <3>3
        <3> QED BY <3>2, <3>3
    <2>6. CASE End(x)
        <3>1. \/ slots' = slots
              \/ slots' = [slots EXCEPT ![DoorOf(x)] = ClearSender(slots[DoorOf(x)])]
            BY <2>6 DEF End
        <3> QED BY <1>1, <1>5, <3>1 DEF ClearSender, Slot
    <2> QED BY <2>1, <2>2, <2>3, <2>4, <2>5, <2>6
<1>6. \A y \in Assoc : task'[y] \in {"Serves", "Asks"} => task[y] \in {"Serves", "Asks"}
    BY <1>3, <1>4
<1>7. client # NoAssoc /\ task'[client] = "Begins" => task[client] = "Begins"
    BY <1>2, <1>3, <1>4 DEF Submitted
<1>8. \A y \in Assoc : task'[y] = "Quiet" => task[y] = "Quiet"
    BY <1>3, <1>4
<1> QED BY <1>0, <1>5, <1>6, <1>7, <1>8, LayerUntouched

\* What is forgotten of the one that leaves is of no use to anyone.
LEMMA LeaveKeepsLayer ==
    ASSUME SlotInv, LayerInv, ServedInv, AskingInv, NEW x \in Assoc, Leave(x)
    PROVE  LayerInv' /\ ServedInv' /\ AskingInv'
<1> DEFINE a == DoorOf(x)
<1>0. UNCHANGED <<layer, entries, told>> /\ task[x] = "Leaves" /\ said' = {p \in said : p[1] # x}
    BY DEF Leave
<1>1. task \in [Assoc -> TaskState] /\ slots \in [Asps -> Slot] /\ a \in Asps
    BY <1>0, DoorIsGateway DEF SlotInv, TypesOfSlots
<1>2. PICK slot \in Vacate(slots[a], x) :
          /\ task' = [y \in Assoc |->
                         IF y = x THEN "Gone"
                         ELSE IF y \in slots[a].waiting \ slot.waiting THEN "Knocks"
                         ELSE task[y]]
          /\ slots' = [slots EXCEPT ![a] = slot]
    BY DEF Leave
<1>3. slot.sender = IF slots[a].sender = x THEN NoAssoc ELSE slots[a].sender
    BY <1>1, <1>2 DEF Vacate, NotifyOne, GiveUp, Slot
<1> HIDE DEF a
<1>4. \A b \in Asps : slots'[b].sender # NoAssoc =>
                         slots'[b].sender = slots[b].sender /\ slots'[b].sender # x
    <2>1. ASSUME NEW b \in Asps, b # a, slots[b].sender = x PROVE FALSE
        BY <2>1 DEF SlotInv, Senders, Occupants, a
    <2> QED BY <1>1, <1>2, <1>3, <2>1
<1>5. client # NoAssoc => client # x
    BY <1>0 DEF SlotInv, Submissions, Submitted
<1>6. ASSUME NEW s \in Servers, NEW y, <<y, s>> \in said,
             (y = client /\ client # NoAssoc) \/ \E b \in Asps : slots'[b].sender = y /\ y # NoAssoc
      PROVE  <<y, s>> \in said'
    <2>1. y # x
        BY <1>4, <1>5, <1>6
    <2> QED BY <1>0, <1>6, <2>1
<1>7. \A y \in Assoc : task'[y] = task[y] \/ task'[y] \in {"Gone", "Knocks"}
    BY <1>2
<1>8. client # NoAssoc /\ task'[client] = "Begins" => task[client] = "Begins"
    BY <1>7 DEF SlotInv, Submissions
<1>9. /\ \A y \in Assoc : task'[y] \in {"Serves", "Asks"} => task[y] \in {"Serves", "Asks"}
      /\ \A y \in Assoc : task'[y] = "Quiet" => task[y] = "Quiet"
    BY <1>7
<1> QED BY <1>0, <1>4, <1>6, <1>8, <1>9, LayerUntouched

\* The flags of the slot are put out, which another cannot be served from.
LEMMA QuiesceKeepsLayer ==
    ASSUME SlotInv, LayerInv, ServedInv, AskingInv, NEW x \in Assoc, QuiesceSlot(x)
    PROVE  LayerInv' /\ ServedInv' /\ AskingInv'
<1> DEFINE a == DoorOf(x)
<1>0. /\ UNCHANGED <<machine, todo, client, deadlines, slots, told, said>>
      /\ task[x] = "Holds" /\ task' = [task EXCEPT ![x] = "Quiet"]
      /\ entries' = [s \in Servers |-> Quiesce(entries[s], a)]
    BY DEF QuiesceSlot, AtTask, layer
<1>1. task \in [Assoc -> TaskState] /\ entries \in [Servers -> Entry] /\ a \in Asps
    BY <1>0, DoorIsGateway DEF SlotInv, TypesOfSlots, LayerInv, TypesOfLayer
<1> HIDE DEF a
<1>2. ASSUME NEW s \in Servers
      PROVE  /\ entries'[s].active = entries[s].active \ {a} /\ entries'[s].state = entries[s].state
             /\ entries'[s].pending = entries[s].pending /\ entries'[s].up = entries[s].up
             /\ entries'[s] \in Entry
    <2>1. entries'[s] = [entries[s] EXCEPT !.active = entries[s].active \ {a}] /\ entries[s] \in Entry
        BY <1>0, <1>1 DEF Quiesce
    <2> QED BY <2>1 DEF Entry
<1>3. TypesOfLayer'
    <2>1. entries' \in [Servers -> Entry]
        BY <1>0, <1>2
    <2> QED BY <1>0, <2>1 DEF LayerInv, TypesOfLayer
<1>4. TimersFollow' /\ StatesFollow' /\ RoutesFollow' /\ NothingIsStranded'
    BY <1>0, <1>2 DEF LayerInv, TimersFollow, StatesFollow, RoutesFollow, NothingIsStranded, Taking
<1>5. FlagsFollow'
    <2> SUFFICES ASSUME NEW s \in Servers, NEW b \in Asps,
                        SeenActive(todo, b, s, b \in entries'[s].active)
                 PROVE  IsActive(machine, b, s)
        BY <1>0 DEF FlagsFollow
    <2>1. SeenActive(todo, b, s, b \in entries[s].active)
        BY <1>2 DEF SeenActive
    <2> QED BY <2>1 DEF LayerInv, FlagsFollow
<1>6. ServedInv'
    <2>1. ASSUME NEW y \in Assoc, task'[y] \in {"Serves", "Asks"} PROVE Served(y)'
        <3>1. task[y] \in {"Serves", "Asks"} /\ y # x
            BY <1>0, <1>1, <2>1
        <3>2. DoorOf(y) # a
            BY <1>0, <1>1, <3>1 DEF SlotInv, Occupants, Holding, a
        <3>3. \A s \in Servers : (DoorOf(y) \in entries'[s].active) = (DoorOf(y) \in entries[s].active)
            BY <1>2, <3>2
        <3>4. Served(y)
            BY <3>1 DEF ServedInv
        <3>5. DoorOf(y)' = DoorOf(y)
            BY DEF DoorOf
        <3> QED BY <1>0, <3>3, <3>4, <3>5 DEF Served
    <2>2. client # NoAssoc /\ task'[client] = "Begins" => task[client] = "Begins"
        BY <1>0, <1>1 DEF SlotInv, Submissions
    <2> QED BY <1>0, <2>1, <2>2 DEF ServedInv, DoorOf
<1>7. Asking'
    BY <1>0 DEF AskingInv, Asking, DoorOf
<1>8. Acknowledged'
    BY <1>0, <1>2 DEF AskingInv, Acknowledged
<1>9. Quieted'
    <2>1. ASSUME NEW y \in Assoc, NEW s \in Servers, task'[y] = "Quiet"
          PROVE  DoorOf(y) \notin entries'[s].active
        <3>1. CASE y = x
            BY <1>2, <3>1 DEF a
        <3>2. CASE y # x
            BY <1>0, <1>1, <1>2, <2>1, <3>2 DEF AskingInv, Quieted
        <3> QED BY <3>1, <3>2
    <2> QED BY <2>1 DEF Quieted, DoorOf
<1> QED BY <1>3, <1>4, <1>5, <1>6, <1>7, <1>8, <1>9 DEF LayerInv, AskingInv

\* Traffic touches nothing but a queue, and only that of a pending server.
LEMMA TrafficKeepsLayer ==
    ASSUME SlotInv, LayerInv, ServedInv, AskingInv, NEW m \in Msu, Traffic(m)
    PROVE  LayerInv' /\ ServedInv' /\ AskingInv'
<1> DEFINE t == ServerOf[m]
           entry == entries[t]
<1>0. UNCHANGED <<machine, todo, client, deadlines, slots, task, told, said>>
    BY DEF Traffic, Route, Select, LookAtState, Enqueue, Unmoved, layer
<1>1. entries \in [Servers -> Entry]
    BY DEF LayerInv, TypesOfLayer
<1>2. \/ entries' = entries
      \/ entries' = [entries EXCEPT ![t] = Push(entry, m)] /\ entry.state = "Pending"
    BY DEF Traffic, Route, Select, LookAtState, Enqueue, StillPending
<1>3. ASSUME NEW s \in Servers
      PROVE  /\ entries'[s].active = entries[s].active /\ entries'[s].state = entries[s].state
             /\ entries'[s].up = entries[s].up /\ entries'[s] \in Entry
             /\ entries'[s].pending = entries[s].pending \/ entries[s].state = "Pending"
    <2>1. CASE entries' = entries \/ s # t
        BY <1>1, <1>2, <2>1
    <2>2. CASE entries' = [entries EXCEPT ![t] = Push(entry, m)] /\ entry.state = "Pending" /\ s = t
        <3>1. entries'[s] = Push(entries[s], m) /\ entries[s] \in Entry
            BY <1>1, <2>2
        <3>2. Append(entries[s].pending, m) \in Seq(Msu)
            BY <3>1 DEF Entry
        <3> DEFINE longer == Append(entries[s].pending, m)
        <3>3. entries'[s] = entries[s] \/ entries'[s] = [entries[s] EXCEPT !.pending = longer]
            BY <3>1 DEF Push
        <3> HIDE DEF longer
        <3>4. entries[s].state = "Pending" /\ longer \in Seq(Msu)
            BY <2>2, <3>2 DEF longer
        <3> QED BY <3>1, <3>3, <3>4 DEF Entry
    <2> QED BY <1>2, <2>1, <2>2
<1>4. TypesOfLayer'
    <2>1. entries' \in [Servers -> Entry]
        BY <1>1, <1>2, <1>3
    <2> QED BY <1>0, <2>1 DEF LayerInv, TypesOfLayer
<1>5. TimersFollow' /\ StatesFollow' /\ FlagsFollow' /\ RoutesFollow' /\ NothingIsStranded'
    BY <1>0, <1>3 DEF LayerInv, TimersFollow, StatesFollow, FlagsFollow, RoutesFollow,
                      NothingIsStranded, Taking
<1>6. ServedInv'
    <2>1. \A x \in Assoc : Served(x) => Served(x)'
        BY <1>0, <1>3 DEF Served, DoorOf
    <2> QED BY <1>0, <2>1 DEF ServedInv, DoorOf
<1>7. AskingInv'
    BY <1>0, <1>3 DEF AskingInv, Asking, Acknowledged, Quieted, DoorOf
<1> QED BY <1>4, <1>5, <1>6, <1>7 DEF LayerInv

\* Everything is down, and everyone knows.
LEMMA InitLayer == Init => LayerInv /\ ServedInv /\ AskingInv
<1> SUFFICES ASSUME Init PROVE LayerInv /\ ServedInv /\ AskingInv
    OBVIOUS
<1>0. /\ machine = NewMachine /\ todo = <<>> /\ client = NoAssoc /\ deadlines = {}
      /\ entries = [s \in Servers |-> NewEntry]
      /\ task = [x \in Assoc |-> "None"]
      /\ told = [a \in Asps |-> [s \in Servers |-> "Down"]]
    BY DEF Init
<1>1. Sound(machine)
    <2>1. <<>> \in Seq(Action)
        OBVIOUS
    <2> QED BY <1>0, <2>1 DEF NewMachine, Sound, Working, AsState
<1>2. \A s \in Servers : entries[s] \in Entry /\ entries[s] = NewEntry
    <2>1. <<>> \in Seq(Msu)
        OBVIOUS
    <2> QED BY <1>0, <2>1 DEF NewEntry, Entry, AsState
<1>3. TypesOfLayer
    <2>1. todo \in Seq(ToDo)
        BY <1>0
    <2> QED BY <1>0, <1>1, <1>2, <2>1 DEF TypesOfLayer, Heard, AsState
<1>4. \A s \in Servers : machine.state[s] = "Down"
    BY <1>0 DEF NewMachine
<1>5. TimersFollow /\ RoutesFollow /\ NothingIsStranded
    BY <1>0, <1>2, <1>4 DEF TimersFollow, RoutesFollow, NothingIsStranded, NewEntry
<1>6. StatesFollow /\ FlagsFollow
    <2>1. \A s \in Servers : SeenState(todo, s, entries[s].state) = entries[s].state
        BY <1>0, NothingSeen
    <2>2. \A s \in Servers, a \in Asps : ~SeenActive(todo, a, s, a \in entries[s].active)
        <3> SUFFICES ASSUME NEW s \in Servers, NEW a \in Asps
                     PROVE  ~SeenActive(todo, a, s, a \in entries[s].active)
            OBVIOUS
        <3>1. SeenActive(todo, a, s, a \in entries[s].active) = (a \in entries[s].active)
            BY <1>0, NothingSeen
        <3>2. a \notin entries[s].active
            BY <1>2 DEF NewEntry
        <3> QED BY <3>1, <3>2
    <2> QED BY <1>2, <1>4, <2>1, <2>2 DEF StatesFollow, FlagsFollow, NewEntry
<1>7. ServedInv
    BY <1>0 DEF ServedInv
<1>8. AskingInv
    BY <1>0, <1>2, NothingSeen DEF AskingInv, Asking, Acknowledged, Quieted, NewEntry
<1> QED BY <1>3, <1>5, <1>6, <1>7, <1>8 DEF LayerInv

\* Together with SlotInv the invariants of the layer are inductive.
LEMMA NextKeepsLayer ==
    SlotInv /\ LayerInv /\ ServedInv /\ AskingInv /\ [Next]_vars =>
        LayerInv' /\ ServedInv' /\ AskingInv'
<1> SUFFICES ASSUME SlotInv, LayerInv, ServedInv, AskingInv, [Next]_vars
             PROVE  LayerInv' /\ ServedInv' /\ AskingInv'
    OBVIOUS
<1>1. ASSUME NEW x \in Assoc,
             \/ Accept(x) \/ Knock(x) \/ Listen(x) \/ HandoverPasses(x) \/ Begin(x)
             \/ Receive(x) \/ End(x) \/ Die(x)
      PROVE  LayerInv' /\ ServedInv' /\ AskingInv'
    BY <1>1, AssociationKeepsLayer
<1>2. ASSUME NEW x \in Assoc, QuiesceSlot(x) PROVE LayerInv' /\ ServedInv' /\ AskingInv'
    BY <1>2, QuiesceKeepsLayer
<1>3. ASSUME NEW x \in Assoc, Leave(x) PROVE LayerInv' /\ ServedInv' /\ AskingInv'
    BY <1>3, LeaveKeepsLayer
<1>4. CASE Serve
    BY <1>4, ServeKeepsLayer
<1>5. CASE PerformSend
    BY <1>5, PerformSendKeepsLayer
<1>6. CASE PerformAsp
    BY <1>6, PerformAspKeepsLayer
<1>7. CASE PerformServer
    BY <1>7, PerformServerKeepsLayer
<1>8. CASE PerformTake
    BY <1>8, PerformTakeKeepsLayer
<1>9. CASE Flush
    BY <1>9, FlushKeepsLayer
<1>10. CASE Done
    BY <1>10, DoneKeepsLayer
<1>11. ASSUME NEW s \in Servers, Timeout(s) PROVE LayerInv' /\ ServedInv' /\ AskingInv'
    BY <1>11, TimeoutKeepsLayer
<1>12. ASSUME NEW m \in Msu, Traffic(m) PROVE LayerInv' /\ ServedInv' /\ AskingInv'
    BY <1>12, TrafficKeepsLayer
<1>13. CASE UNCHANGED vars
    <2>1. UNCHANGED <<layer, entries, told, task, slots, said>>
        BY <1>13 DEF vars
    <2> QED BY <2>1, LayerUntouched
<1> QED BY <1>1, <1>2, <1>3, <1>4, <1>5, <1>6, <1>7, <1>8, <1>9, <1>10, <1>11, <1>12, <1>13
        DEF Next, Layer, Association

\* The inductive invariant: what the layer has still to perform makes up for all
\* that the registry and the ASPs do not yet know of the machine.
GatewayInv == SlotInv /\ LayerInv /\ ServedInv /\ AskingInv

\* Every step of the layer, the associations and the traffic keeps all four invariants.
THEOREM GatewayInvariant == Spec => []GatewayInv
<1>1. Init => GatewayInv
    BY InitSlots, InitLayer DEF GatewayInv
<1>2. GatewayInv /\ [Next]_vars => GatewayInv'
    BY NextKeepsSlots, NextKeepsLayer DEF GatewayInv
<1> QED BY <1>1, <1>2, PTL DEF Spec

\* set_server_state: a message is never left in the queue of a server that is
\* not pending, except while that queue is about to be taken.
THEOREM NothingIsEverStranded == Spec => []NothingIsStranded
<1>1. GatewayInv => NothingIsStranded
    BY DEF GatewayInv, LayerInv
<1> QED BY <1>1, GatewayInvariant, PTL

\* quiesce: an association is an egress only when its own peer asked for it and
\* was acknowledged, whatever the association before it left in the registry.
THEOREM OnlyWhoAskedCarries == Spec => []OnlyWhoAsked
<1>1. GatewayInv => OnlyWhoAsked
    BY DEF GatewayInv, AskingInv, Acknowledged, OnlyWhoAsked, Carrying
<1> QED BY <1>1, GatewayInvariant, PTL

\* Notify: between two events of the layer, the last Notify to whoever is served
\* and not down was about the state every one of its servers is in, if it was sent
\* at all: send_management may give it up, and nobody repeats it.
THEOREM EveryUpAspIsTold == Spec => []EveryUpAspKnows
<1>1. GatewayInv => EveryUpAspKnows
    <2> SUFFICES ASSUME GatewayInv, Idle, NEW x \in Assoc, NEW s \in Servers, task[x] = "Serves",
                        DoorOf(x) \in machine.up \cap Member[s], machine.state[s] # "Down"
                 PROVE  told[DoorOf(x)][s] \in {machine.state[s], "NotSent"}
        BY DEF EveryUpAspKnows
    <2> DEFINE a == DoorOf(x)
    <2>1. todo = <<>> /\ Served(x)
        BY DEF GatewayInv, ServedInv, Idle
    <2>2. SeenNotice(todo, a, s, told[a][s]) \in {machine.state[s], "NotSent"}
        BY <2>1 DEF Served, UpIn
    <2> HIDE DEF a
    <2>3. SeenNotice(todo, a, s, told[a][s]) = told[a][s]
        BY <2>1, NothingSeen
    <2> QED BY <2>2, <2>3 DEF a
<1> QED BY <1>1, GatewayInvariant, PTL

\* perform: between two events of the layer, the registry has the states, flags
\* and routes the machine decided on, and T(r) runs for the pending servers.
THEOREM RegistryFollows == Spec => []TransferPathFollows
<1>1. GatewayInv => TransferPathFollows
    <2> SUFFICES ASSUME GatewayInv, Idle
                 PROVE  /\ deadlines = {s \in Servers : machine.state[s] = "Pending"}
                        /\ \A s \in Servers :
                              /\ entries[s].state = machine.state[s]
                              /\ entries[s].up <=> machine.state[s] \in {"Active", "Pending"}
                              /\ Carrying(s) \subseteq ActiveIn(machine, s)
                              /\ \A x \in Assoc :
                                    task[x] = "Serves" /\ DoorOf(x) \in ActiveIn(machine, s) =>
                                        DoorOf(x) \in Carrying(s)
        BY DEF TransferPathFollows
    <2>0. todo = <<>> /\ SlotInv /\ LayerInv /\ ServedInv
        BY DEF GatewayInv, Idle
    <2>1. deadlines = {s \in Servers : machine.state[s] = "Pending"}
        BY <2>0 DEF LayerInv, TimersFollow
    <2>2. ASSUME NEW s \in Servers
          PROVE  /\ entries[s].state = machine.state[s]
                 /\ entries[s].up <=> machine.state[s] \in {"Active", "Pending"}
        <3>1. SeenState(todo, s, entries[s].state) = entries[s].state
            BY <2>0, NothingSeen
        <3> QED BY <2>0, <3>1 DEF LayerInv, StatesFollow, RoutesFollow, Taking
    <2>3. ASSUME NEW s \in Servers, NEW a \in Carrying(s) PROVE a \in ActiveIn(machine, s)
        <3>1. a \in entries[s].active /\ a \in Asps
            BY <2>0, <2>3 DEF Carrying, LayerInv, TypesOfLayer, Entry
        <3>2. SeenActive(todo, a, s, a \in entries[s].active) = (a \in entries[s].active)
            BY <2>0, NothingSeen
        <3>3. IsActive(machine, a, s)
            BY <2>0, <3>1, <3>2 DEF LayerInv, FlagsFollow
        <3> QED BY <2>0, <3>1, <3>3 DEF LayerInv, TypesOfLayer, Sound, IsActive, ActiveIn
    <2>4. ASSUME NEW s \in Servers, NEW x \in Assoc, task[x] = "Serves",
                 DoorOf(x) \in ActiveIn(machine, s)
          PROVE  DoorOf(x) \in Carrying(s)
        <3> DEFINE a == DoorOf(x)
        <3>1. a \in Asps
            BY <2>0, <2>4, DoorIsGateway
        <3>2. slots[a].sender # NoAssoc
            BY <2>0, <2>4, <3>1, NoAssocAssumption DEF SlotInv, Occupants, Holding, Senders
        <3>3. SeenActive(todo, a, s, a \in entries[s].active)
            BY <2>0, <2>4 DEF ServedInv, Served, ActiveIn
        <3> HIDE DEF a
        <3>4. SeenActive(todo, a, s, a \in entries[s].active) = (a \in entries[s].active)
            BY <2>0, NothingSeen
        <3> QED BY <3>2, <3>3, <3>4 DEF Carrying, a
    <2> QED BY <2>1, <2>2, <2>3, <2>4
<1> QED BY <1>1, GatewayInvariant, PTL

----------------------------------------------------------------------------
(* Every server moves as the abstract one does.                            *)

\* The machine and the abstract server, for any server.
Figure(s) == INSTANCE ApplicationServer WITH
    Members     <- Member[s],
    N           <- Required[s],
    Override    <- (Mode[s] = "Override"),
    HasRecovery <- Recovers[s],
    asp         <- [a \in Member[s] |-> AspStateIn(machine, a, s)],
    as          <- machine.state[s]

\* The rule of Figure 4, M being the active ASPs.
Goes4(from, s, M, idle) ==
    CASE from \in {"Down", "Inactive"} /\ Cardinality(M) >= Required[s] -> "Active"
      [] from \in {"Down", "Inactive"} /\ Cardinality(M) < Required[s]  -> idle
      [] from \in {"Active", "Pending"} /\ M # {}                      -> "Active"
      [] from = "Pending" /\ M = {}                                    -> "Pending"
      [] from = "Active" /\ M = {} -> IF Recovers[s] THEN "Pending" ELSE idle

\* Where the rule sends a server is where its ASPs put it.
LEMMA StateFollows ==
    ASSUME NEW s \in Servers, NEW b, NEW o, Sound(b), Sound(o),
           o.state[s] = NextState([o EXCEPT !.state = b.state], s),
           NEW M, M = ActiveIn(o, s), NEW idle,
           idle = IF \A a \in Member[s] : AspStateIn(o, a, s) = "Down" THEN "Down" ELSE "Inactive"
    PROVE  o.state[s] = Goes4(b.state[s], s, M, idle)
<1> DEFINE n == [o EXCEPT !.state = b.state]
<1>1. n.state = b.state /\ n.up = o.up /\ n.active = o.active /\ b.state[s] \in AsState
    BY DEF Sound, Working
<1>2. ActiveIn(n, s) = M /\ UpIn(n, s) = UpIn(o, s)
    BY <1>1 DEF ActiveIn, UpIn, IsActive
<1>3. UpIn(o, s) = {} <=> \A a \in Member[s] : AspStateIn(o, a, s) = "Down"
    BY DEF UpIn, AspStateIn
<1>4. Cardinality(M) \in Nat /\ Required[s] \in Nat
    <2>1. IsFiniteSet(Member[s]) /\ Required[s] \in Nat
        BY LayoutFacts, FS_Subset
    <2>2. M \subseteq Member[s]
        BY DEF ActiveIn
    <2> QED BY <2>1, <2>2, FS_Subset, FS_CardinalityType
<1>5. o.state[s] = IF b.state[s] \in {"Down", "Inactive"}
                   THEN IF Cardinality(M) >= Required[s] THEN "Active" ELSE idle
                   ELSE IF M # {} THEN "Active"
                   ELSE IF b.state[s] = "Pending" \/ Recovers[s] THEN "Pending"
                   ELSE idle
    <2>1. o.state[s] = NextState(n, s)
        OBVIOUS
    <2> HIDE DEF n
    <2> QED BY <1>1, <1>2, <1>3, <2>1 DEF NextState
<1> QED BY <1>1, <1>4, <1>5 DEF AsState, Goes4

\* What the machine makes of an input is a step of the abstract server or none.
LEMMA CarriedFollows ==
    ASSUME Sound(machine), NEW s \in Servers, NEW o, Sound(o), Arrow(machine, o, s),
           machine'.up = o.up, machine'.active = o.active, machine'.state = o.state
    PROVE  [Figure(s)!Next]_(Figure(s)!vars)
<1> DEFINE asp == [a \in Member[s] |-> AspStateIn(machine, a, s)]
           new == [a \in Member[s] |-> AspStateIn(machine', a, s)]
<1>1. \A a : AspStateIn(machine', a, s) = AspStateIn(o, a, s)
    BY DEF AspStateIn, IsActive
<1>2. CASE /\ \A a \in Member[s] : AspStateIn(o, a, s) = AspStateIn(machine, a, s)
           /\ o.state[s] = machine.state[s]
    BY <1>1, <1>2 DEF Figure!vars
<1>3. ASSUME NEW a \in Member[s], NEW is \in AspState \ {AspStateIn(machine, a, s)},
             is = "Active" => AspStateIn(machine, a, s) = "Inactive",
             \A c \in Member[s] :
                AspStateIn(o, c, s) =
                    IF c = a THEN is
                    ELSE IF /\ Mode[s] = "Override" /\ is = "Active"
                            /\ AspStateIn(machine, c, s) = "Active"
                    THEN "Inactive" ELSE AspStateIn(machine, c, s),
             o.state[s] = NextState([o EXCEPT !.state = machine.state], s)
      PROVE  Figure(s)!AspMoves(a)
    <2>1. is \in {"Down", "Inactive", "Active"} \ {asp[a]} /\ (is = "Active" => asp[a] = "Inactive")
        BY <1>3 DEF AspState
    <2>2. new = [b \in Member[s] |->
                    IF b = a THEN is
                    ELSE IF Mode[s] = "Override" /\ is = "Active" /\ asp[b] = "Active" THEN "Inactive"
                    ELSE asp[b]]
        BY <1>1, <1>3
    <2>3. {c \in Member[s] : new[c] = "Active"} = ActiveIn(o, s)
        BY <1>1 DEF ActiveIn, AspStateIn, IsActive
    <2>4. Figure(s)!Follows
        <3> DEFINE M == ActiveIn(o, s)
                   idle == IF \A c \in Member[s] : AspStateIn(o, c, s) = "Down" THEN "Down" ELSE "Inactive"
        <3>1. Figure(s)!ActiveOnes = M
            BY <2>3 DEF Figure!ActiveOnes
        <3>2. Figure(s)!Idle = idle
            BY <1>1 DEF Figure!Idle
        <3>3. M = ActiveIn(o, s) /\ idle = IF \A c \in Member[s] : AspStateIn(o, c, s) = "Down"
                                          THEN "Down" ELSE "Inactive"
            OBVIOUS
        <3> HIDE DEF M, idle
        <3>4. o.state[s] = Goes4(machine.state[s], s, M, idle)
            BY <1>3, <3>3, StateFollows
        <3>5. machine'.state[s] = Goes4(machine.state[s], s, M, idle)
            BY <3>4
        <3>6. Figure(s)!Cardinality(M) = Cardinality(M)
            BY DEF Cardinality, Figure!Cardinality
        <3> QED BY <3>1, <3>2, <3>5, <3>6, Zenon DEF Figure!Follows, Goes4
    <2> QED BY <2>1, <2>2, <2>4 DEF Figure!AspMoves
<1> QED BY <1>2, <1>3 DEF Arrow, Figure!Next

\* T(r) ends the waiting of its server, and moves no other.
LEMMA ExpiredFollows ==
    ASSUME Sound(machine), NEW t \in Servers, machine.state[t] = "Pending",
           NEW o, Expired(machine, o, t),
           machine'.up = o.up, machine'.active = o.active, machine'.state = o.state,
           NEW s \in Servers
    PROVE  [Figure(s)!Next]_(Figure(s)!vars)
<1>1. \A a : AspStateIn(machine', a, s) = AspStateIn(machine, a, s)
    BY DEF AspStateIn, IsActive, Expired
<1>2. machine.state \in [Servers -> AsState]
    BY DEF Sound, Working
<1>3. CASE s # t
    <2>1. machine'.state[s] = machine.state[s]
        BY <1>2, <1>3 DEF Expired
    <2> QED BY <1>1, <2>1 DEF Figure!vars
<1>4. CASE s = t
    <2>1. machine'.state[s] = IF UpIn(machine, s) # {} THEN "Inactive" ELSE "Down"
        BY <1>2, <1>4 DEF Expired
    <2>2. UpIn(machine, s) = {} <=> \A a \in Member[s] : AspStateIn(machine, a, s) = "Down"
        BY DEF UpIn, AspStateIn
    <2>3. Figure(s)!RecoveryEnds
        BY <1>1, <1>4, <2>1, <2>2 DEF Figure!RecoveryEnds, Figure!Idle
    <2> QED BY <2>3 DEF Figure!Next
<1> QED BY <1>3, <1>4

\* Only an input of the machine moves a server.
LEMMA EveryStepFollows ==
    ASSUME GatewayInv, [Next]_vars, NEW s \in Servers
    PROVE  [Figure(s)!Next]_(Figure(s)!vars)
<1>0. Sound(machine) /\ LayerInv /\ SlotInv
    BY DEF GatewayInv, LayerInv, TypesOfLayer
<1>1. CASE Serve
    <2> DEFINE x == Head(requests)
               asp == DoorOf(x)
    <2>0. requests # <<>>
        BY <1>1 DEF Serve
    <2>1. PICK input \in Request(x) : Accepts(input)
        BY <1>1 DEF Serve
    <2>2. x \in Assoc /\ task[x] \in Submitted
        <3>1. requests \in Seq(Assoc) /\ x = requests[1] /\ 1 \in 1 .. Len(requests)
            BY <1>0, <2>0 DEF SlotInv, Submissions
        <3> QED BY <1>0, <3>1 DEF SlotInv, Submissions
    <2>3. asp \in Asps
        BY <1>0, <2>2, DoorIsGateway DEF Submitted
    <2> HIDE DEF x
    <2>4. IsRequest(input)
        BY <2>1, <2>3 DEF Request, Asked, IsRequest
    <2> HIDE DEF asp
    <2> DEFINE o == Handle(machine, input)
    <2>5. Carried(machine, o, input.asp)
        BY <1>0, <2>4, RequestCarries
    <2>6. Sound(o) /\ Arrow(machine, o, s)
        BY <2>5 DEF Carried
    <2>7. machine'.up = o.up /\ machine'.active = o.active /\ machine'.state = o.state
        BY <2>1, <2>6 DEF Accepts, Sound, Working
    <2> HIDE DEF o
    <2> QED BY <1>0, <2>6, <2>7, CarriedFollows
<1>2. ASSUME NEW t \in Servers, Timeout(t) PROVE [Figure(s)!Next]_(Figure(s)!vars)
    <2> DEFINE input == [kind |-> "Timeout", server |-> t]
               o == Handle(machine, input)
    <2>1. Accepts(input) /\ machine.state[t] = "Pending"
        BY <1>0, <1>2 DEF Timeout, LayerInv, TimersFollow
    <2>2. Expired(machine, o, t)
        BY <1>0, <2>1, RecoveryCarries
    <2> HIDE DEF input
    <2>3. machine'.up = o.up /\ machine'.active = o.active /\ machine'.state = o.state
        BY <2>1, <2>2 DEF Accepts, Expired, Sound, Working
    <2> HIDE DEF o
    <2> QED BY <1>0, <2>1, <2>2, <2>3, ExpiredFollows
<1>3. CASE UNCHANGED machine
    BY <1>3 DEF Figure!vars
<1>4. ASSUME NEW x \in Assoc,
             \/ Accept(x) \/ HandoverPasses(x) \/ End(x) \/ Die(x) \/ Association(x) \/ Receive(x)
      PROVE  UNCHANGED machine
    BY <1>4 DEF Accept, HandoverPasses, End, Die, Association, Knock, Listen, QuiesceSlot, Begin,
                Leave, Receive, layer
<1>5. ASSUME NEW m \in Msu, Traffic(m) PROVE UNCHANGED machine
    BY <1>5 DEF Traffic, Route, Select, LookAtState, Enqueue, Unmoved, layer
<1>6. CASE PerformSend \/ PerformAsp \/ PerformServer \/ PerformTake \/ Flush \/ Done
    BY <1>3, <1>6 DEF PerformSend, PerformAsp, PerformServer, PerformTake, Flush, Done
<1>7. CASE UNCHANGED vars
    BY <1>3, <1>7 DEF vars, layer
<1> QED BY <1>1, <1>2, <1>3, <1>4, <1>5, <1>6, <1>7 DEF Next, Layer

\* Every server begins where Figure 4 does.
LEMMA BeginsAtTheFigure == ASSUME Init, NEW s \in Servers PROVE Figure(s)!Init
<1>1. machine.up = {} /\ machine.state[s] = "Down"
    BY DEF Init, NewMachine
<1> QED BY <1>1 DEF Figure!Init, AspStateIn

\* Aspm::evaluate, recovery_expired: whatever the ASPs ask and however their
\* associations come and go, every server moves along the arrows of Figure 4.
THEOREM EveryServerFollows == ASSUME NEW s \in Servers PROVE Spec => Figure(s)!Spec
<1>1. Init => Figure(s)!Init
    BY BeginsAtTheFigure
<1>2. GatewayInv /\ [Next]_vars => [Figure(s)!Next]_(Figure(s)!vars)
    BY EveryStepFollows
<1> QED BY <1>1, <1>2, GatewayInvariant, PTL DEF Spec, Figure!Spec

\* The property the run checks is this for the server it watches.
THEOREM WatchedFollows == ASSUME Watched \in Servers PROVE Spec => FollowsFigure4
<1>1. Init => AS!Init
    <2>1. ASSUME Init PROVE Figure(Watched)!Init
        BY <2>1, BeginsAtTheFigure
    <2> QED BY <2>1 DEF Figure!Init, AS!Init
<1>2. GatewayInv /\ [Next]_vars => [AS!Next]_(AS!vars)
    <2>1. ASSUME GatewayInv, [Next]_vars PROVE [Figure(Watched)!Next]_(Figure(Watched)!vars)
        BY <2>1, EveryStepFollows
    <2>2. Figure(Watched)!ActiveOnes = AS!ActiveOnes /\ Figure(Watched)!Idle = AS!Idle
        BY DEF Figure!ActiveOnes, AS!ActiveOnes, Figure!Idle, AS!Idle
    <2>3. Figure(Watched)!Follows <=> AS!Follows
        <3>1. Figure(Watched)!Cardinality(AS!ActiveOnes) = AS!Cardinality(AS!ActiveOnes)
            BY DEF AS!Cardinality, Figure!Cardinality
        <3> QED BY <2>2, <3>1, Zenon DEF Figure!Follows, AS!Follows
    <2>4. Figure(Watched)!RecoveryEnds <=> AS!RecoveryEnds
        BY <2>2, Zenon DEF Figure!RecoveryEnds, AS!RecoveryEnds
    <2>5. \A a \in Member[Watched] : Figure(Watched)!AspMoves(a) <=> AS!AspMoves(a)
        BY <2>3, Zenon DEF Figure!AspMoves, AS!AspMoves
    <2>6. Figure(Watched)!Next <=> AS!Next
        BY <2>4, <2>5, Zenon DEF Figure!Next, AS!Next
    <2>7. Figure(Watched)!vars = AS!vars /\ Figure(Watched)!vars' = AS!vars'
        BY DEF Figure!vars, AS!vars
    <2> QED BY <2>1, <2>6, <2>7, Zenon
<1> QED BY <1>1, <1>2, GatewayInvariant, PTL DEF Spec, AS!Spec, FollowsFigure4
=============================================================================
