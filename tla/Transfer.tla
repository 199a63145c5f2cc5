------------------------------ MODULE Transfer ------------------------------
(***************************************************************************)
(* A network of signalling transfer points, each running this program, and *)
(* of hosts that only send and receive (transport/forward.rs; the buffers  *)
(* of controlled rerouting are those of transport/registry.rs).  A message *)
(* is dispatched in one step by the task of the link it arrived on.  The   *)
(* management task holds and releases the traffic of a destination, one    *)
(* held message at a time, while the links' tasks go on dispatching, and a *)
(* link that fails hands back what the far end has not received.           *)
(*                                                                         *)
(* Every egress is a linkset here.  Application servers, with the choice   *)
(* among their processes and the queue of a pending one, are in            *)
(* M3uaGateway; the transmit queue of a link is in LinkTraffic.  What      *)
(* management tells other points of a message that cannot be transferred   *)
(* (unroutable) is in Level3.                                              *)
(*                                                                         *)
(* A message and the return of it have one id.  Two of its fields no code  *)
(* reads: `wants`, that its sender asked for a return, and `back`, that a  *)
(* link has handed it back.                                                *)
(***************************************************************************)
EXTENDS Routing

CONSTANTS
    Config,         \* the configuration of each node (see Routing)
    Host,           \* the points that only send and receive
    Ends,           \* the two points of each link
    Traffic,        \* the messages that hosts send: [from, link, msg]
    Capacity,       \* routing.rerouting_buffer
    Changes,        \* bound: the route statuses that are heard of, [node, mark]
    Fails,          \* bound: the links that fail
    MaxFaults,      \* bound: failures and changes of status in a behaviour
    MaxMessages     \* bound: messages in a behaviour

ASSUME TransferAssumption ==
    Capacity \in Nat /\ MaxFaults \in Nat /\ MaxMessages \in Nat

Node == DOMAIN Config
Link == DOMAIN Ends
Id == 1 .. MaxMessages

FarEnd(link, point) == CHOOSE p \in Ends[link] : p # point

LinksOf(point) == {l \in Link : point \in Ends[l]}

(* What the files of a network say (Compilation): every link is between    *)
(* two points and in a linkset of each that is a node, and every route is  *)
(* through a linkset of its node.                                          *)
ASSUME NetworkAssumption ==
    /\ Node \intersect Host = {}
    /\ \A l \in Link : \E p, q \in Node \union Host : p # q /\ Ends[l] = {p, q}
    /\ Fails \subseteq Link /\ \A change \in Changes : change.node \in Node

ASSUME ConfigAssumption ==
    \A n \in Node :
        LET c == Config[n] IN
        /\ \A ls \in DOMAIN c.links : c.links[ls] \in Seq(LinksOf(n))
        /\ \A l \in LinksOf(n) : \E ls \in DOMAIN c.links :
               \E i \in DOMAIN c.links[ls] : c.links[ls][i] = l
        /\ IsFiniteSet(DOMAIN c.routes)
        /\ \A d \in DOMAIN c.routes : c.routes[d] \in Seq([via : DOMAIN c.links, priority : Nat])

ASSUME TrafficAssumption ==
    \A m \in Traffic :
        {"id", "sls"} \subseteq DOMAIN m /\ m.sls \in Nat /\ m.opc \in Host /\ m.link \in LinksOf(m.opc)

VARIABLES
    state,      \* what routing reads (Routing), and the buffers of each node
    release,    \* the release of a destination that a node is in the middle of
    diverted,   \* the messages a node took back from links and must send again
    wire,       \* wire[l][p]: the messages on link l to its end p
    fate,       \* what became of each message
    faults      \* how many links have failed and statuses have changed

vars == <<state, release, diverted, wire, fate, faults>>

NotReleasing == [dpc |-> None, batch |-> <<>>]

LinksetsUp(c, up) == {ls \in DOMAIN c.links : \E i \in DOMAIN c.links[ls] : c.links[ls][i] \in up}

Init ==
    /\ state = [n \in Node |->
                   [up |-> LinksOf(n), open |-> LinksetsUp(Config[n], LinksOf(n)),
                    marks |-> {}, paused |-> {}, deferred |-> {}, held |-> [d \in {} |-> <<>>],
                    cursor |-> [g \in DOMAIN Config[n].groups |-> 0]]]
    /\ release = [n \in Node |-> NotReleasing]
    /\ diverted = [n \in Node |-> <<>>]
    /\ wire = [l \in Link |-> [p \in Ends[l] |-> <<>>]]
    /\ fate = [i \in Id |-> "Unsent"]
    /\ faults = 0

----------------------------------------------------------------------------
(* What one step does with the message it is about: it goes out by a link, *)
(* waits in a buffer, reaches a user of this node, or is discarded.        *)

Outcome(do, s, link, msg) == [do |-> do, s |-> s, link |-> link, msg |-> msg]

Discarded(s, msg) == Outcome("Discard", s, None, msg)
Reflected(s, msg) == Outcome("Reflect", s, None, msg)
OutBy(s, link, msg) == Outcome("Send", s, link, msg)
ToUser(s, msg) == Outcome("Deliver", s, None, msg)

(* hold_if_rerouting, for a destination that is held. *)
Buffered(s, msg) ==
    IF Len(s.held[msg.dpc]) < Capacity
    THEN Outcome("Hold", [s EXCEPT !.held[msg.dpc] = Append(@, msg)], None, msg)
    ELSE Discarded(s, msg)

IsHeld(s, msg) == msg.dpc \in DOMAIN s.held

OnLink(s, link, msg) == IF link = None THEN Discarded(s, msg) ELSE OutBy(s, link, msg)

SendNow(c, s, via, msg) == OnLink(s, SelectLink(c, s, via, msg.sls, None), msg)

SendVia(c, s, via, msg) == IF IsHeld(s, msg) THEN Buffered(s, msg) ELSE SendNow(c, s, via, msg)


AsksReturn(msg) == msg.si = "SCCP" /\ msg.type \in DOMAIN Service /\ msg.asks

(* sccp_return: it starts at this node, goes to the point the message came *)
(* from, which translates nothing, and is itself never returned.           *)
SccpReturn(c, msg) ==
    [msg EXCEPT !.opc = c.pc, !.dpc = msg.opc, !.type = Service[msg.type], !.asks = FALSE,
                !.title = None, !.ssn = None, !.starts = "No", !.content = "None"]

ReturnOrDiscard(c, s, src, msg) ==
    IF AsksReturn(msg) THEN SendVia(c, s, src, SccpReturn(c, msg)) ELSE Discarded(s, msg)

(* refused_by_admission, at a node that relays and at one that terminates: *)
(* the answer to a Begin is an abort on the link it came by.               *)
AbortOf(c, msg) ==
    [msg EXCEPT !.opc = c.pc, !.dpc = msg.opc, !.asks = FALSE,
                !.title = None, !.ssn = None, !.starts = "No", !.content = "None"]

(* refuse_begin *)
CanAbort(msg) ==
    /\ msg.starts = "Begin" /\ msg.content # "Segment" /\ msg.type \in {"UDT", "XUDT"}
    /\ msg.type = "XUDT" /\ msg.title # None => msg.hops > 1

RefusedHere(c, s, from, msg) ==
    IF CanAbort(msg) /\ from \in s.up
    THEN OutBy(s, from, AbortOf(c, msg)) ELSE Discarded(s, msg)

(* hop_counter_guard, then the new label and title. *)
HopsUnspent(hops) == hops

HopsLeft(hops) == IF hops = 0 THEN 0 ELSE hops - 1

Relayed(msg, d) ==
    [msg EXCEPT !.dpc = d.dpc,
                !.hops = IF HasHops(msg.type) THEN HopsLeft(@) ELSE @,
                !.title = IF d.digits # None /\ msg.type \in DOMAIN Service THEN d.digits ELSE @]

Exhausted(msg) == msg.si = "SCCP" /\ HasHops(msg.type) /\ HopsLeft(msg.hops) = 0

----------------------------------------------------------------------------
(* dispatch.  src is the linkset that the link `from` belongs to.          *)

Transfers(c, s, src, msg, d) ==
    CASE ScreenedOut(c, msg) -> Discarded(s, msg)
      [] ~ScreenedOut(c, msg) /\ d.via = src -> Reflected(s, msg)
      [] OTHER -> IF RefusedBy(c, msg) THEN ReturnOrDiscard(c, s, src, msg)
                  ELSE SendVia(c, s, d.via, msg)

Relays(c, s, src, msg, d) ==
    CASE d.via = None -> ReturnOrDiscard(c, s, src, msg)
      [] d.via = src -> Reflected(s, msg)
      [] OTHER -> IF RefusedBy(c, msg) \/ Exhausted(msg) THEN ReturnOrDiscard(c, s, src, msg)
                  ELSE SendVia(c, s, d.via, Relayed(msg, d))

Acts(c, s, from, src, msg, d) ==
    CASE d.do = "Route" -> Transfers(c, s, src, msg, d)
      [] d.do = "RouteTo" -> Relays(c, s, src, msg, d)
      [] d.do = "Local" ->
            IF RefusedBy(c, msg) THEN RefusedHere(c, s, from, msg) ELSE ToUser(s, msg)
      [] d.do \in {"CrossTenant", "Drop"} -> ReturnOrDiscard(c, s, src, msg)

Dispatch(c, s, from, msg) ==
    IF msg.opc = c.pc THEN Discarded(s, msg)
    ELSE Acts(c, Routed(c, s, msg), from, LinksetOf(c, from), msg, RouteFor(c, s, msg))

(* reroute: what link `from` handed back, by another link of its linkset,  *)
(* or by a route through another linkset.                                  *)
ByOtherRoute(c, s, via, msg) ==
    IF via = None THEN Discarded(s, msg) ELSE SendVia(c, s, via, msg)

ByOtherLink(c, s, own, link, msg) ==
    IF link = None THEN ByOtherRoute(c, s, EgressFor(c, s, msg.dpc, msg.sls, own), msg)
    ELSE IF IsHeld(s, msg) THEN Buffered(s, msg) ELSE OutBy(s, link, msg)

Reroute(c, s, from, msg) ==
    IF Resolve(c, s, msg.dpc, msg.sls) = LinksetOf(c, from)
    THEN ByOtherLink(c, s, LinksetOf(c, from),
                     SelectLink(c, s, LinksetOf(c, from), msg.sls, from), msg)
    ELSE ByOtherRoute(c, s, Resolve(c, s, msg.dpc, msg.sls), msg)

----------------------------------------------------------------------------
(* The steps of a node.                                                    *)

Ended(o) ==
    CASE o.do = "Discard" -> IF o.msg.wants THEN "Unanswered" ELSE "Discarded"
      [] o.do = "Reflect" -> IF o.msg.wants /\ ~o.msg.asks THEN "TurnedBack" ELSE "Discarded"
      [] o.do = "Deliver" -> "Delivered"
      [] OTHER -> "Sent"

(* Node n carries out an outcome, with `lines` the links once the message  *)
(* it is about was taken from where it was.                                *)
Carries(n, o, lines) ==
    /\ state' = [state EXCEPT ![n] = o.s]
    /\ fate' = [fate EXCEPT ![o.msg.id] = Ended(o)]
    /\ wire' = IF o.do = "Send" THEN [lines EXCEPT ![o.link][FarEnd(o.link, n)] = Append(@, o.msg)]
               ELSE lines

Taken(l, p) == [wire EXCEPT ![l][p] = Tail(@)]

Receive(n, l) ==
    /\ wire[l][n] # <<>>
    /\ Carries(n, Dispatch(Config[n], state[n], l, Head(wire[l][n])), Taken(l, n))
    /\ UNCHANGED <<release, diverted, faults>>

(* What a failed link held is sent again by the task of that link. *)
Divert(n) ==
    /\ diverted[n] # <<>>
    /\ Carries(n, Reroute(Config[n], state[n], Head(diverted[n]).link, Head(diverted[n]).msg), wire)
    /\ diverted' = [diverted EXCEPT ![n] = Tail(@)]
    /\ UNCHANGED <<release, faults>>

(* recompute: the route state follows the links.  Until it does, routing   *)
(* may lead to a linkset without a link.                                   *)
Recompute(n) ==
    /\ state[n].open # LinksetsUp(Config[n], state[n].up)
    /\ state' = [state EXCEPT ![n].open = LinksetsUp(Config[n], state[n].up)]
    /\ UNCHANGED <<release, diverted, wire, fate, faults>>

----------------------------------------------------------------------------
(* Controlled and forced rerouting.  Management (Mtp3Management) decides   *)
(* which; here a route status is heard of at any time.                     *)

(* set_route_status, of one or several marks. *)
Superseded(marks, new) ==
    {m \in marks : \A k \in new : <<m[1], m[2]>> # <<k[1], k[2]>>} \union new

Noted(marks, new) == {m \in Superseded(marks, new) : m[3] # "Allowed"}

(* What management takes the statuses to be: it knows the deferred ones.   *)
AsHeard(s, new) == [s EXCEPT !.marks = Noted(Noted(@, s.deferred), new)]

InUseAmong(routes, use, tier) == {routes[i].via : i \in {j \in tier : use[j] = ClassInUse(tier, use)}}

InUseOf(routes, use) == InUseAmong(routes, use, TierInUse(routes, use))

(* routes_in_use *)
InUse(c, s, d) ==
    InUseOf(Candidates(c, d),
            [i \in DOMAIN Candidates(c, d) |-> Usable(s, d, Candidates(c, d)[i].via, None)])

Moves(before, after) == before # after /\ before # {} /\ after # {}

IsHolding(n, d) == d \in DOMAIN state[n].held

DeferredFor(n, d) == {m \in state[n].deferred : m[1] = d}

(* hold_destination *)
Opened(held, d) == [x \in DOMAIN held \union {d} |-> IF x = d THEN <<>> ELSE held[x]]

NotesNow(n, d, new) ==
    [state[n] EXCEPT !.marks = Noted(@, new), !.deferred = @ \ DeferredFor(n, d)]

NotesLater(n, new) == [state[n] EXCEPT !.deferred = Superseded(@, new)]

(* T6 of a destination runs out, or a route to it is prohibited: what was  *)
(* deferred counts from now on, and what was held goes out.                *)
Releases(n, d, new) ==
    /\ state' = [state EXCEPT ![n] = NotesNow(n, d, Superseded(DeferredFor(n, d), new))]
    /\ release' = IF IsHolding(n, d) THEN [release EXCEPT ![n].dpc = d] ELSE release

(* mark_route, for a mark on a route of d.                                 *)
MarkRoute(n, d, mark, moves) ==
    \/ mark[3] = "Prohibited" /\ Releases(n, d, {mark})
    \/ /\ mark[3] # "Prohibited" /\ IsHolding(n, d)
       /\ state' = [state EXCEPT ![n] = NotesLater(n, {mark})] /\ UNCHANGED release
    \/ /\ mark[3] # "Prohibited" /\ ~IsHolding(n, d) /\ moves
       /\ state' = [state EXCEPT ![n] = [NotesLater(n, {mark}) EXCEPT !.held = Opened(@, d)]]
       /\ UNCHANGED release
    \/ /\ mark[3] # "Prohibited" /\ ~IsHolding(n, d) /\ ~moves
       /\ state' = [state EXCEPT ![n] = NotesNow(n, d, {mark})] /\ UNCHANGED release

StatusChanges(n, mark) ==
    /\ release[n] = NotReleasing /\ faults < MaxFaults
    /\ AsHeard(state[n], {mark}) # AsHeard(state[n], {})
    /\ MarkRoute(n, mark[1], mark,
                 Moves(InUse(Config[n], AsHeard(state[n], {}), mark[1]),
                       InUse(Config[n], AsHeard(state[n], {mark}), mark[1])))
    /\ faults' = faults + 1
    /\ UNCHANGED <<diverted, wire, fate>>

T6Expires(n, d) ==
    /\ release[n] = NotReleasing /\ IsHolding(n, d)
    /\ Releases(n, d, {})
    /\ UNCHANGED <<diverted, wire, fate, faults>>

(* release_destination of the registry: what is buffered is taken, and the *)
(* destination is held until nothing is found to take.                     *)
TakenAndKept(held, d) == IF held[d] = <<>> THEN [x \in DOMAIN held \ {d} |-> held[x]] ELSE held

TakenAndOpen(held, d) == [x \in DOMAIN held \ {d} |-> held[x]]

NothingFor(held, d) == d \notin DOMAIN held \/ held[d] = <<>>

AfterTaking(held, d) ==
    IF NothingFor(held, d) THEN [x \in DOMAIN held \ {d} |-> held[x]]
    ELSE [held EXCEPT ![d] = <<>>]

BatchOf(held, d) ==
    IF NothingFor(held, d) THEN NotReleasing ELSE [dpc |-> d, batch |-> held[d]]

TakeBatch(n) ==
    /\ release[n].dpc # None /\ release[n].batch = <<>>
    /\ release' = [release EXCEPT ![n] = BatchOf(state[n].held, release[n].dpc)]
    /\ state' = [state EXCEPT ![n].held = AfterTaking(@, release[n].dpc)]
    /\ UNCHANGED <<diverted, wire, fate, faults>>

(* Each held message goes by the routing as it now is, and is not held. *)
SendHeld(c, s, via, msg) == IF via = None THEN Discarded(s, msg) ELSE SendNow(c, s, via, msg)

SendBatch(n) ==
    /\ release[n].batch # <<>>
    /\ LET msg == Head(release[n].batch)
       IN  Carries(n, SendHeld(Config[n], state[n],
                               Resolve(Config[n], state[n], msg.dpc, msg.sls), msg), wire)
    /\ release' = [release EXCEPT ![n].batch = Tail(@)]
    /\ UNCHANGED <<diverted, faults>>

----------------------------------------------------------------------------
(* The hosts and the links.                                                *)

NextId == CHOOSE i \in Id : fate[i] = "Unsent" /\ \A j \in 1 .. i - 1 : fate[j] # "Unsent"

HostSends(h, l, m) ==
    /\ \E i \in Id : fate[i] = "Unsent"
    /\ wire' = [wire EXCEPT ![l][FarEnd(l, h)] =
                    Append(@, [m EXCEPT !.id = NextId])]
    /\ fate' = [fate EXCEPT ![NextId] = "Sent"]
    /\ UNCHANGED <<state, release, diverted, faults>>

HostReceives(h, l) ==
    /\ wire[l][h] # <<>>
    /\ wire' = Taken(l, h)
    /\ LET msg == Head(wire[l][h])
       IN  fate' = [fate EXCEPT ![msg.id] = IF msg.dpc = h THEN "Delivered" ELSE "Discarded"]
    /\ UNCHANGED <<state, release, diverted, faults>>

(* A link fails.  A node gets back what the far end had not received; what *)
(* a host sent is lost.                                                    *)
Back(l, msg) == [link |-> l, msg |-> [msg EXCEPT !.back = TRUE]]

HandedBack(n, l) ==
    [i \in DOMAIN wire[l][FarEnd(l, n)] |-> Back(l, wire[l][FarEnd(l, n)][i])]

LostWith(l) ==
    {i \in Id : \E h \in Ends[l] \ Node : \E k \in DOMAIN wire[l][FarEnd(l, h)] :
                    wire[l][FarEnd(l, h)][k].id = i}

LinkFails(l) ==
    /\ faults < MaxFaults /\ \A n \in Ends[l] \intersect Node : l \in state[n].up
    /\ state' = [n \in Node |-> [state[n] EXCEPT !.up = @ \ {l}]]
    /\ diverted' = [n \in Node |-> IF n \in Ends[l] THEN diverted[n] \o HandedBack(n, l)
                                   ELSE diverted[n]]
    /\ fate' = [i \in Id |-> IF i \in LostWith(l) THEN "Discarded" ELSE fate[i]]
    /\ wire' = [wire EXCEPT ![l] = [p \in Ends[l] |-> <<>>]]
    /\ faults' = faults + 1
    /\ UNCHANGED release

LinkReturns(l) ==
    /\ \E n \in Ends[l] \intersect Node : l \notin state[n].up
    /\ state' = [n \in Node |-> IF n \in Ends[l] THEN [state[n] EXCEPT !.up = @ \union {l}]
                                ELSE state[n]]
    /\ UNCHANGED <<release, diverted, wire, fate, faults>>

NodeStep(n) ==
    \/ \E l \in LinksOf(n) : Receive(n, l)
    \/ Divert(n) \/ Recompute(n) \/ TakeBatch(n) \/ SendBatch(n)
    \/ \E d \in DOMAIN state[n].held : T6Expires(n, d)

HostStep(h) == \E l \in LinksOf(h) : HostReceives(h, l)

Next ==
    \/ \E n \in Node : NodeStep(n)
    \/ \E h \in Host : HostStep(h)
    \/ \E change \in Changes : StatusChanges(change.node, change.mark)
    \/ \E m \in Traffic : HostSends(m.opc, m.link, m)
    \/ \E l \in Fails : LinkFails(l) \/ LinkReturns(l)

(* The tasks of a node go on, and so do the hosts: whoever has something   *)
(* to do for ever does something.  For the nodes this is weak fairness of  *)
(* NodeStep with the condition that enables it written out.  Nothing need  *)
(* be sent, and no link need fail.                                         *)
NodeBusy(n) ==
    \/ \E l \in LinksOf(n) : wire[l][n] # <<>>
    \/ diverted[n] # <<>> \/ release[n] # NotReleasing \/ DOMAIN state[n].held # {}
    \/ state[n].open # LinksetsUp(Config[n], state[n].up)

Fairness ==
    /\ \A n \in Node : []<>~NodeBusy(n) \/ []<><<NodeStep(n)>>_vars
    /\ \A h \in Host : WF_vars(HostStep(h))

Spec == Init /\ [][Next]_vars /\ Fairness

----------------------------------------------------------------------------
(* Properties.                                                             *)

Times(queue, i) == Cardinality({k \in DOMAIN queue : queue[k].id = i})

Wires == {q \in Link \X (Node \union Host) : q[2] \in Ends[q[1]]}

(* The queues that a message may be in. *)
Buffers(n) == {state[n].held[d] : d \in DOMAIN state[n].held}

(* A message that was sent and has not ended is in exactly one place: on a *)
(* wire, held for rerouting, in the batch that is being released, or among *)
(* those a failed link handed back.  So holding, releasing (which takes    *)
(* the buffer while messages still come in), returning and rerouting       *)
(* neither lose nor copy it.                                               *)
InOnePlace ==
    \A i \in Id :
        LET wires == {q \in Wires : Times(wire[q[1]][q[2]], i) > 0}
            holders == {n \in Node : \E b \in Buffers(n) : Times(b, i) > 0}
            releasing == {n \in Node : Times(release[n].batch, i) > 0}
            diverting == {n \in Node : \E k \in DOMAIN diverted[n] : diverted[n][k].msg.id = i}
        IN  Cardinality(wires) + Cardinality(holders) + Cardinality(releasing) + Cardinality(diverting)
                = IF fate[i] = "Sent" THEN 1 ELSE 0

SameStream(a, b) == a.opc = b.opc /\ a.dpc = b.dpc /\ a.sls = b.sls /\ ~a.back /\ ~b.back

Waiting(n, d) ==
    (IF release[n].dpc = d THEN release[n].batch ELSE <<>>)
        \o (IF d \in DOMAIN state[n].held THEN state[n].held[d] ELSE <<>>)

(* A message that waits for controlled rerouting is not overtaken: one of  *)
(* the same stream that was sent after it is behind it in the buffer, and  *)
(* none has left the node.  That the release goes on until the buffer is   *)
(* found empty, while the links' tasks add to it, is what this is about.   *)
NotOvertaken ==
    \A n \in Node : \A d \in DOMAIN state[n].held \union {release[n].dpc} :
        \A k \in DOMAIN Waiting(n, d) :
            LET msg == Waiting(n, d)[k]
                Before(m) == SameStream(m, msg) => m.id < msg.id
            IN  /\ \A j \in 1 .. k - 1 : Before(Waiting(n, d)[j])
                /\ \A l \in LinksOf(n) : \A j \in DOMAIN wire[l][FarEnd(l, n)] :
                       Before(wire[l][FarEnd(l, n)][j])


OnTheWay == UNION {{wire[q[1]][q[2]][k] : k \in DOMAIN wire[q[1]][q[2]]} : q \in Wires}

(* A message with a hop counter is out of the network sooner or later,     *)
(* however the translations of the nodes lead in a circle.                 *)
HopsEnd == []<>(\A msg \in OnTheWay : ~HasHops(msg.type))

(* Every message is out of the network sooner or later: a loop that the    *)
(* hop counter cannot end is caught by the guards on the origin and on     *)
(* reflection (hop_counter_guard).                                         *)
LoopsAreCaught == []<>(OnTheWay = {})
=============================================================================
