-------------------------------- MODULE Aspm --------------------------------
(***************************************************************************)
(* ASP and AS state maintenance of one routing domain:                     *)
(* src/transport/m3ua/aspm.rs (RFC 4666 4.3).                              *)
(*                                                                         *)
(* The code is a machine without I/O.  Here it is a record, every method   *)
(* an operator from a machine to the machine after the call, and the       *)
(* vector of Actions the field out.  An ASP and a server are their         *)
(* positions in the Layout, in which the loops of the code visit them; a   *)
(* server is also its Routing Context, which the configuration keeps       *)
(* unique.  ASP Identifiers, which only fill a field of a Notify, and the  *)
(* traffic mode an ASP Active Ack repeats are left out.                    *)
(***************************************************************************)
EXTENDS Integers, Sequences, FiniteSets, Listing

CONSTANTS
    Asps,        \* 1 .. n: the M3UA associations
    Servers,     \* 1 .. n: the Application Servers
    Member,      \* Member[s]: the ASPs configured in server s
    Mode,        \* Mode[s]: "Override", "Loadshare" or "Broadcast"
    Required,    \* Required[s]: how many ASPs have to be active before s is
    Recovers,    \* Recovers[s]: the server has a T(r)
    Gateway      \* the ASPs this node is the signalling gateway of

TrafficMode == {"Override", "Loadshare", "Broadcast"}

ASSUME LayoutAssumption ==
    /\ IsFiniteSet(Asps) /\ Asps = 1 .. Cardinality(Asps)
    /\ IsFiniteSet(Servers) /\ Servers = 1 .. Cardinality(Servers)
    /\ Member \in [Servers -> SUBSET Asps]
    /\ Mode \in [Servers -> TrafficMode]
    /\ Required \in [Servers -> Nat \ {0}]
    /\ Recovers \in [Servers -> BOOLEAN]
    /\ Gateway \subseteq Asps

\* Layout::build gives T(r) only to a server with an ASP behind this gateway.
ASSUME RecoveryAssumption == \A s \in Servers : Recovers[s] => Member[s] \cap Gateway # {}

AspState == {"Down", "Inactive", "Active"}

AsState == {"Down", "Inactive", "Active", "Pending"}

Status == {"AsInactive", "AsActive", "AsPending", "InsufficientResources",
           "AlternateAspActive", "AspFailure"}

\* Status::of.  A server that is down is announced to nobody.
StatusOf(state) ==
    CASE state = "Inactive" -> {"AsInactive"}
      [] state = "Active"   -> {"AsActive"}
      [] state = "Pending"  -> {"AsPending"}
      [] OTHER              -> {}

\* What a Notify says of the state of a server.
StateNotices == {"AsInactive", "AsActive", "AsPending"}

StateIn(status) == CASE status = "AsInactive" -> "Inactive"
                     [] status = "AsActive"   -> "Active"
                     [] status = "AsPending"  -> "Pending"

\* The servers an ASP is configured in (AspSpec::servers).
ServersOf(asp) == {s \in Servers : asp \in Member[s]}

Machine == [up : SUBSET Asps, active : SUBSET (Asps \X Servers),
            state : [Servers -> AsState]]

NewMachine == [up     |-> {},
               active |-> {},
               state  |-> [s \in Servers |-> "Down"],
               out    |-> <<>>]

----------------------------------------------------------------------------
(* Reading the machine.                                                    *)

IsActive(m, asp, s) == asp \in m.up /\ <<asp, s>> \in m.active

AspStateIn(m, asp, s) ==
    IF asp \notin m.up THEN "Down" ELSE IF IsActive(m, asp, s) THEN "Active" ELSE "Inactive"

ActiveIn(m, s) == {a \in Member[s] : IsActive(m, a, s)}

UpIn(m, s) == Member[s] \cap m.up

\* No Routing Context parameter, and a context no server of the ASP has.
NoContexts == {}
StrayContext == 0

\* The servers a request is about, among those the ASP is configured in.
Concerned(asp, contexts) ==
    IF contexts = NoContexts THEN ServersOf(asp) ELSE ServersOf(asp) \cap contexts

Unconfigured(asp, contexts) == contexts \ ServersOf(asp)

----------------------------------------------------------------------------
(* What the machine has its caller do.                                     *)

Do(m, action) == [m EXCEPT !.out = Append(@, action)]

\* Send, about these servers: nothing is sent where this node is the ASP itself.
SendTo(m, asp, message, about) ==
    IF asp \in Gateway
    THEN Do(m, [do |-> "Send", asp |-> asp, message |-> message, about |-> about])
    ELSE m

AspIs(m, asp, s, state) == Do(m, [do |-> "Asp", asp |-> asp, server |-> s, state |-> state])

\* A loop over the servers of a set, in the order of the Layout.
ForServers(m, S, Step(_, _)) ==
    LET After[k \in 0 .. Cardinality(Servers)] ==
            IF k = 0 THEN m ELSE IF k \in S THEN Step(After[k - 1], k) ELSE After[k - 1]
    IN  After[Cardinality(Servers)]

\* Tell those of the ASPs in to that belong to the server and are not down.
Notify(m, s, status, to) ==
    LET told == InOrder(UpIn(m, s) \cap to \cap Gateway)
    IN  [m EXCEPT !.out = @ \o [i \in 1 .. Len(told) |->
            [do |-> "Send", asp |-> told[i], message |-> status, about |-> {s}]]]

NotifyState(m, s, to) ==
    IF m.state[s] = "Down" THEN m
    ELSE Notify(m, s, CHOOSE status \in StatusOf(m.state[s]) : TRUE, to)

----------------------------------------------------------------------------
(* The state of a server (Figure 4 of the RFC).                            *)

\* A mistake: a pending server without an active ASP is taken out before T(r).
NextStateImpatient(m, s) ==
    IF ActiveIn(m, s) # {} THEN "Active" ELSE IF UpIn(m, s) # {} THEN "Inactive" ELSE "Down"

\* The state the ASPs of a server put it in.
NextState(m, s) ==
    LET idle == IF UpIn(m, s) # {} THEN "Inactive" ELSE "Down"
    IN  IF m.state[s] \in {"Down", "Inactive"}
        THEN IF Cardinality(ActiveIn(m, s)) >= Required[s] THEN "Active" ELSE idle
        ELSE IF ActiveIn(m, s) # {} THEN "Active"
        ELSE IF m.state[s] = "Pending" \/ Recovers[s] THEN "Pending"
        ELSE idle

\* A mistake: nobody is told.
MoveToUntold(m, s, state) ==
    LET stopped == IF m.state[s] = "Pending"
                   THEN Do(m, [do |-> "Stop", server |-> s]) ELSE m
        started == IF state = "Pending"
                   THEN Do(stopped, [do |-> "Start", server |-> s]) ELSE stopped
    IN  Do([started EXCEPT !.state[s] = state],
           [do |-> "Server", server |-> s, state |-> state])

\* Move a server to a state, with its timer, and tell its ASPs.
MoveTo(m, s, state) ==
    LET stopped == IF m.state[s] = "Pending"
                   THEN Do(m, [do |-> "Stop", server |-> s]) ELSE m
        started == IF state = "Pending"
                   THEN Do(stopped, [do |-> "Start", server |-> s]) ELSE stopped
        moved   == Do([started EXCEPT !.state[s] = state],
                      [do |-> "Server", server |-> s, state |-> state])
    IN  NotifyState(moved, s, Asps)

\* Evaluate: nothing happens when the server is in that state already.
Evaluate(m, s) ==
    IF NextState(m, s) = m.state[s] THEN m ELSE MoveTo(m, s, NextState(m, s))

\* Too few ASPs are left in an active server that shares its traffic: the
\* inactive ones are told.
Resources(m, s) ==
    IF /\ Mode[s] # "Override"
       /\ m.state[s] = "Active"
       /\ Cardinality(ActiveIn(m, s)) < Required[s]
    THEN Notify(m, s, "InsufficientResources", Asps \ ActiveIn(m, s))
    ELSE m

\* T(r) ran out.  Its deadline is gone, so there is nothing to stop.
RecoveryExpired(m, s) ==
    IF m.state[s] # "Pending" THEN m
    ELSE LET idle  == IF UpIn(m, s) \ ActiveIn(m, s) # {} THEN "Inactive" ELSE "Down"
             moved == Do([m EXCEPT !.state[s] = idle],
                         [do |-> "Server", server |-> s, state |-> idle])
         IN  NotifyState(moved, s, Asps)

----------------------------------------------------------------------------
(* The state of an ASP (Figure 3).                                         *)

BringUp(m, asp) ==
    LET In(n, s) ==
            LET now == AspIs(n, asp, s, "Inactive")
            IN  IF NextState(now, s) # now.state[s] THEN Evaluate(now, s)
                ELSE NotifyState(now, s, {asp})
    IN  ForServers([m EXCEPT !.up = @ \cup {asp}], ServersOf(asp), In)

\* failed: the association was lost, which the other ASPs are told.
TakeDown(m, asp, failed) ==
    LET In(n, s) ==
            LET down == AspIs(n, asp, s, "Down")
                told == IF failed THEN Notify(down, s, "AspFailure", Asps) ELSE down
            IN  Resources(Evaluate(told, s), s)
        left == [m EXCEPT !.up = @ \ {asp}, !.active = @ \ ({asp} \X Servers)]
    IN  IF asp \in m.up THEN ForServers(left, ServersOf(asp), In) ELSE m

\* The ASPs that lose an Override server to another.
Displaced(m, asp, s) == IF Mode[s] = "Override" THEN ActiveIn(m, s) \ {asp} ELSE {}

Activate(m, asp, s) ==
    LET on  == AspIs([m EXCEPT !.active = @ \cup {<<asp, s>>}], asp, s, "Active")
        off == InOrder(Displaced(m, asp, s))
        Without[i \in 0 .. Len(off)] ==
            IF i = 0 THEN on
            ELSE Notify(AspIs([Without[i - 1] EXCEPT !.active = @ \ {<<off[i], s>>}],
                              off[i], s, "Inactive"),
                        s, "AlternateAspActive", {off[i]})
    IN  IF <<asp, s>> \in m.active \/ asp \notin Member[s] THEN m
        ELSE Do(Evaluate(Without[Len(off)], s), [do |-> "Activated", asp |-> asp, server |-> s])

Deactivate(m, asp, s) ==
    IF ~IsActive(m, asp, s) THEN m
    ELSE LET off == AspIs([m EXCEPT !.active = @ \ {<<asp, s>>}], asp, s, "Inactive")
         IN  Resources(Evaluate(off, s), s)

ActivateIn(m, asp, S) == LET In(n, s) == Activate(n, asp, s) IN ForServers(m, S, In)

DeactivateIn(m, asp, S) == LET In(n, s) == Deactivate(n, asp, s) IN ForServers(m, S, In)

----------------------------------------------------------------------------
(* The inputs.                                                             *)

AnywhereActive(m, asp) == asp \in m.up /\ \E s \in Servers : <<asp, s>> \in m.active

Up(m, asp) ==
    LET acked == SendTo(m, asp, "UpAck", {})
    IN  IF asp \notin m.up THEN BringUp(acked, asp)
        ELSE IF AnywhereActive(m, asp)
        THEN DeactivateIn(SendTo(acked, asp, "UnexpectedMessage", {}),
                          asp, ServersOf(asp))
        ELSE acked

Down(m, asp) == TakeDown(SendTo(m, asp, "DownAck", {}), asp, FALSE)

Lost(m, asp) == TakeDown(m, asp, TRUE)

\* What a request cannot be about is answered with an Error.
Admitted(m, asp, contexts) ==
    IF asp \notin m.up THEN SendTo(m, asp, "UnexpectedMessage", {})
    ELSE IF Unconfigured(asp, contexts) # {}
    THEN SendTo(m, asp, "InvalidRoutingContext", {})
    ELSE IF contexts = NoContexts /\ ServersOf(asp) = {}
    THEN SendTo(m, asp, "NoConfiguredAs", {})
    ELSE m

\* mode is {} when the request has no Traffic Mode Type.
Active(m, asp, mode, contexts) ==
    LET servers  == IF asp \in m.up THEN Concerned(asp, contexts) ELSE {}
        accepted == {s \in servers : mode \subseteq {Mode[s]}}
        answered == Admitted(m, asp, contexts)
        refused  == IF servers # accepted
                    THEN SendTo(answered, asp, "UnsupportedTrafficMode", {})
                    ELSE answered
    IN  IF accepted = {} THEN refused
        ELSE ActivateIn(SendTo(refused, asp, "ActiveAck", accepted), asp, accepted)

Inactive(m, asp, contexts) ==
    LET servers == IF asp \in m.up THEN Concerned(asp, contexts) ELSE {}
        answered == Admitted(m, asp, contexts)
    IN  IF servers = {} THEN answered
        ELSE DeactivateIn(SendTo(answered, asp, "InactiveAck", servers), asp, servers)

\* Where this node is the ASP, what the gateway at the far end acknowledged.
PeerUp(m, asp) == IF asp \in m.up THEN m ELSE BringUp(m, asp)

PeerActive(m, asp, contexts) ==
    IF asp \in m.up THEN ActivateIn(m, asp, Concerned(asp, contexts)) ELSE m

PeerInactive(m, asp, contexts) == DeactivateIn(m, asp, Concerned(asp, contexts))

\* Aspm::handle: one event in, the actions it calls for out.
Handle(m, input) ==
    LET n == [m EXCEPT !.out = <<>>]
    IN  CASE input.kind = "Up"           -> Up(n, input.asp)
          [] input.kind = "Down"         -> Down(n, input.asp)
          [] input.kind = "Active"       -> Active(n, input.asp, input.mode, input.contexts)
          [] input.kind = "Inactive"     -> Inactive(n, input.asp, input.contexts)
          [] input.kind = "Lost"         -> Lost(n, input.asp)
          [] input.kind = "PeerUp"       -> PeerUp(n, input.asp)
          [] input.kind = "PeerActive"   -> PeerActive(n, input.asp, input.contexts)
          [] input.kind = "PeerInactive" -> PeerInactive(n, input.asp, input.contexts)
          [] input.kind = "Timeout"      -> RecoveryExpired(n, input.server)
=============================================================================
