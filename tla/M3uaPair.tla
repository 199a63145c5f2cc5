------------------------------ MODULE M3uaPair ------------------------------
(***************************************************************************)
(* Nodes of this program as ASPs, dialling a node of this program that is  *)
(* their signalling gateway: the ASP side of src/transport/m3ua.rs         *)
(* (Asking, ask_up, ask_active, ack_timeout, gateway_said, notified,       *)
(* pause), the machine of Aspm at either end, the dialling of Dial, and    *)
(* what the gateway tells about a destination (settle, tell, brief).       *)
(*                                                                         *)
(* All ASPs serve one server; M3uaGateway looks at the tasks within the    *)
(* gateway, here an input of its layer is one step.  An association is a   *)
(* FIFO in each direction.  It breaks, and each end learns of that when it *)
(* does: until then the gateway holds a stale association, for which a new *)
(* one has to wait (admit).  A behaviour has MaxFaults faults of any kind. *)
(***************************************************************************)
EXTENDS Aspm, Dial

CONSTANTS
    Faults,      \* what may go wrong, or change: see Spend
    MaxFaults    \* how often anything of it does

VARIABLES
    machine,     \* the gateway's Aspm
    known,       \* what the gateway knows of the destination
    own,         \* own[c]: the Aspm of ASP c, in which it is ASP 1
    dial,        \* dial[c]
    asking,      \* asking[c]: Asking, active its one context
    paused,      \* paused[c]: ASP c takes the destination to be unavailable
    line,        \* line[c]: the association as ASP c has it, and whether it is broken
    held,        \* held[c]: what the gateway holds for c
    up,          \* up[c]: what is under way to the gateway
    down,        \* down[c]: and from it
    left,        \* how many faults there may still be
    missed       \* missed[c]: what ASP c was to hear, was not told, and nobody repeats

vars == <<machine, known, own, dial, asking, paused, line, held, up, down, left, missed>>

\* The Aspm of an ASP: one ASP, one server, and nobody to be the gateway of.
Own == INSTANCE Aspm WITH
    Asps <- {1}, Servers <- {1}, Member <- <<{1}>>, Mode <- <<Mode[1]>>,
    Required <- <<1>>, Recovers <- <<FALSE>>, Gateway <- {}

\* A fault: "Break", an association breaks; "Fail", an attempt to dial fails;
\* "Lose", a message is not sent; "Hurry", T(ack) runs out with the answer under
\* way; "Evict", the gateway makes an ASP inactive or takes it down; "Change",
\* the destination changes.
Spend(what) == what \in Faults /\ left > 0 /\ left' = left - 1

NotAsking == [up |-> FALSE, active |-> FALSE, timer |-> FALSE]

Init ==
    /\ machine = NewMachine
    /\ known = "Unavailable"
    /\ own = [c \in Asps |-> Own!NewMachine]
    /\ dial = [c \in Asps |-> NewDial]
    /\ asking = [c \in Asps |-> NotAsking]
    /\ paused = [c \in Asps |-> FALSE]
    /\ line = [c \in Asps |-> "None"]
    /\ held = [c \in Asps |-> "None"]
    /\ up = [c \in Asps |-> <<>>]
    /\ down = [c \in Asps |-> <<>>]
    /\ left = MaxFaults
    /\ missed = [c \in Asps |-> {}]

Belief(c) == Own!AspStateIn(own[c], 1, 1)

----------------------------------------------------------------------------
(* The gateway.                                                            *)

\* A mistake: a newly active ASP is told nothing.
BriefingNothing(act) == IF act.do = "Send" THEN <<act.message>> ELSE <<>>

\* brief: a newly active ASP is told what is unavailable.
Briefing(act) ==
    CASE act.do = "Send" -> <<act.message>>
      [] act.do = "Activated" /\ known = "Unavailable" -> <<"Duna">>
      [] OTHER -> <<>>

\* perform: what goes out to an ASP.  Nothing does on an association that is broken.
ToAsp(out, c) ==
    LET Mine(act) == act.do \in {"Send", "Activated"} /\ act.asp = c
        mine      == SelectSeq(out, Mine)
        Sent[i \in 0 .. Len(mine)] == IF i = 0 THEN <<>> ELSE Sent[i - 1] \o Briefing(mine[i])
    IN  Sent[Len(mine)]

\* The gateway's machine takes an input; live are those it reaches.
Gets(after, live) ==
    /\ machine' = [after EXCEPT !.out = <<>>]
    /\ down' = [c \in Asps |-> IF c \in live THEN down[c] \o ToAsp(after.out, c) ELSE down[c]]

Live == {c \in Asps : held[c] = "Live"}

Opens(c) == held[c] = "None" /\ line[c] = "Knocks" /\ line' = [line EXCEPT ![c] = "Up"]

\* admit and run_sg: the slot is free.
GatewayAdmits(c) ==
    /\ Opens(c)
    /\ held' = [held EXCEPT ![c] = "Live"]
    /\ Gets(Handle(machine, [kind |-> "Lost", asp |-> c]), Live)
    /\ UNCHANGED <<known, own, dial, asking, paused, up, left, missed>>

\* The stale association was not given up in time: the new one is closed.
GatewayRefuses(c) ==
    /\ held[c] = "Stale"
    /\ line[c] = "Knocks"
    /\ line' = [line EXCEPT ![c] = "Broken"]
    /\ up' = [up EXCEPT ![c] = <<>>]
    /\ UNCHANGED <<machine, known, own, dial, asking, paused, held, down, left, missed>>

Vacates(c) == held[c] = "Stale" /\ held' = [held EXCEPT ![c] = "None"]

\* Peer::run of the gateway ends: the network said so, or T(beat) did.
GatewayNotices(c) ==
    /\ Vacates(c)
    /\ Gets(Handle(machine, [kind |-> "Lost", asp |-> c]), Live)
    /\ UNCHANGED <<known, own, dial, asking, paused, line, up, left, missed>>

TakesUp(c) == held[c] = "Live" /\ up[c] # <<>> /\ up' = [up EXCEPT ![c] = Tail(@)]

\* asp_asked.
GatewayReceives(c) ==
    /\ TakesUp(c)
    /\ LET input == IF Head(up[c]) = "Up" THEN [kind |-> "Up", asp |-> c]
                    ELSE [kind |-> "Active", asp |-> c, mode |-> {Mode[1]}, contexts |-> {1}]
       IN  Gets(Handle(machine, input), Live)
    /\ UNCHANGED <<known, own, dial, asking, paused, line, held, left, missed>>

\* A gateway that cannot serve makes an ASP inactive, or takes it down, without
\* being asked.  This program's does not; the ASP side is written for it.
GatewayEvicts(c) ==
    /\ held[c] = "Live"
    /\ c \in machine.up
    /\ Spend("Evict")
    /\ \E input \in {[kind |-> "Inactive", asp |-> c, contexts |-> NoContexts],
                     [kind |-> "Down", asp |-> c]} : Gets(Handle(machine, input), Live)
    /\ UNCHANGED <<known, own, dial, asking, paused, line, held, up, missed>>

RecoveryExpires ==
    /\ machine.state[1] = "Pending"
    /\ Gets(Handle(machine, [kind |-> "Timeout", server |-> 1]), Live)
    /\ UNCHANGED <<known, own, dial, asking, paused, line, held, up, left, missed>>

\* changed, settle and tell: those that are active are told.
DestinationChanges ==
    /\ Spend("Change")
    /\ known' = IF known = "Available" THEN "Unavailable" ELSE "Available"
    /\ down' = [c \in Asps |->
                   IF c \in Live \cap ActiveIn(machine, 1)
                   THEN Append(down[c], IF known = "Available" THEN "Duna" ELSE "Dava")
                   ELSE down[c]]
    /\ UNCHANGED <<machine, own, dial, asking, paused, line, held, up, missed>>

----------------------------------------------------------------------------
(* An ASP.                                                                 *)

\* What ASP c is: its Asking, its machine and what it knows of the destination;
\* and ask, what it sends.
Side(c) == [asking |-> asking[c], own |-> own[c], paused |-> paused[c], ask |-> <<>>]

Submit(side, input) ==
    [side EXCEPT !.own = [Own!Handle(side.own, input) EXCEPT !.out = <<>>]]

AskUp(side) ==
    [side EXCEPT !.asking = [up |-> FALSE, active |-> FALSE, timer |-> TRUE],
                 !.ask = Append(@, "Up")]

AskActive(side) ==
    [side EXCEPT !.asking = [@ EXCEPT !.active = TRUE, !.timer = TRUE],
                 !.ask = Append(@, "Active")]

\* A mistake: an ASP that was displaced still takes itself to be active.
DisplacedUnheard(side) == [side EXCEPT !.asking.active = FALSE]

\* notified, AlternateAspActive.  T(ack) goes on running, with nothing to ask.
DisplacedSide(side) ==
    Submit([side EXCEPT !.asking.active = FALSE],
           [kind |-> "PeerInactive", asp |-> 1, contexts |-> {1}])

\* notified, of a server that lacks ASPs.
Lacking(side) ==
    IF side.asking.up /\ ~side.asking.active /\ Own!AspStateIn(side.own, 1, 1) # "Active"
    THEN AskActive(side) ELSE side

\* gateway_said, AspUpAck.
UpAcked(side) ==
    LET input == IF side.asking.up
                 THEN [kind |-> "PeerInactive", asp |-> 1, contexts |-> NoContexts]
                 ELSE [kind |-> "PeerUp", asp |-> 1]
    IN  AskActive(Submit([side EXCEPT !.asking = [@ EXCEPT !.up = TRUE, !.timer = FALSE]], input))

\* network_management of a DUNA, DAVA or DRST: an ASP that is not active drops it.
Paused(side, on) ==
    IF Own!AspStateIn(side.own, 1, 1) = "Active" THEN [side EXCEPT !.paused = on] ELSE side

\* gateway_said, notified and network_management: one message of the gateway.
Hears(side, message) ==
    CASE message = "UpAck"              -> UpAcked(side)
      [] message = "ActiveAck"          ->
            Submit([side EXCEPT !.asking = [@ EXCEPT !.active = FALSE, !.timer = FALSE]],
                   [kind |-> "PeerActive", asp |-> 1, contexts |-> {1}])
      [] message = "InactiveAck"        ->
            Submit([side EXCEPT !.asking = [@ EXCEPT !.active = TRUE, !.timer = TRUE]],
                   [kind |-> "PeerInactive", asp |-> 1, contexts |-> {1}])
      [] message = "DownAck"            ->
            Submit([side EXCEPT !.asking = [up |-> FALSE, active |-> FALSE, timer |-> TRUE]],
                   [kind |-> "Lost", asp |-> 1])
      [] message = "AlternateAspActive" -> DisplacedSide(side)
      [] message \in {"AsPending", "AsInactive", "InsufficientResources"} -> Lacking(side)
      [] message = "Duna"               -> Paused(side, TRUE)
      [] message = "Dava"               -> Paused(side, FALSE)
      [] OTHER                          -> side

\* ASP c is side now.
Becomes(c, side) ==
    /\ asking' = [asking EXCEPT ![c] = side.asking]
    /\ own' = [own EXCEPT ![c] = side.own]
    /\ paused' = [paused EXCEPT ![c] = side.paused]
    /\ up' = [up EXCEPT ![c] = @ \o side.ask]

Dials(c, input) == \E d \in HandleDial(dial[c], input) : dial' = [dial EXCEPT ![c] = d]

Start(c) ==
    /\ Dials(c, "Start")
    /\ UNCHANGED <<machine, known, own, asking, paused, line, held, up, down, left, missed>>

\* The association is established; run_asp asks for ASP Up at once.
Connects(c) ==
    /\ Dials(c, "Connected")
    /\ line' = [line EXCEPT ![c] = "Knocks"]
    /\ Becomes(c, AskUp(Side(c)))
    /\ missed' = [missed EXCEPT ![c] = {}]
    /\ UNCHANGED <<machine, known, held, down, left>>

ConnectFails(c) ==
    /\ Dials(c, "Failed")
    /\ Spend("Fail")
    /\ UNCHANGED <<machine, known, own, asking, paused, line, held, up, down, missed>>

Elapses(c) ==
    /\ Dials(c, "Elapsed")
    /\ UNCHANGED <<machine, known, own, asking, paused, line, held, up, down, left, missed>>

\* The gateway said what ASP c is now, or what c is going to ask for.
Decides(c, message) ==
    \/ message \in {"UpAck", "InactiveAck", "DownAck"}
    \/ message \in {"ActiveAck", "AlternateAspActive"} /\ asking[c].up
    \/ Hears(Side(c), message).ask # <<>>

\* T(ack) runs for something the ASP asks for again.
Awaits(c) == asking[c].timer /\ (~asking[c].up \/ asking[c].active)

\* What ASP c has missed once this message is lost.  T(ack) makes up for the loss
\* of an answer that is awaited, but an ASP that was taken down unheard asks for
\* ASP Active only, in vain; and a repeated acknowledgement brings no briefing.
Missing(c, message) ==
    {what \in {"State", "Pause"} :
        IF what = "Pause" THEN message \in {"ActiveAck", "Duna"}
        ELSE Decides(c, message) /\ (Awaits(c) => message = "DownAck")}

\* What it knows again once it has heard this one.
MadeUpFor(c, message) ==
    {what \in {"State", "Pause"} :
        IF what = "Pause" THEN message \in {"Duna", "Dava"} /\ Belief(c) = "Active"
        ELSE Decides(c, message)}

\* An acknowledgement of an earlier ASP Active stops T(ack) for ASP Up as well,
\* and does not make the ASP active: nothing asks for ASP Up any more.
Silences(c, message) == message = "ActiveAck" /\ ~asking[c].up

TakesDown(c) == line[c] = "Up" /\ down[c] # <<>> /\ down' = [down EXCEPT ![c] = Tail(@)]

AspReceives(c) ==
    /\ TakesDown(c)
    /\ Becomes(c, Hears(Side(c), Head(down[c])))
    /\ missed' = [missed EXCEPT ![c] =
          IF Silences(c, Head(down[c])) THEN @ \cup {"State"} ELSE @ \ MadeUpFor(c, Head(down[c]))]
    /\ UNCHANGED <<machine, known, dial, line, held, left>>

Quiet(c) == up[c] = <<>> /\ down[c] = <<>>

\* A mistake: T(ack) is not started again.
AckTimedOutOnce(side) ==
    IF ~side.asking.up THEN [side EXCEPT !.asking.timer = FALSE]
    ELSE IF side.asking.active THEN AskActive([side EXCEPT !.asking.timer = FALSE])
    ELSE [side EXCEPT !.asking.timer = FALSE]

\* ack_timeout.
AckTimedOut(side) ==
    IF ~side.asking.up THEN AskUp(side)
    ELSE IF side.asking.active THEN AskActive([side EXCEPT !.asking.timer = FALSE])
    ELSE [side EXCEPT !.asking.timer = FALSE]

\* T(ack) runs out when the answer is not coming, and sometimes when it is.
AckTimeout(c) ==
    /\ line[c] \in {"Knocks", "Up"}
    /\ asking[c].timer
    /\ IF Quiet(c) THEN UNCHANGED left ELSE Spend("Hurry")
    /\ UNCHANGED <<machine, known, dial, line, held, down, missed>>
    /\ Becomes(c, AckTimedOut(Side(c)))

Hangs(c) == line[c] = "Broken" /\ line' = [line EXCEPT ![c] = "None"]

\* Peer::run of the ASP ends, and dial_association waits.
AspNotices(c) ==
    /\ Hangs(c)
    /\ \E when \in {"LostEarly", "LostLate"} : Dials(c, when)
    /\ Becomes(c, Submit([Side(c) EXCEPT !.asking = NotAsking], [kind |-> "Lost", asp |-> 1]))
    /\ UNCHANGED <<machine, known, held, down, left, missed>>

----------------------------------------------------------------------------
(* The network.                                                            *)

\* The association breaks, with everything on it.
Breaks(c) ==
    /\ line[c] \in {"Knocks", "Up"}
    /\ Spend("Break")
    /\ line' = [line EXCEPT ![c] = "Broken"]
    /\ held' = [held EXCEPT ![c] = IF line[c] = "Up" THEN "Stale" ELSE @]
    /\ up' = [up EXCEPT ![c] = <<>>]
    /\ down' = [down EXCEPT ![c] = <<>>]
    /\ UNCHANGED <<machine, known, own, dial, asking, paused, missed>>

\* send_management gave up: the message is counted and never sent, and the
\* association stays.
LosesRequest(c) ==
    /\ up[c] # <<>>
    /\ Spend("Lose")
    /\ up' = [up EXCEPT ![c] = Tail(@)]
    /\ UNCHANGED <<machine, known, own, dial, asking, paused, line, held, down, missed>>

LosesAnswer(c) ==
    /\ down[c] # <<>>
    /\ Spend("Lose")
    /\ down' = [down EXCEPT ![c] = Tail(@)]
    /\ missed' = [missed EXCEPT ![c] = @ \cup Missing(c, Head(down[c]))]
    /\ UNCHANGED <<machine, known, own, dial, asking, paused, line, held, up>>

----------------------------------------------------------------------------
\* The task of an association at the ASP: at most one of these can be taken.
AspTask(c) == Start(c) \/ Connects(c) \/ Elapses(c) \/ AspReceives(c) \/ AspNotices(c)

\* And at the gateway.
GatewayTask(c) == GatewayAdmits(c) \/ GatewayNotices(c) \/ GatewayReceives(c)

Fault(c) ==
    \/ Breaks(c) \/ ConnectFails(c) \/ LosesRequest(c) \/ LosesAnswer(c)
    \/ GatewayEvicts(c) \/ GatewayRefuses(c)

Next ==
    \/ \E c \in Asps : AspTask(c) \/ AckTimeout(c) \/ GatewayTask(c) \/ Fault(c)
    \/ RecoveryExpires
    \/ DestinationChanges

\* Tasks run, timers run out, an association that is there delivers, and both
\* ends learn of its end (SCTP's own path supervision, or T(beat)).  Fairness
\* is asked of the part of a step that takes what the step waits for: apart
\* from faults no other step does, so it is no more than fairness of the step.
Fairness ==
    /\ WF_vars(RecoveryExpires)
    /\ \A c \in Asps :
        /\ \A input \in {"Start", "Connected", "Elapsed"} : WF_dial(Dials(c, input))
        /\ WF_down(TakesDown(c)) /\ WF_up(TakesUp(c))
        /\ WF_line(Opens(c)) /\ WF_held(Vacates(c)) /\ WF_line(Hangs(c))
        /\ WF_vars(AckTimeout(c))

Spec == Init /\ [][Next]_vars /\ Fairness

----------------------------------------------------------------------------
(* Properties.                                                             *)

\* T(ack) and the Notifys are all that keeps the two ends together.  Once an
\* ASP waits for nothing and nothing is under way, it takes itself to be what
\* the gateway takes it to be, whatever was sent twice, overtaken by another
\* ASP, or lost while T(ack) ran for it (gateway_said, notified, ack_timeout).
\* An ASP for which the last word about itself was given up, with no T(ack) for
\* it, may be wrong: nothing in the code repeats that word.
EndsAgree ==
    \A c \in Asps : line[c] = "Up" /\ Quiet(c) /\ ~asking[c].timer /\ "State" \notin missed[c] =>
        Belief(c) = AspStateIn(machine, c, 1)

\* brief: "it is how the ASP learns what the others were told before it came".
\* An active ASP that heard everything does not send to a destination the
\* gateway cannot reach.  It must have heard the acknowledgement, too: one it
\* asks for again is not followed by another briefing.
NoneIsBlind ==
    \A c \in Asps :
        /\ Belief(c) = "Active" /\ line[c] = "Up" /\ down[c] = <<>>
        /\ known = "Unavailable" /\ missed[c] = {}
        => paused[c]

\* Once the faults are over every ASP is up again, one of them carries the
\* traffic for good, and they know: redialling, T(ack), and the Notifys that
\* make an idle ASP ask (docs/routing.md on the ASP side) leave no server
\* without an ASP, and two ASPs do not take an Override server from each other
\* for ever.  An ASP that missed the last word about itself does not spoil it
\* for the others, but nothing is promised when all have.
Settles ==
    <>[](\E c \in Asps : "State" \notin missed[c]) =>
        <>[](/\ Cardinality(ActiveIn(machine, 1)) = 1
             /\ \A c \in Asps :
                    /\ line[c] = "Up"
                    /\ "State" \in missed[c] \/ Belief(c) = AspStateIn(machine, c, 1))

AS == INSTANCE ApplicationServer WITH
    Members     <- Member[1],
    N           <- Required[1],
    Override    <- (Mode[1] = "Override"),
    HasRecovery <- Recovers[1],
    asp         <- [a \in Member[1] |-> AspStateIn(machine, a, 1)],
    as          <- machine.state[1]

\* The server moves along Figure 4, and does not wait for ever.
FollowsFairFigure4 == AS!FairSpec
=============================================================================
