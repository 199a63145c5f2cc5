------------------------------ MODULE LinkPair ------------------------------
(***************************************************************************)
(* Two nodes that run src/transport/m2pa.rs, one at each end of an M2PA    *)
(* link.  Their association keeps the order of each of the two streams and *)
(* promises nothing between them; it may break, and each end learns of it  *)
(* in its own time.  Level 3 has a link that is up opened and one that is  *)
(* down hold, and hands over numbered MSUs.                                *)
(*                                                                         *)
(* Time is an order of magnitude, not a clock: frames travel within the    *)
(* repetition of proving, that within T4, that within T17, and all of them *)
(* within the timers that supervise the peer.  A racing episode lifts this *)
(* for T4 and, as something that goes wrong, for the timers of             *)
(* supervision: they may then expire while what they wait for is under     *)
(* way.                                                                    *)
(***************************************************************************)
EXTENDS M2paRunner

CONSTANTS
    End,          \* the two ends
    Episodes,     \* bound: what a behaviour is like, one of these
    MaxMsu,       \* bound: MSUs level 3 hands over at one end
    MaxOut,       \* bound: numbers an end uses in one alignment
    MaxFailures   \* bound: how often something goes wrong

\* tests: whether the links run their signalling link test; racing: whether a
\* timer may run out while its answer is under way; senders: the ends whose
\* level 3 hands anything over; total: the MSUs they hand over together.
ASSUME EpisodesAssumption ==
    \A e \in Episodes :
        /\ {e.tests, e.racing} \subseteq BOOLEAN
        /\ e.senders \subseteq End /\ e.total \in Nat

VARIABLES
    episode,      \* which of the episodes this behaviour is
    runner,       \* runner[e]: the task of the link at end e
    frames,       \* frames[e][s]: what e sent on stream s and has not arrived
    intact,       \* whether the association stands
    sent,         \* sent[e]: how many MSUs e's level 3 handed over
    got,          \* got[e]: what was delivered to e's level 3
    ups,          \* ups[e]: whether e's level 3 heard LinkUp never, once or more (2)
    bsnt,         \* bsnt[e]: the number of e's LinkDown, until it aligns again
    commands,     \* commands[e]: what e's level 3 told the link and it has not read
    proved,       \* proved[e]: e repeated its proving status in this alignment
    failures      \* how much has gone wrong

vars == <<episode, runner, frames, intact, sent, got, ups, bsnt, commands, proved, failures>>

Other(e) == CHOOSE x \in End : x # e

Streams == {StatusStream, DataStream}

NoBsnt == SeqMask + 1

\* MSUs are numbers, so that what arrives can be compared with what was sent.
ASSUME DataAssumption == Data = 1 .. MaxMsu

----------------------------------------------------------------------------

FramesOf(out, s) ==
    LET OnStream(a) == a.action = "Send" /\ a.stream = s
    IN  SelectSeq(out, OnStream)

\* What an event told level 3.
Heard(r, event) == \E i \in 1 .. Len(r.told) : r.told[i].event = event

\* The event of e that ends with r: its frames go to the association if that
\* stands; left is what the peer's frames to e are after it.
Runs(e, event, left) == \E r \in {event} :
    /\ runner' = [runner EXCEPT ![e] = Clean(r)]
    /\ frames' = IF ~intact THEN frames
                 ELSE [x \in End |-> [s \in Streams |->
                         IF x = e THEN frames[e][s] \o FramesOf(r.link.out, s) ELSE left[s]]]
    /\ got' = [got EXCEPT ![e] = @ \o r.delivered]
    /\ ups' = [ups EXCEPT ![e] = IF Heard(r, "LinkUp") /\ @ < 2 THEN @ + 1 ELSE @]
    /\ bsnt' = [bsnt EXCEPT ![e] =
                   CASE Heard(r, "LinkDown") ->
                           LET i == CHOOSE i \in 1 .. Len(r.told) : r.told[i].event = "LinkDown"
                           IN  r.told[i].bsnt
                     [] r.link.state = "NotAligned" -> NoBsnt
                     [] OTHER -> @]
    /\ proved' = [proved EXCEPT ![e] =
                     /\ {runner[e].link.state, r.link.state} = {"Proving"}
                     /\ @ \/ FramesOf(r.link.out, StatusStream) # <<>>]

\* Level 3 answers a LinkUp with the command to open and a LinkDown with the
\* command to hold.
Does(e, event, left) ==
    /\ Runs(e, event, left)
    /\ commands' = [commands EXCEPT ![e] =
                       CASE runner'[e].available = runner[e].available -> @
                         [] runner'[e].available /\ ~runner[e].available -> Append(@, "Open")
                         [] ~runner'[e].available /\ runner[e].available -> Append(@, "Hold")]

Nothing(e) == frames[Other(e)]

Init ==
    /\ episode \in Episodes
    /\ runner = [e \in End |-> NewRunner(episode.tests)]
    /\ frames = [e \in End |-> [s \in Streams |-> <<>>]]
    /\ intact = TRUE
    /\ sent = [e \in End |-> 0]
    /\ got = [e \in End |-> <<>>]
    /\ ups = [e \in End |-> 0]
    /\ bsnt = [e \in End |-> NoBsnt]
    /\ commands = [e \in End |-> <<>>]
    /\ proved = [e \in End |-> FALSE]
    /\ failures = 0

----------------------------------------------------------------------------
(* The association.                                                        *)

CanEstablish(e) == intact /\ ~runner[e].attached

Establish(e) ==
    /\ CanEstablish(e)
    /\ Does(e, Attach(runner[e]), Nothing(e))
    /\ UNCHANGED <<intact, sent, failures>>

CanArrive(e, s) == intact /\ runner[e].attached /\ frames[Other(e)][s] # <<>>

Arrives(e, s) ==
    /\ CanArrive(e, s)
    /\ LET f == Head(frames[Other(e)][s])
       IN  Does(e, IF f.kind = "LinkStatus" THEN ReceiveStatusMsg(runner[e], f.status, f.bsn)
                   ELSE ReceiveDataMsg(runner[e], f.bsn, f.fsn, f.msu),
                [Nothing(e) EXCEPT ![s] = Tail(@)])
    /\ UNCHANGED <<intact, sent, failures>>

\* What was under way is lost with the association.
Break ==
    /\ intact
    /\ failures < MaxFailures
    /\ failures' = failures + 1
    /\ intact' = FALSE
    /\ frames' = [e \in End |-> [s \in Streams |-> <<>>]]
    /\ UNCHANGED <<runner, sent, got, ups, bsnt, commands, proved>>

CanNotice(e) == ~intact /\ runner[e].attached

Notice(e) ==
    /\ CanNotice(e)
    /\ Does(e, EndTask(runner[e], "Association"), Nothing(e))
    /\ UNCHANGED <<intact, sent, failures>>

CanReconnect == ~intact /\ \A e \in End : ~runner[e].attached

Reconnect ==
    /\ CanReconnect
    /\ intact' = TRUE
    /\ UNCHANGED <<runner, frames, sent, got, ups, bsnt, commands, proved, failures>>

----------------------------------------------------------------------------
(* Timers.                                                                 *)

InTransit == \E e \in End, s \in Streams : frames[e][s] # <<>>

Expires(e, due, dueTest, dueRestart) ==
    Does(e, Fire(runner[e], due, dueTest, dueRestart), Nothing(e))

\* The proving status is repeated.  Once in a proving period is enough here:
\* the peer ignores it after that.
CanRepeat(e) == "Proving" \in runner[e].link.timers /\ ~proved[e]

ProvingRepeats(e) ==
    /\ CanRepeat(e)
    /\ Expires(e, {"Proving"}, {}, FALSE)
    /\ UNCHANGED <<intact, sent, failures>>

\* T4 is longer than the way of a command between two tasks of one process.
T4Due(e) ==
    /\ "T4" \in runner[e].link.timers
    /\ commands[e] = <<>>
    /\ episode.racing \/ (proved[e] /\ frames[e][StatusStream] = <<>>)

T4Expires(e) ==
    /\ T4Due(e)
    /\ Expires(e, {"T4"}, {}, FALSE)
    /\ UNCHANGED <<intact, sent, failures>>

\* T17.  Frames of the last alignment would be taken for frames of the next
\* one, so they are assumed to be gone by then even when timers race.
RestartDue(e) == runner[e].restart /\ ~InTransit

RestartExpires(e) ==
    /\ RestartDue(e)
    /\ Expires(e, {}, {}, TRUE)
    /\ UNCHANGED <<intact, sent, failures>>

RetestExpires(e) ==
    /\ "T2" \in runner[e].test.timers
    /\ ~InTransit
    /\ Expires(e, {}, {"T2"}, FALSE)
    /\ UNCHANGED <<intact, sent, failures>>

\* Nothing is under way and no shorter timer runs: whoever waits, waits in vain.
Stuck ==
    /\ intact
    /\ ~InTransit
    /\ \A e \in End : runner[e].attached /\ ~runner[e].restart /\ "T4" \notin runner[e].link.timers

Supervising(e) == runner[e].link.timers \cap {"T1", "T2", "T3", "T6", "T7"}

TestSupervising(e) == runner[e].test.timers \cap {"T1"}

SupervisionExpires(e) ==
    \E due \in SUBSET Supervising(e), dueTest \in SUBSET TestSupervising(e) :
        /\ due # {} \/ dueTest # {}
        /\ Stuck \/ (episode.racing /\ failures < MaxFailures)
        /\ failures' = IF Stuck THEN failures ELSE failures + 1
        /\ Expires(e, due, dueTest, FALSE)
        /\ UNCHANGED <<intact, sent>>

----------------------------------------------------------------------------
(* Level 3.                                                                *)

ReadsCommand(e) ==
    /\ commands[e] # <<>>
    /\ commands' = [commands EXCEPT ![e] = Tail(@)]
    /\ Runs(e, IF Head(commands[e]) = "Open" THEN CommandOpen(runner[e]) ELSE CommandHold(runner[e]),
            Nothing(e))
    /\ UNCHANGED <<intact, sent, failures>>

HandOver(e) ==
    /\ e \in episode.senders
    /\ runner[e].traffic.state # "Closed"
    /\ sent[e] < MaxMsu
    /\ sent[e] + sent[Other(e)] < episode.total
    /\ SeqDistance(SeqMask, runner[e].link.fsnOut) < MaxOut
    /\ sent' = [sent EXCEPT ![e] = @ + 1]
    /\ Does(e, Carry(runner[e], sent[e] + 1), Nothing(e))
    /\ UNCHANGED <<intact, failures>>

\* The far end ordered a changeover from a link that is up here.
Level3Fails(e) ==
    /\ runner[e].available
    /\ failures < MaxFailures
    /\ failures' = failures + 1
    /\ Does(e, CommandFail(runner[e]), Nothing(e))
    /\ UNCHANGED <<intact, sent>>

Next ==
    \/ \E e \in End : \/ Establish(e)
                      \/ \E s \in Streams : Arrives(e, s)
                      \/ Notice(e)
                      \/ ProvingRepeats(e)
                      \/ T4Expires(e)
                      \/ RestartExpires(e)
                      \/ RetestExpires(e)
                      \/ SupervisionExpires(e)
                      \/ ReadsCommand(e)
                      \/ HandOver(e)
                      \/ Level3Fails(e)
    \/ Break
    \/ Reconnect

Spec == Init /\ [][Next /\ UNCHANGED episode]_vars

\* The association delivers, tokio wakes a task that has a command or whose
\* deadline has passed, and the dialling side connects again: weak fairness of
\* these actions.  Nothing makes level 3 hand anything over, and nothing has to
\* go wrong.  Each action falsifies its own guard, so that its weak fairness is
\* that the guard does not stay true; a frame or a command was taken when its
\* queue is shorter.
TaskFairness(e) ==
    /\ []<>~CanEstablish(e)
    /\ []<>~CanNotice(e)
    /\ []<>(commands[e] = <<>>) \/ []<><<Len(commands'[e]) < Len(commands[e])>>_vars
    /\ []<>~CanRepeat(e)
    /\ []<>~T4Due(e)
    /\ []<>~RestartDue(e)
    /\ []<>~(Stuck /\ (Supervising(e) # {} \/ TestSupervising(e) # {}))

ArrivalFairness(e, s) ==
    \/ []<>~CanArrive(e, s)
    \/ []<><<Len(frames'[Other(e)][s]) < Len(frames[Other(e)][s])>>_vars

Fairness ==
    /\ []<>~CanReconnect
    /\ \A e \in End : TaskFairness(e) /\ \A s \in Streams : ArrivalFairness(e, s)

FairSpec == Spec /\ Fairness

----------------------------------------------------------------------------
(* Properties.                                                             *)

Received(e) == {got[e][i] : i \in 1 .. Len(got[e])}

\* on_data and acknowledge: what level 3 hands over at one end comes out at the
\* other in the same order, and never twice, through buffering, failure and a
\* new alignment.
DeliveredInOrder ==
    \A e \in End : \A i, j \in 1 .. Len(got[e]) : i < j => got[e][i] < got[e][j]

\* Retrievable::retrieve with the number of the far end's LinkDown gives exactly
\* the MSUs the far end did not deliver: a changeover neither loses one nor
\* sends one twice, wherever the failure struck.
RetrievalIsExact ==
    \A e \in End :
        LET o == Other(e)
            r == runner[e].traffic.kept
            m == Retrieve(r, TRUE, bsnt[o]).resend
            sentBefore == {x \in Data : \E i \in 1 .. Len(r.unacked) : r.unacked[i].msu = x}
        IN  r.some /\ ups[e] = 1 /\ ups[o] = 1 /\ NoBsnt \notin {bsnt[e], bsnt[o]} =>
             \A x \in sentBefore : x \in Received(o) <=> \A i \in 1 .. Len(m) : m[i] # x

\* Once nothing goes wrong any more, both ends come into service, pass the
\* signalling link test and stay available: no interleaving of the two state
\* machines keeps them realigning for ever or waiting for each other.  With T4
\* shorter than the way of the frames they do not, and need not.
ComesUp == episode.racing \/ <>[](\A e \in End : runner[e].available)

\* An MSU that was handed over is delivered unless something goes wrong or T4
\* is shorter than the way of the frames.
Delivers ==
    \A e \in End : \A m \in 1 .. MaxMsu :
        sent[e] = m ~> m \in Received(Other(e)) \/ failures > 0 \/ episode.racing
=============================================================================
