-------------------------------- MODULE Dial --------------------------------
(***************************************************************************)
(* The state machine of one dialled association:                           *)
(* src/transport/dial.rs, with the loop that drives it (dial_association   *)
(* in src/transport/mod.rs).                                               *)
(*                                                                         *)
(* Times are in units of the first wait.  What only the log needs (how     *)
(* many attempts failed, when the last line was written) is left out.      *)
(***************************************************************************)
EXTENDS Integers

CONSTANTS
    LongestWait, \* Settings::max
    Jitter       \* Settings::jitter_percent

ASSUME DialAssumption == LongestWait \in Nat \ {0} /\ Jitter \in 0 .. 100

Least(a, b) == IF a < b THEN a ELSE b

\* waits is the exponent of the next wait.  It saturates in the code where the
\* wait is long at its longest, here at the first exponent that reaches it.
Enough == CHOOSE n \in 0 .. LongestWait :
               2 ^ n >= LongestWait /\ \A k \in 0 .. n - 1 : 2 ^ k < LongestWait

DialState == [state : {"Idle", "Connecting", "Up", "Waiting"},
              waits : 0 .. Enough, waiting : 0 .. LongestWait]

NewDial == [state |-> "Idle", waits |-> 0, waiting |-> 0]

\* next_wait: the first wait doubled once per wait before it, less some jitter.
NextWaits(waits) ==
    LET whole == Least(2 ^ waits, LongestWait)
        off   == (whole * Jitter) \div 100
    IN  {IF w < 1 THEN 1 ELSE w : w \in (whole - off) .. whole}

\* Wait for a while, then dial again.
AfterFailure(dial) ==
    {[state |-> "Waiting", waits |-> Least(dial.waits + 1, Enough), waiting |-> w] :
        w \in NextWaits(dial.waits)}

\* Dial::handle: the machines an input may leave, none where it makes no sense.
\* An association that held for the longest wait starts the waits over.
HandleDial(dial, input) ==
    CASE input = "Start" /\ dial.state = "Idle"          -> {[dial EXCEPT !.state = "Connecting"]}
      [] input = "Elapsed" /\ dial.state = "Waiting"     ->
            {[dial EXCEPT !.state = "Connecting", !.waiting = 0]}
      [] input = "Connected" /\ dial.state = "Connecting" -> {[dial EXCEPT !.state = "Up"]}
      [] input = "Failed" /\ dial.state = "Connecting"    -> AfterFailure(dial)
      [] input = "LostEarly" /\ dial.state = "Up"         -> AfterFailure(dial)
      [] input = "LostLate" /\ dial.state = "Up"          -> AfterFailure([dial EXCEPT !.waits = 0])
      [] OTHER                                            -> {}
=============================================================================
