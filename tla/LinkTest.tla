------------------------------ MODULE LinkTest ------------------------------
(***************************************************************************)
(* The signalling link test of Q.707 2.2: src/transport/m2pa/slt.rs.       *)
(* As in M2paLink, a test is a record, every method an operator on it, and *)
(* the vector of TestActions the field out.  timers holds the two deadlines *)
(* of Deadlines::test.                                                     *)
(***************************************************************************)
EXTENDS Integers, Sequences

TestTimer == {"T1", "T2"}

TestState == {"Idle", "First", "Second", "Passed"}

NewTest == [state |-> "Idle", available |-> FALSE, timers |-> {}, out |-> <<>>]

IsWaiting(t) == t.state \in {"First", "Second"}

TestPush(t, a) == [t EXCEPT !.out = Append(@, a)]

Begin(t) ==
    TestPush([t EXCEPT !.available = FALSE, !.state = "First", !.timers = {"T1"}], "SendTest")

StopTest(t) ==
    [t EXCEPT !.state = "Idle", !.available = FALSE,
              !.timers = IF t.state # "Idle" THEN {} ELSE @]

AttemptFailed(t) ==
    LET counted == TestPush(t, "AttemptFailed")
    IN  IF t.state = "First"
        THEN TestPush([counted EXCEPT !.state = "Second", !.timers = @ \cup {"T1"}], "SendTest")
        ELSE TestPush([counted EXCEPT !.state = "Idle", !.available = FALSE,
                                      !.timers = @ \ {"T1"}], "Failed")

Acknowledged(t, correct) ==
    CASE ~IsWaiting(t) -> t
      [] IsWaiting(t) /\ ~correct -> AttemptFailed(t)
      [] IsWaiting(t) /\ correct ->
            LET passed == [t EXCEPT !.state = "Passed", !.available = TRUE,
                                    !.timers = (@ \ {"T1"}) \cup {"T2"}]
            IN  IF t.available THEN passed ELSE TestPush(passed, "Available")

\* The runner clears a deadline before it reports it (Runner::fire).
TestExpired(t, timer) == [t EXCEPT !.timers = @ \ {timer}]

TestTimeout(t, timer) ==
    CASE timer = "T1" /\ IsWaiting(t) -> AttemptFailed(t)
      [] timer = "T2" /\ t.state = "Passed" ->
            TestPush([t EXCEPT !.state = "First", !.timers = @ \cup {"T1"}], "SendTest")
      [] OTHER -> t
=============================================================================
