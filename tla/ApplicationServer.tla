------------------------- MODULE ApplicationServer -------------------------
(***************************************************************************)
(* What ASP state maintenance promises of one Application Server: Figure 4 *)
(* of RFC 4666, as the comments of Aspm::evaluate and recovery_expired     *)
(* quote it.  Nothing here knows of associations, tasks or messages.       *)
(***************************************************************************)
EXTENDS Naturals, FiniteSets

CONSTANTS
    Members,     \* the ASPs of the server
    N,           \* how many have to be active before it is
    Override,    \* at most one ASP is active at a time
    HasRecovery  \* it waits for T(r) when its last active ASP leaves

VARIABLES
    asp,         \* asp[a]: "Down", "Inactive" or "Active"
    as           \* the state of the server

vars == <<asp, as>>

Init == asp = [a \in Members |-> "Down"] /\ as = "Down"

ActiveOnes == {a \in Members : asp'[a] = "Active"}

Idle == IF \A a \in Members : asp'[a] = "Down" THEN "Down" ELSE "Inactive"

\* The arrows of the figure that an ASP can cause.
Follows ==
    as' = CASE as \in {"Down", "Inactive"} /\ Cardinality(ActiveOnes) >= N -> "Active"
            [] as \in {"Down", "Inactive"} /\ Cardinality(ActiveOnes) < N  -> Idle
            [] as \in {"Active", "Pending"} /\ ActiveOnes # {}             -> "Active"
            [] as = "Pending" /\ ActiveOnes = {}                           -> "Pending"
            [] as = "Active" /\ ActiveOnes = {}                            ->
                    IF HasRecovery THEN "Pending" ELSE Idle

\* One ASP moves; in an Override server it displaces the one before it.
AspMoves(a) ==
    \E state \in {"Down", "Inactive", "Active"} \ {asp[a]} :
        /\ state = "Active" => asp[a] = "Inactive"
        /\ asp' = [b \in Members |->
                      IF b = a THEN state
                      ELSE IF Override /\ state = "Active" /\ asp[b] = "Active" THEN "Inactive"
                      ELSE asp[b]]
        /\ Follows

RecoveryEnds ==
    /\ as = "Pending"
    /\ asp' = asp
    /\ as' = Idle

Next == RecoveryEnds \/ \E a \in Members : AspMoves(a)

Spec == Init /\ [][Next]_vars

\* No server waits for ever.
FairSpec == Spec /\ WF_vars(RecoveryEnds)
=============================================================================
