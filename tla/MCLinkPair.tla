----------------------------- MODULE MCLinkPair -----------------------------
(***************************************************************************)
(* Small episodes for LinkPair.                                            *)
(***************************************************************************)
EXTENDS LinkPair

CONSTANTS A, B

Episode(tests, racing, senders, total) ==
    [tests |-> tests, racing |-> racing, senders |-> senders, total |-> total]

(* Without link tests: traffic both ways on time, and traffic one way with *)
(* timers that race their answers.  And link tests alone, on time.         *)
MCEpisodes ==
    {Episode(FALSE, FALSE, {A, B}, 2), Episode(FALSE, TRUE, {A}, 2), Episode(TRUE, FALSE, {}, 0)}
=============================================================================
