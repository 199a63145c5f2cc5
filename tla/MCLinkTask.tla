----------------------------- MODULE MCLinkTask -----------------------------
(* The link of a linkset of one, and its settings, for LinkTask.           *)
EXTENDS LinkTask

File == INSTANCE Compilation

Raw ==
    [node |-> [point_code |-> 1, variant |-> "Itu"],
     associations |->
        <<File!Association(
            [id |-> "link", adaptation |-> "M2pa", role |-> "Client", addrs |-> {"h2"},
             port |-> 3565, adjacent_pc |-> {2}, m2pa |-> {File!M2paBlock([tx_queue |-> 1])}])>>,
     linksets |->
        <<File!Linkset([name |-> "ls", links |-> <<File!Link([assoc |-> "link"])>>])>>]

MCHasTest == TRUE
MCTxQueue == 1
MCProving == "Normal"

(* These are what the file is compiled to. *)
ASSUME FileAssumption ==
    /\ File!Accepted(Raw)
    /\ File!LinkSettings(File!FromRaw(Raw), File!FromRaw(Raw).tenants.default, "link") =
           [tested |-> MCHasTest, tx_queue |-> MCTxQueue, proving |-> MCProving]

=============================================================================
