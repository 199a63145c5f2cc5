---------------------------- MODULE MCDialogueLanes ----------------------------
(* DialogueLanes with two lanes, one of which holds one piece of work. *)
EXTENDS DialogueLanes

MCPeers == {"p"}

MCLaneOfPeer == [p \in MCPeers |-> 0]

MCLaneOfTid == [t \in 1..4 |-> t % 2]

Do(what) == [do |-> what, class |-> 2]

(* Nothing; an operation; an answer, after components that cannot be sent and *)
(* some that are withdrawn, in a dialogue that has no idle timer from then    *)
(* on; an end, which without a peer is an abort.                              *)
MCScripts ==
    {<<>>,
     <<Do("Invoke"), Do("Send")>>,
     <<Do("Garble"), Do("Send"), Do("Invoke"), Do("Discard"), Do("Wait"), Do("Answer"), Do("Send")>>,
     <<Do("End"), Do("Abort")>>}

Invokes == <<[kind |-> "Invoke", id |-> 0]>>

Good == Inbound("Begin", NoPeer, 0, Invokes, "None")

MCOpenings ==
    {Good,
     [Good EXCEPT !.portion = "Aarq"],
     [Good EXCEPT !.portion = "Version"],
     [Good EXCEPT !.served = FALSE],
     [Good EXCEPT !.components = NoComponents],
     [Good EXCEPT !.components = <<[kind |-> "Linked", id |-> 1]>>],
     [Good EXCEPT !.fault = "Transaction"],
     [Good EXCEPT !.type = "Unidirectional"],
     [Good EXCEPT !.form = "Segment"],
     [Good EXCEPT !.form = "Exhausted"],
     [Good EXCEPT !.form = "Returnable"]}

===============================================================================
