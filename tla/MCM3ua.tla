------------------------------- MODULE MCM3ua -------------------------------
(***************************************************************************)
(* A gateway for TLC: two ASPs of one server, which share an endpoint and  *)
(* are told apart by their addresses, and by the port of the second.       *)
(***************************************************************************)
EXTENDS M3uaGateway, TLC

File == INSTANCE Compilation

Asp(id, given) ==
    File!Association(given @@ [id |-> id, adaptation |-> "M3ua", role |-> "Server",
                               addrs |-> {"local"}, port |-> 2905])

Raw ==
    [node |-> [point_code |-> 1, variant |-> "Itu"],
     associations |-> <<Asp("asp1", [peer_addrs |-> {"h1"}]),
                        Asp("asp2", [peer_addrs |-> {"h2", "h3"}, peer_port |-> {9}])>>,
     application_servers |->
        <<File!ApplicationServer([name |-> "as", traffic_mode |-> "Loadshare",
                                  routing_context |-> 1, asps |-> <<"asp1", "asp2">>,
                                  required_asps |-> 2, pending_queue |-> 1])>>,
     mtp3_routes |-> <<File!Mtp3Route([dpc |-> 2, as |-> {"as"}, priority |-> 1])>>]

MCAsps == 1..2
MCServers == {1}
MCMember == <<{1, 2}>>
MCMode == <<"Loadshare">>
MCRequired == <<2>>
MCRecovers == <<TRUE>>
MCGateway == {1, 2}
MCRules == <<[addrs |-> {"h1"}, port |-> {}], [addrs |-> {"h2", "h3"}, port |-> {9}]>>
MCPendingLimit == 1

(* These are what the file is compiled to. *)
ASSUME FileAssumption ==
    LET tenant == File!FromRaw(Raw).tenants.default
    IN  /\ File!Accepted(Raw)
        /\ File!Layout(File!FromRaw(Raw), tenant) =
               [asps |-> MCAsps, servers |-> MCServers, members |-> MCMember, mode |-> MCMode,
                required |-> MCRequired, recovers |-> MCRecovers, gateway |-> MCGateway]
        /\ File!Doors(File!FromRaw(Raw), 1) = MCRules
        /\ File!QueueLimit(tenant.application_servers[1]) = MCPendingLimit

MCActives == {<<{}, NoContexts>>, <<{"Override"}, {1, StrayContext}>>}
MCInactives == {{1}}
MCServerOf == [m \in Msu |-> 1]
MCSls == [m \in Msu |-> 0]
MCPresented == [x \in Assoc |->
    CASE x = "p" -> {<<"h1", 5>>}
      [] x = "q" -> {<<"h1", 6>>}
      [] x = "r" -> {<<"h2", 9>>, <<"h3", 9>>}
      [] OTHER   -> {<<"h2", 7>>}]
=============================================================================
