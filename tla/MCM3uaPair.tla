----------------------------- MODULE MCM3uaPair -----------------------------
(***************************************************************************)
(* The file of a gateway and that of the ASPs, for TLC: two ASPs of an     *)
(* Override server, which dial again after one wait, always the same.      *)
(***************************************************************************)
EXTENDS M3uaPair, TLC

File == INSTANCE Compilation

Node(associations) ==
    [node |-> [point_code |-> 1, variant |-> "Itu"], associations |-> associations,
     application_servers |->
        <<File!ApplicationServer([name |-> "as", traffic_mode |-> "Override",
                                  routing_context |-> 1,
                                  asps |-> [i \in DOMAIN associations |-> associations[i].id]])>>]

Asp(id, role, given) ==
    File!Association(given @@ [id |-> id, adaptation |-> "M3ua", role |-> role,
                               addrs |-> {"gateway"}, port |-> 2905])

GatewayRaw ==
    Node(<<Asp("asp1", "Server", [peer_addrs |-> {"h1"}]),
           Asp("asp2", "Server", [peer_addrs |-> {"h2"}])>>)

AspRaw ==
    Node(<<Asp("gateway", "Client",
               [dial |-> {File!Dial([backoff_max_ms |-> 1000, backoff_jitter_percent |-> 0])}])>>)

MCAsps == 1..2
MCServers == {1}
MCMember == <<{1, 2}>>
MCMode == <<"Override">>
MCRequired == <<1>>
MCRecovers == <<TRUE>>
MCGateway == {1, 2}
MCLongestWait == 1
MCJitter == 0

(* These are what the files are compiled to. *)
ASSUME FilesAssumption ==
    LET gateway == File!FromRaw(GatewayRaw)
        dialing == File!The(File!FromRaw(AspRaw).associations[1].dial)
    IN  /\ File!Accepted(GatewayRaw) /\ File!Accepted(AspRaw)
        /\ File!Layout(gateway, gateway.tenants.default) =
               [asps |-> MCAsps, servers |-> MCServers, members |-> MCMember, mode |-> MCMode,
                required |-> MCRequired, recovers |-> MCRecovers, gateway |-> MCGateway]
        /\ MCLongestWait = dialing.backoff_max_ms \div dialing.backoff_initial_ms
        /\ MCJitter = dialing.backoff_jitter_percent

=============================================================================
