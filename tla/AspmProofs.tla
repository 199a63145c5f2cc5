----------------------------- MODULE AspmProofs -----------------------------
(***************************************************************************)
(* Lemmas about the machine of Aspm: what every operation of it does to    *)
(* the state of each server, and what it has its caller do.                *)
(***************************************************************************)
EXTENDS Aspm, Recursion

LastServer == Cardinality(Servers)

\* What LayoutAssumption says of ASPs and servers.
LEMMA LayoutFacts ==
    /\ LastServer \in Nat /\ Servers = 1 .. LastServer
    /\ Asps \subseteq Nat /\ Servers \subseteq Nat
    /\ IsFiniteSet(Asps) /\ 0 \notin Asps
    /\ \A s \in Servers : Member[s] \subseteq Asps /\ Required[s] \in Nat \ {0}
<1>1. Cardinality(Asps) \in Nat /\ Cardinality(Servers) \in Nat
    BY LayoutAssumption, FS_CardinalityType
<1> QED BY <1>1, LayoutAssumption DEF LastServer

----------------------------------------------------------------------------
(* The loops over servers.  In each lemma W[k] is where the machine is     *)
(* known to be after the first k servers: what takes it from W[k - 1] to   *)
(* W[k] for every server takes it from W[0] to the last.                   *)

\* What the loop of TakeDown does for a server, and what it starts from.
TakeDownIn(n, asp, failed, s) ==
    LET down == AspIs(n, asp, s, "Down")
        told == IF failed THEN Notify(down, s, "AspFailure", Asps) ELSE down
    IN  Resources(Evaluate(told, s), s)

Left(m, asp) == [m EXCEPT !.up = @ \ {asp}, !.active = @ \ ({asp} \X Servers)]

\* The loop of TakeDown ends in the last W.
LEMMA TakeDownLoop ==
    ASSUME NEW m, NEW asp, asp \in m.up, NEW failed, NEW W, Left(m, asp) \in W[0],
           \A k \in Servers : \A n \in W[k - 1] :
               (IF k \in ServersOf(asp) THEN TakeDownIn(n, asp, failed, k) ELSE n) \in W[k]
    PROVE  TakeDown(m, asp, failed) \in W[LastServer]
<1> DEFINE v == Left(m, asp)
           Y == UNION {W[k] : k \in 0 .. LastServer}
           step == [k \in Servers |-> [n \in Y |->
                       IF k \in ServersOf(asp) THEN TakeDownIn(n, asp, failed, k) ELSE n]]
           F == CHOOSE F : F = [k \in 0 .. LastServer |->
                    IF k = 0 THEN v
                    ELSE IF k \in ServersOf(asp) THEN TakeDownIn(F[k - 1], asp, failed, k) ELSE F[k - 1]]
<1>0. LastServer \in Nat /\ Servers = 1 .. LastServer
    BY LayoutFacts
<1>1. TakeDown(m, asp, failed) = F[LastServer]
    BY DEF TakeDown, Left, ForServers, TakeDownIn, LastServer
<1>2. \A k \in 1 .. LastServer : \A n \in W[k - 1] :
          step[k][n] = IF k \in ServersOf(asp) THEN TakeDownIn(n, asp, failed, k) ELSE n
    BY <1>0
<1> HIDE DEF step, F
<1> DEFINE f == Loop(LastServer, W, v, step)
<1>3. IsLoop(f, LastServer, W, v, step)
    <2>1. \A k \in 1 .. LastServer : \A n \in W[k - 1] : step[k][n] \in W[k]
        BY <1>0, <1>2
    <2>2. v \in W[0]
        OBVIOUS
    <2> HIDE DEF v
    <2> QED BY <1>0, <2>1, <2>2, LoopExists
<1> HIDE DEF f
<1>4. /\ f = [k \in 0 .. LastServer |-> IF k = 0 THEN v ELSE step[k][f[k - 1]]]
      /\ \A k \in 0 .. LastServer : f[k] \in W[k]
    BY <1>3 DEF IsLoop
<1>5. f = [k \in 0 .. LastServer |->
              IF k = 0 THEN v
              ELSE IF k \in ServersOf(asp) THEN TakeDownIn(f[k - 1], asp, failed, k) ELSE f[k - 1]]
    <2>1. \A k \in 1 .. LastServer :
              step[k][f[k - 1]] = IF k \in ServersOf(asp) THEN TakeDownIn(f[k - 1], asp, failed, k) ELSE f[k - 1]
        BY <1>0, <1>2, <1>4
    <2> HIDE DEF v
    <2> QED BY <1>0, <1>4, <2>1
<1>6. F = [k \in 0 .. LastServer |->
              IF k = 0 THEN v
              ELSE IF k \in ServersOf(asp) THEN TakeDownIn(F[k - 1], asp, failed, k) ELSE F[k - 1]]
    BY <1>5, Zenon DEF F
<1>7. F[0] \in W[0]
    <2>1. F[0] = v
        BY <1>0, <1>6
    <2> QED BY <2>1
<1>8. ASSUME NEW k \in 1 .. LastServer, F[k - 1] \in W[k - 1] PROVE F[k] \in W[k]
    <2>1. F[k] = IF k \in ServersOf(asp) THEN TakeDownIn(F[k - 1], asp, failed, k) ELSE F[k - 1]
        <3> HIDE DEF v
        <3> QED BY <1>0, <1>6
    <2> QED BY <1>0, <1>8, <2>1
<1>9. F[LastServer] \in W[LastServer]
    BY <1>0, <1>7, <1>8, LoopStays
<1> QED BY <1>1, <1>9

\* And that of BringUp.
BringUpIn(n, asp, s) ==
    LET now == AspIs(n, asp, s, "Inactive")
    IN  IF NextState(now, s) # now.state[s] THEN Evaluate(now, s)
        ELSE NotifyState(now, s, {asp})

Come(m, asp) == [m EXCEPT !.up = @ \cup {asp}]

\* The loop of BringUp ends in the last W.
LEMMA BringUpLoop ==
    ASSUME NEW m, NEW asp, NEW W, Come(m, asp) \in W[0],
           \A k \in Servers : \A n \in W[k - 1] :
               (IF k \in ServersOf(asp) THEN BringUpIn(n, asp, k) ELSE n) \in W[k]
    PROVE  BringUp(m, asp) \in W[LastServer]
<1> DEFINE v == Come(m, asp)
           Y == UNION {W[k] : k \in 0 .. LastServer}
           step == [k \in Servers |-> [n \in Y |->
                       IF k \in ServersOf(asp) THEN BringUpIn(n, asp, k) ELSE n]]
           F == CHOOSE F : F = [k \in 0 .. LastServer |->
                    IF k = 0 THEN v
                    ELSE IF k \in ServersOf(asp) THEN BringUpIn(F[k - 1], asp, k) ELSE F[k - 1]]
<1>0. LastServer \in Nat /\ Servers = 1 .. LastServer
    BY LayoutFacts
<1>1. BringUp(m, asp) = F[LastServer]
    BY DEF BringUp, Come, ForServers, BringUpIn, LastServer
<1>2. \A k \in 1 .. LastServer : \A n \in W[k - 1] :
          step[k][n] = IF k \in ServersOf(asp) THEN BringUpIn(n, asp, k) ELSE n
    BY <1>0
<1> HIDE DEF step, F
<1> DEFINE f == Loop(LastServer, W, v, step)
<1>3. IsLoop(f, LastServer, W, v, step)
    <2>1. \A k \in 1 .. LastServer : \A n \in W[k - 1] : step[k][n] \in W[k]
        BY <1>0, <1>2
    <2>2. v \in W[0]
        OBVIOUS
    <2> HIDE DEF v
    <2> QED BY <1>0, <2>1, <2>2, LoopExists
<1> HIDE DEF f
<1>4. /\ f = [k \in 0 .. LastServer |-> IF k = 0 THEN v ELSE step[k][f[k - 1]]]
      /\ \A k \in 0 .. LastServer : f[k] \in W[k]
    BY <1>3 DEF IsLoop
<1>5. f = [k \in 0 .. LastServer |->
              IF k = 0 THEN v
              ELSE IF k \in ServersOf(asp) THEN BringUpIn(f[k - 1], asp, k) ELSE f[k - 1]]
    <2>1. \A k \in 1 .. LastServer :
              step[k][f[k - 1]] = IF k \in ServersOf(asp) THEN BringUpIn(f[k - 1], asp, k) ELSE f[k - 1]
        BY <1>0, <1>2, <1>4
    <2> HIDE DEF v
    <2> QED BY <1>0, <1>4, <2>1
<1>6. F = [k \in 0 .. LastServer |->
              IF k = 0 THEN v
              ELSE IF k \in ServersOf(asp) THEN BringUpIn(F[k - 1], asp, k) ELSE F[k - 1]]
    BY <1>5, Zenon DEF F
<1>7. F[0] \in W[0]
    <2>1. F[0] = v
        BY <1>0, <1>6
    <2> QED BY <2>1
<1>8. ASSUME NEW k \in 1 .. LastServer, F[k - 1] \in W[k - 1] PROVE F[k] \in W[k]
    <2>1. F[k] = IF k \in ServersOf(asp) THEN BringUpIn(F[k - 1], asp, k) ELSE F[k - 1]
        <3> HIDE DEF v
        <3> QED BY <1>0, <1>6
    <2> QED BY <1>0, <1>8, <2>1
<1>9. F[LastServer] \in W[LastServer]
    BY <1>0, <1>7, <1>8, LoopStays
<1> QED BY <1>1, <1>9


\* The loop of activate ends in the last W.
LEMMA ActivateLoop ==
    ASSUME NEW m, NEW asp, NEW S, NEW W, m \in W[0],
           \A k \in Servers : \A n \in W[k - 1] :
               (IF k \in S THEN Activate(n, asp, k) ELSE n) \in W[k]
    PROVE  ActivateIn(m, asp, S) \in W[LastServer]
<1> DEFINE v == m
           Y == UNION {W[k] : k \in 0 .. LastServer}
           step == [k \in Servers |-> [n \in Y |->
                       IF k \in S THEN Activate(n, asp, k) ELSE n]]
           F == CHOOSE F : F = [k \in 0 .. LastServer |->
                    IF k = 0 THEN v
                    ELSE IF k \in S THEN Activate(F[k - 1], asp, k) ELSE F[k - 1]]
<1>0. LastServer \in Nat /\ Servers = 1 .. LastServer
    BY LayoutFacts
<1>1. ActivateIn(m, asp, S) = F[LastServer]
    BY DEF ActivateIn, ForServers, LastServer
<1>2. \A k \in 1 .. LastServer : \A n \in W[k - 1] :
          step[k][n] = IF k \in S THEN Activate(n, asp, k) ELSE n
    BY <1>0
<1> HIDE DEF step, F
<1> DEFINE f == Loop(LastServer, W, v, step)
<1>3. IsLoop(f, LastServer, W, v, step)
    <2>1. \A k \in 1 .. LastServer : \A n \in W[k - 1] : step[k][n] \in W[k]
        BY <1>0, <1>2
    <2>2. v \in W[0]
        OBVIOUS
    <2> HIDE DEF v
    <2> QED BY <1>0, <2>1, <2>2, LoopExists
<1> HIDE DEF f
<1>4. /\ f = [k \in 0 .. LastServer |-> IF k = 0 THEN v ELSE step[k][f[k - 1]]]
      /\ \A k \in 0 .. LastServer : f[k] \in W[k]
    BY <1>3 DEF IsLoop
<1>5. f = [k \in 0 .. LastServer |->
              IF k = 0 THEN v
              ELSE IF k \in S THEN Activate(f[k - 1], asp, k) ELSE f[k - 1]]
    <2>1. \A k \in 1 .. LastServer :
              step[k][f[k - 1]] = IF k \in S THEN Activate(f[k - 1], asp, k) ELSE f[k - 1]
        BY <1>0, <1>2, <1>4
    <2> HIDE DEF v
    <2> QED BY <1>0, <1>4, <2>1
<1>6. F = [k \in 0 .. LastServer |->
              IF k = 0 THEN v
              ELSE IF k \in S THEN Activate(F[k - 1], asp, k) ELSE F[k - 1]]
    BY <1>5, Zenon DEF F
<1>7. F[0] \in W[0]
    <2>1. F[0] = v
        BY <1>0, <1>6
    <2> QED BY <2>1
<1>8. ASSUME NEW k \in 1 .. LastServer, F[k - 1] \in W[k - 1] PROVE F[k] \in W[k]
    <2>1. F[k] = IF k \in S THEN Activate(F[k - 1], asp, k) ELSE F[k - 1]
        <3> HIDE DEF v
        <3> QED BY <1>0, <1>6
    <2> QED BY <1>0, <1>8, <2>1
<1>9. F[LastServer] \in W[LastServer]
    BY <1>0, <1>7, <1>8, LoopStays
<1> QED BY <1>1, <1>9


\* The loop of deactivate ends in the last W.
LEMMA DeactivateLoop ==
    ASSUME NEW m, NEW asp, NEW S, NEW W, m \in W[0],
           \A k \in Servers : \A n \in W[k - 1] :
               (IF k \in S THEN Deactivate(n, asp, k) ELSE n) \in W[k]
    PROVE  DeactivateIn(m, asp, S) \in W[LastServer]
<1> DEFINE v == m
           Y == UNION {W[k] : k \in 0 .. LastServer}
           step == [k \in Servers |-> [n \in Y |->
                       IF k \in S THEN Deactivate(n, asp, k) ELSE n]]
           F == CHOOSE F : F = [k \in 0 .. LastServer |->
                    IF k = 0 THEN v
                    ELSE IF k \in S THEN Deactivate(F[k - 1], asp, k) ELSE F[k - 1]]
<1>0. LastServer \in Nat /\ Servers = 1 .. LastServer
    BY LayoutFacts
<1>1. DeactivateIn(m, asp, S) = F[LastServer]
    BY DEF DeactivateIn, ForServers, LastServer
<1>2. \A k \in 1 .. LastServer : \A n \in W[k - 1] :
          step[k][n] = IF k \in S THEN Deactivate(n, asp, k) ELSE n
    BY <1>0
<1> HIDE DEF step, F
<1> DEFINE f == Loop(LastServer, W, v, step)
<1>3. IsLoop(f, LastServer, W, v, step)
    <2>1. \A k \in 1 .. LastServer : \A n \in W[k - 1] : step[k][n] \in W[k]
        BY <1>0, <1>2
    <2>2. v \in W[0]
        OBVIOUS
    <2> HIDE DEF v
    <2> QED BY <1>0, <2>1, <2>2, LoopExists
<1> HIDE DEF f
<1>4. /\ f = [k \in 0 .. LastServer |-> IF k = 0 THEN v ELSE step[k][f[k - 1]]]
      /\ \A k \in 0 .. LastServer : f[k] \in W[k]
    BY <1>3 DEF IsLoop
<1>5. f = [k \in 0 .. LastServer |->
              IF k = 0 THEN v
              ELSE IF k \in S THEN Deactivate(f[k - 1], asp, k) ELSE f[k - 1]]
    <2>1. \A k \in 1 .. LastServer :
              step[k][f[k - 1]] = IF k \in S THEN Deactivate(f[k - 1], asp, k) ELSE f[k - 1]
        BY <1>0, <1>2, <1>4
    <2> HIDE DEF v
    <2> QED BY <1>0, <1>4, <2>1
<1>6. F = [k \in 0 .. LastServer |->
              IF k = 0 THEN v
              ELSE IF k \in S THEN Deactivate(F[k - 1], asp, k) ELSE F[k - 1]]
    BY <1>5, Zenon DEF F
<1>7. F[0] \in W[0]
    <2>1. F[0] = v
        BY <1>0, <1>6
    <2> QED BY <2>1
<1>8. ASSUME NEW k \in 1 .. LastServer, F[k - 1] \in W[k - 1] PROVE F[k] \in W[k]
    <2>1. F[k] = IF k \in S THEN Deactivate(F[k - 1], asp, k) ELSE F[k - 1]
        <3> HIDE DEF v
        <3> QED BY <1>0, <1>6
    <2> QED BY <1>0, <1>8, <2>1
<1>9. F[LastServer] \in W[LastServer]
    BY <1>0, <1>7, <1>8, LoopStays
<1> QED BY <1>1, <1>9

----------------------------------------------------------------------------
(* The actions the machine has its caller perform, by what they are about. *)

Answers == {"UpAck", "DownAck", "ActiveAck", "InactiveAck", "UnexpectedMessage",
            "InvalidRoutingContext", "NoConfiguredAs", "UnsupportedTrafficMode"}

AnswerActs == [do : {"Send"}, asp : Asps, message : Answers, about : SUBSET Servers]

NotifyActs(s) == [do : {"Send"}, asp : Asps, message : Status, about : {{s}}]

\* The Notify messages that tell ASP a the state of server s.
NoticeActs(a, s) == [do : {"Send"}, asp : {a}, message : StateNotices, about : {{s}}]

AspActs(a, s) == [do : {"Asp"}, asp : {a}, server : {s}, state : AspState]

ActiveActs(X, s) == [do : {"Asp"}, asp : X, server : {s}, state : {"Active"}]

ServerActs(s) == [do : {"Server"}, server : {s}, state : AsState]

StartActs(s) == [do : {"Start"}, server : {s}]

StopActs(s) == [do : {"Stop"}, server : {s}]

\* What is about server s, when only the ASPs X may become active in it.
ActsOf(s, X) ==
    NotifyActs(s) \cup ServerActs(s) \cup StartActs(s) \cup StopActs(s) \cup ActiveActs(X, s)
        \cup [do : {"Asp"}, asp : Asps, server : {s}, state : {"Inactive", "Down"}]
        \cup [do : {"Activated"}, asp : Asps, server : {s}]

Action == AnswerActs \cup UNION {ActsOf(s, Asps) : s \in Servers}

\* The machine while it carries out an input.
Working == [up : SUBSET Asps, active : SUBSET (Asps \X Servers),
            state : [Servers -> AsState], out : Seq(Action)]

----------------------------------------------------------------------------
(* What the caller will have heard of a server once it performed out, when *)
(* it was told q (or f) before.                                            *)

SeenState(out, s, q) ==
    IF Has(out, ServerActs(s)) THEN LastIn(out, ServerActs(s)).state ELSE q

SeenActive(out, a, s, f) ==
    IF Has(out, AspActs(a, s)) THEN LastIn(out, AspActs(a, s)).state = "Active" ELSE f

SeenNotice(out, a, s, q) ==
    IF Has(out, NoticeActs(a, s)) THEN StateIn(LastIn(out, NoticeActs(a, s)).message) ELSE q

\* What is performed in two parts is heard in two parts.
LEMMA SeenInTurn ==
    ASSUME NEW A, NEW out \in Seq(A), NEW more \in Seq(A), NEW a, NEW s, NEW q
    PROVE  /\ SeenState(out \o more, s, q) = SeenState(more, s, SeenState(out, s, q))
           /\ SeenActive(out \o more, a, s, q) = SeenActive(more, a, s, SeenActive(out, a, s, q))
           /\ SeenNotice(out \o more, a, s, q) = SeenNotice(more, a, s, SeenNotice(out, a, s, q))
<1>1. ASSUME NEW K
      PROVE  /\ Has(out \o more, K) <=> Has(out, K) \/ Has(more, K)
             /\ Has(more, K) => LastIn(out \o more, K) = LastIn(more, K)
             /\ ~Has(more, K) /\ Has(out, K) => LastIn(out \o more, K) = LastIn(out, K)
    BY LastOfConcat
<1>2. SeenState(out \o more, s, q) = SeenState(more, s, SeenState(out, s, q))
    BY <1>1 DEF SeenState
<1>3. SeenActive(out \o more, a, s, q) = SeenActive(more, a, s, SeenActive(out, a, s, q))
    BY <1>1 DEF SeenActive
<1>4. SeenNotice(out \o more, a, s, q) = SeenNotice(more, a, s, SeenNotice(out, a, s, q))
    BY <1>1 DEF SeenNotice
<1> QED BY <1>2, <1>3, <1>4

\* Nothing is said of server s.
Silent(out, s) ==
    /\ ~Has(out, ServerActs(s)) /\ ~Has(out, StartActs(s)) /\ ~Has(out, StopActs(s))
    /\ \A a : ~Has(out, AspActs(a, s)) /\ ~Has(out, NoticeActs(a, s))

\* Of a server nothing is said about nothing is heard.
LEMMA SilenceSaysNothing ==
    ASSUME NEW out, NEW s, Silent(out, s)
    PROVE  /\ \A q : SeenState(out, s, q) = q
           /\ \A a, q : SeenActive(out, a, s, q) = q /\ SeenNotice(out, a, s, q) = q
BY DEF Silent, SeenState, SeenActive, SeenNotice

\* What is about one server says nothing of another.
LEMMA ActsApart ==
    ASSUME NEW s, NEW t, s # t, NEW X, NEW more \in Seq(ActsOf(s, X))
    PROVE  Silent(more, t)
<1>1. \A i \in 1 .. Len(more) : more[i] \in ActsOf(s, X)
    OBVIOUS
<1>2. ASSUME NEW act \in ActsOf(s, X), NEW a
      PROVE  /\ act \notin ServerActs(t) /\ act \notin StartActs(t) /\ act \notin StopActs(t)
             /\ act \notin AspActs(a, t) /\ act \notin NoticeActs(a, t)
    <2>1. act \in NotifyActs(s) => act.do = "Send" /\ act.about = {s}
        BY DEF NotifyActs
    <2>2. act \notin NotifyActs(s) => act.do # "Send" /\ act.server = s
        BY DEF ActsOf, ActiveActs, StartActs, StopActs, ServerActs
    <2> QED BY <2>1, <2>2 DEF ServerActs, StartActs, StopActs, AspActs, NoticeActs
<1> QED BY <1>1, <1>2 DEF Has, Silent

\* Nor do the answers to a request.
LEMMA AnswersApart ==
    ASSUME NEW out \in Seq(AnswerActs), NEW s
    PROVE  Silent(out, s)
<1>1. \A i \in 1 .. Len(out) : out[i] \in AnswerActs
    OBVIOUS
<1>2. ASSUME NEW act \in AnswerActs, NEW a
      PROVE  /\ act \notin ServerActs(s) /\ act \notin StartActs(s) /\ act \notin StopActs(s)
             /\ act \notin AspActs(a, s) /\ act \notin NoticeActs(a, s)
    BY DEF AnswerActs, Answers, ServerActs, StartActs, StopActs, AspActs, NoticeActs, StateNotices
<1> QED BY <1>1, <1>2 DEF Has, Silent

\* Two silent parts are silent together.
LEMMA SilentTogether ==
    ASSUME NEW A, NEW out \in Seq(A), NEW more \in Seq(A), NEW s, Silent(out, s), Silent(more, s)
    PROVE  Silent(out \o more, s)
<1>1. \A K : Has(out \o more, K) <=> Has(out, K) \/ Has(more, K)
    BY LastOfConcat
<1> QED BY <1>1 DEF Silent

----------------------------------------------------------------------------
(* A step of the machine about one server.                                 *)

\* Server t is as it was.
SameAt(n, o, t) ==
    /\ o.state[t] = n.state[t]
    /\ \A a \in Asps : <<a, t>> \in o.active <=> <<a, t>> \in n.active

\* The actions more tell the caller, who knew how server s was in n, how it is
\* in o.  What is said of the ASPs F does not depend on what was known of them.
Tells(more, n, o, s, F) ==
    /\ SeenState(more, s, n.state[s]) = o.state[s]
    /\ \A a \in Asps : \A f : a \in F \/ f = IsActive(n, a, s) =>
           SeenActive(more, a, s, f) = IsActive(o, a, s)
    /\ Has(more, StopActs(s)) <=> n.state[s] = "Pending" /\ o.state[s] # "Pending"
    /\ Has(more, StartActs(s)) <=> n.state[s] # "Pending" /\ o.state[s] = "Pending"

\* They tell the ASPs of the server that are not down what state it is in, when
\* these knew before; the ASPs N are told in any case.
Informs(more, n, o, s, N) ==
    \A a \in UpIn(o, s) \cap Gateway : \A q :
        /\ a \in N \/ q = n.state[s] \/ n.state[s] = "Down"
        /\ o.state[s] # "Down"
        => SeenNotice(more, a, s, q) = o.state[s]

Steps(n, o, s, X, F, N) ==
    /\ o \in Working /\ o.up = n.up
    /\ \A t \in Servers : t # s => SameAt(n, o, t)
    /\ \E more \in Seq(ActsOf(s, X)) :
          /\ o.out = n.out \o more
          /\ Tells(more, n, o, s, F)
          /\ Informs(more, n, o, s, N)

\* Two steps are one, when no more than one of them changes the state.
LEMMA StepsInTurn ==
    ASSUME NEW n \in Working, NEW o, NEW r, NEW s \in Servers, NEW X, NEW F, NEW G, NEW N, NEW M,
           Steps(n, o, s, X, F, N), Steps(o, r, s, X, G, M),
           o.state[s] = n.state[s] \/ r.state[s] = o.state[s]
    PROVE  Steps(n, r, s, X, F \cup G, N \cup M)
<1>1. PICK first \in Seq(ActsOf(s, X)) :
          o.out = n.out \o first /\ Tells(first, n, o, s, F) /\ Informs(first, n, o, s, N)
    BY DEF Steps
<1>2. PICK second \in Seq(ActsOf(s, X)) :
          r.out = o.out \o second /\ Tells(second, o, r, s, G) /\ Informs(second, o, r, s, M)
    BY DEF Steps
<1> DEFINE both == first \o second
<1>3. both \in Seq(ActsOf(s, X)) /\ r.out = n.out \o both
    <2>1. n.out \in Seq(Action)
        BY DEF Working
    <2>2. both \in Seq(ActsOf(s, X))
        OBVIOUS
    <2>3. (n.out \o first) \o second = n.out \o both
        <3> DEFINE A == ActsOf(s, X)
                   out == n.out
        <3>1. first \in Seq(A) /\ second \in Seq(A) /\ out \in Seq(Action)
            BY <2>1
        <3> HIDE DEF A, out
        <3>2. (out \o first) \o second = out \o (first \o second)
            BY <3>1, ConcatIsAssociative
        <3> QED BY <3>2 DEF out
    <2> QED BY <1>1, <1>2, <2>2, <2>3
<1>4. \A a, q : /\ SeenState(both, s, q) = SeenState(second, s, SeenState(first, s, q))
                /\ SeenActive(both, a, s, q) = SeenActive(second, a, s, SeenActive(first, a, s, q))
                /\ SeenNotice(both, a, s, q) = SeenNotice(second, a, s, SeenNotice(first, a, s, q))
    BY SeenInTurn
<1>5. \A K : Has(both, K) <=> Has(first, K) \/ Has(second, K)
    BY LastOfConcat
<1> HIDE DEF both
<1>6. Tells(both, n, r, s, F \cup G)
    <2>1. SeenState(both, s, n.state[s]) = r.state[s]
        BY <1>1, <1>2, <1>4 DEF Tells
    <2>2. ASSUME NEW a \in Asps, NEW f, a \in F \cup G \/ f = IsActive(n, a, s)
          PROVE  SeenActive(both, a, s, f) = IsActive(r, a, s)
        BY <1>1, <1>2, <1>4, <2>2 DEF Tells
    <2>3. /\ Has(both, StopActs(s)) <=> n.state[s] = "Pending" /\ r.state[s] # "Pending"
          /\ Has(both, StartActs(s)) <=> n.state[s] # "Pending" /\ r.state[s] = "Pending"
        BY <1>1, <1>2, <1>5 DEF Tells
    <2> QED BY <2>1, <2>2, <2>3 DEF Tells
<1>7. Informs(both, n, r, s, N \cup M)
    <2>1. UpIn(o, s) = UpIn(r, s)
        BY DEF UpIn, Steps
    <2>2. ASSUME NEW a \in UpIn(r, s) \cap Gateway, NEW q,
                 a \in N \cup M \/ q = n.state[s] \/ n.state[s] = "Down", r.state[s] # "Down"
          PROVE  SeenNotice(both, a, s, q) = r.state[s]
        BY <1>1, <1>2, <1>4, <2>1, <2>2 DEF Informs
    <2> QED BY <2>2 DEF Informs
<1>8. \A t \in Servers : t # s => SameAt(n, r, t)
    BY DEF Steps, SameAt
<1> QED BY <1>3, <1>6, <1>7, <1>8 DEF Steps

\* Nothing is done.
LEMMA NoStep ==
    ASSUME NEW n \in Working, NEW s \in Servers, NEW X
    PROVE  Steps(n, n, s, X, {}, {})
<1> DEFINE none == <<>>
<1>1. none \in Seq(ActsOf(s, X)) /\ Len(none) = 0 /\ n.out = n.out \o none
    BY DEF Working
<1>2. \A K : ~Has(none, K)
    BY DEF Has
<1> HIDE DEF none
<1>3. Tells(none, n, n, s, {}) /\ Informs(none, n, n, s, {})
    BY <1>2 DEF Tells, Informs, SeenState, SeenActive, SeenNotice
<1> QED BY <1>1, <1>3 DEF Steps, SameAt

\* It is a step to which less is asked of.
LEMMA StepsLess ==
    ASSUME NEW n, NEW o, NEW s, NEW X, NEW F, NEW N, NEW G \in SUBSET F, NEW M \in SUBSET N,
           Steps(n, o, s, X, F, N)
    PROVE  Steps(n, o, s, X, G, M)
<1>1. \A more : Tells(more, n, o, s, F) => Tells(more, n, o, s, G)
    BY DEF Tells
<1>2. \A more : Informs(more, n, o, s, N) => Informs(more, n, o, s, M)
    BY DEF Informs
<1> QED BY <1>1, <1>2 DEF Steps

----------------------------------------------------------------------------
(* The operations a step is made of.                                       *)

\* What is about a server is an action.
LEMMA ActsAreActions ==
    ASSUME NEW s \in Servers, NEW X \in SUBSET Asps
    PROVE  ActsOf(s, X) \subseteq Action
<1>1. ActsOf(s, X) \subseteq ActsOf(s, Asps)
    BY DEF ActsOf, ActiveActs
<1> QED BY <1>1 DEF Action

\* Do adds an action, and nothing else.
LEMMA DoAdds ==
    ASSUME NEW n \in Working, NEW act \in Action
    PROVE  /\ Do(n, act) \in Working
           /\ Do(n, act).up = n.up /\ Do(n, act).active = n.active
           /\ Do(n, act).state = n.state
           /\ Do(n, act).out = n.out \o <<act>>
<1>1. n.out \in Seq(Action)
    BY DEF Working
<1>2. Append(n.out, act) = n.out \o <<act>> /\ Append(n.out, act) \in Seq(Action)
    BY <1>1
<1>3. Do(n, act) = [n EXCEPT !.out = Append(n.out, act)]
    BY DEF Do
<1> QED BY <1>2, <1>3 DEF Working

\* What the machine says of an ASP in a server is what it has made of it.
LEMMA AspIsSteps ==
    ASSUME NEW n \in Working, NEW o \in Working, NEW s \in Servers, NEW X \in SUBSET Asps,
           NEW asp \in Asps, NEW state \in AspState,
           state = "Active" => asp \in X,
           o.up = n.up, o.state = n.state, o.out = n.out,
           \A a \in Asps, t \in Servers : <<a, t>> # <<asp, s>> =>
               (<<a, t>> \in o.active <=> <<a, t>> \in n.active),
           IsActive(o, asp, s) <=> state = "Active"
    PROVE  /\ Steps(n, AspIs(o, asp, s, state), s, X, {asp}, {})
           /\ AspIs(o, asp, s, state).active = o.active
           /\ AspIs(o, asp, s, state).state = o.state
<1> DEFINE act == [do |-> "Asp", asp |-> asp, server |-> s, state |-> state]
           more == <<act>>
           r == AspIs(o, asp, s, state)
<1>1. act \in ActsOf(s, X)
    BY DEF ActsOf, ActiveActs, AspState
<1>2. /\ r \in Working /\ r.up = n.up /\ r.active = o.active /\ r.state = n.state
      /\ r.out = n.out \o more
    <2>1. act \in Action
        <3> HIDE DEF act
        <3> QED BY <1>1, ActsAreActions
    <2>2. r = Do(o, act)
        BY DEF AspIs
    <2> HIDE DEF act, r
    <2> QED BY <2>1, <2>2, DoAdds
<1>3. more \in Seq(ActsOf(s, X))
    BY <1>1
<1>4. \A K : (Has(more, K) <=> act \in K) /\ (act \in K => LastIn(more, K) = act)
    BY LastOfOne, Zenon
<1>5. /\ act \notin ServerActs(s) /\ act \notin StopActs(s) /\ act \notin StartActs(s)
      /\ \A a : act \notin NoticeActs(a, s)
      /\ \A a : act \in AspActs(a, s) <=> a = asp
      /\ act.state = state
    BY DEF ServerActs, StopActs, StartActs, NoticeActs, AspActs
<1> HIDE DEF act, more, r
<1>6. Tells(more, n, r, s, {asp})
    <2>1. SeenState(more, s, n.state[s]) = r.state[s]
        BY <1>2, <1>4, <1>5 DEF SeenState
    <2>2. ASSUME NEW a \in Asps, NEW f, a \in {asp} \/ f = IsActive(n, a, s)
          PROVE  SeenActive(more, a, s, f) = IsActive(r, a, s)
        <3>1. CASE a = asp
            <4>1. SeenActive(more, a, s, f) = (state = "Active")
                BY <1>4, <1>5, <3>1 DEF SeenActive
            <4>2. IsActive(r, a, s) = (state = "Active")
                BY <1>2, <3>1 DEF IsActive
            <4> QED BY <4>1, <4>2
        <3>2. CASE a # asp
            <4>1. SeenActive(more, a, s, f) = f
                BY <1>4, <1>5, <3>2 DEF SeenActive
            <4>2. IsActive(r, a, s) = IsActive(n, a, s)
                BY <1>2, <3>2 DEF IsActive
            <4> QED BY <2>2, <3>2, <4>1, <4>2
        <3> QED BY <3>1, <3>2
    <2>3. ~Has(more, StopActs(s)) /\ ~Has(more, StartActs(s))
        BY <1>4, <1>5
    <2> QED BY <1>2, <2>1, <2>2, <2>3 DEF Tells
<1>7. Informs(more, n, r, s, {})
    BY <1>2, <1>4, <1>5 DEF Informs, SeenNotice
<1>8. \A t \in Servers : t # s => SameAt(n, r, t)
    BY <1>2 DEF SameAt
<1>9. Steps(n, r, s, X, {asp}, {})
    BY <1>2, <1>3, <1>6, <1>7, <1>8 DEF Steps
<1> QED BY <1>2, <1>9 DEF r

\* A notification goes to each of those it is for, once.
LEMMA NotifySteps ==
    ASSUME NEW n \in Working, NEW s \in Servers, NEW X \in SUBSET Asps,
           NEW status \in Status, NEW to,
           status \in StateNotices => StateIn(status) = n.state[s]
    PROVE  /\ Steps(n, Notify(n, s, status, to), s, X, {},
                    IF status \in StateNotices THEN to ELSE {})
           /\ Notify(n, s, status, to).active = n.active
           /\ Notify(n, s, status, to).state = n.state
<1> DEFINE T == UpIn(n, s) \cap to \cap Gateway
           told == InOrder(T)
           Act(a) == [do |-> "Send", asp |-> a, message |-> status, about |-> {s}]
           more == [i \in 1 .. Len(told) |-> Act(told[i])]
           r == Notify(n, s, status, to)
<1>1. T \in SUBSET Asps /\ T \in SUBSET Nat /\ IsFiniteSet(T)
    BY LayoutFacts, FS_Subset DEF UpIn
<1>2. /\ told \in Seq(T) /\ Len(told) \in Nat
      /\ \A a \in T : \E i \in 1 .. Len(told) : told[i] = a
    <2> HIDE DEF T
    <2> QED BY <1>1, InOrderLists
<1>3. r = [n EXCEPT !.out = n.out \o more]
    BY DEF Notify
<1> HIDE DEF told, T, r
<1>4. more \in Seq(ActsOf(s, X)) /\ Len(more) = Len(told)
      /\ \A i \in 1 .. Len(told) : more[i] = Act(told[i])
    <2>1. \A a \in Asps : Act(a) \in ActsOf(s, X)
        BY DEF ActsOf, NotifyActs
    <2>2. ASSUME NEW i \in 1 .. Len(told) PROVE told[i] \in Asps
        <3>1. told[i] \in T
            BY <1>2
        <3> QED BY <1>1, <3>1
    <2> HIDE DEF Act
    <2> QED BY <1>2, <2>1, <2>2
<1>5. /\ \A a, b : Act(a) \in NoticeActs(b, s) <=> a = b /\ status \in StateNotices
      /\ \A a : Act(a).message = status
      /\ \A a : Act(a) \notin ServerActs(s) /\ Act(a) \notin StopActs(s) /\ Act(a) \notin StartActs(s)
      /\ \A a, b : Act(a) \notin AspActs(b, s)
    BY DEF NoticeActs, ServerActs, StopActs, StartActs, AspActs
<1> HIDE DEF Act, more
<1>6. /\ r \in Working /\ r.up = n.up /\ r.active = n.active /\ r.state = n.state
      /\ r.out = n.out \o more
    <2>1. n.out \in Seq(Action)
        BY DEF Working
    <2>2. more \in Seq(Action)
        <3>1. \A i \in 1 .. Len(more) : more[i] \in Action
            <4>1. \A i \in 1 .. Len(more) : more[i] \in ActsOf(s, X)
                BY <1>4
            <4> QED BY <4>1, ActsAreActions
        <3> QED BY <1>4, <3>1
    <2>3. n.out \o more \in Seq(Action)
        BY <2>1, <2>2
    <2> QED BY <1>3, <2>3 DEF Working
<1>7. /\ ~Has(more, ServerActs(s)) /\ ~Has(more, StopActs(s)) /\ ~Has(more, StartActs(s))
      /\ \A a : ~Has(more, AspActs(a, s))
    BY <1>4, <1>5 DEF Has
<1>8. Tells(more, n, r, s, {})
    BY <1>6, <1>7 DEF Tells, SeenState, SeenActive, IsActive
<1>9. Informs(more, n, r, s, IF status \in StateNotices THEN to ELSE {})
    <2>1. CASE status \in StateNotices
        <3> SUFFICES ASSUME NEW a \in UpIn(r, s) \cap Gateway, NEW q,
                            a \in to \/ q = n.state[s] \/ n.state[s] = "Down",
                            r.state[s] # "Down"
                     PROVE  SeenNotice(more, a, s, q) = r.state[s]
            BY <2>1 DEF Informs
        <3>1. Has(more, NoticeActs(a, s)) => LastIn(more, NoticeActs(a, s)).message = status
            <4> SUFFICES ASSUME Has(more, NoticeActs(a, s))
                         PROVE  LastIn(more, NoticeActs(a, s)).message = status
                OBVIOUS
            <4>1. PICK i \in 1 .. Len(more) : LastIn(more, NoticeActs(a, s)) = more[i]
                BY <1>4, LastExists
            <4> QED BY <1>4, <1>5, <4>1
        <3>2. a \in to => Has(more, NoticeActs(a, s))
            <4> SUFFICES ASSUME a \in to PROVE Has(more, NoticeActs(a, s))
                OBVIOUS
            <4>1. a \in T
                BY <1>6 DEF T, UpIn
            <4>2. PICK i \in 1 .. Len(told) : told[i] = a
                BY <1>2, <4>1
            <4> QED BY <1>4, <1>5, <2>1, <4>2 DEF Has
        <3>3. n.state[s] # "Down"
            BY <1>6
        <3> QED BY <1>6, <2>1, <3>1, <3>2, <3>3 DEF SeenNotice
    <2>2. CASE status \notin StateNotices
        <3>1. \A a : ~Has(more, NoticeActs(a, s))
            BY <1>4, <1>5, <2>2 DEF Has
        <3> QED BY <1>6, <2>2, <3>1 DEF Informs, SeenNotice
    <2> QED BY <2>1, <2>2
<1>10. Steps(n, r, s, X, {}, IF status \in StateNotices THEN to ELSE {})
    BY <1>4, <1>6, <1>8, <1>9 DEF Steps, SameAt
<1> QED BY <1>6, <1>10 DEF r

\* NotifyState tells the state.
LEMMA NotifyStateSteps ==
    ASSUME NEW n \in Working, NEW s \in Servers, NEW X \in SUBSET Asps, NEW to
    PROVE  /\ Steps(n, NotifyState(n, s, to), s, X, {}, to)
           /\ NotifyState(n, s, to).active = n.active
           /\ NotifyState(n, s, to).state = n.state
<1>1. CASE n.state[s] = "Down"
    <2>1. NotifyState(n, s, to) = n
        BY <1>1 DEF NotifyState
    <2>2. \A more, M : Informs(more, n, n, s, M)
        BY <1>1 DEF Informs
    <2>3. Steps(n, n, s, X, {}, {})
        BY NoStep
    <2>4. Steps(n, n, s, X, {}, to)
        BY <2>2, <2>3 DEF Steps
    <2> QED BY <2>1, <2>4
<1>2. CASE n.state[s] # "Down"
    <2> DEFINE status == CHOOSE t \in StatusOf(n.state[s]) : TRUE
    <2>1. n.state[s] \in {"Inactive", "Active", "Pending"}
        BY <1>2 DEF Working, AsState
    <2>2. status \in StateNotices /\ StateIn(status) = n.state[s]
        BY <2>1 DEF StatusOf, StateNotices, StateIn
    <2>3. NotifyState(n, s, to) = Notify(n, s, status, to)
        BY <1>2 DEF NotifyState
    <2>4. status \in Status
        BY <2>2 DEF StateNotices, Status
    <2> HIDE DEF status
    <2>5. (IF status \in StateNotices THEN to ELSE {}) = to
        BY <2>2
    <2>6. /\ Steps(n, Notify(n, s, status, to), s, X, {}, IF status \in StateNotices THEN to ELSE {})
          /\ Notify(n, s, status, to).active = n.active
          /\ Notify(n, s, status, to).state = n.state
        BY <2>2, <2>4, NotifySteps
    <2> QED BY <2>3, <2>5, <2>6
<1> QED BY <1>1, <1>2

\* A server that moves to another state has its timer stopped or started, and
\* every ASP of it told.
LEMMA MoveToSteps ==
    ASSUME NEW n \in Working, NEW s \in Servers, NEW X \in SUBSET Asps,
           NEW state \in AsState, state # n.state[s]
    PROVE  /\ Steps(n, MoveTo(n, s, state), s, X, {}, Asps)
           /\ MoveTo(n, s, state).active = n.active
           /\ MoveTo(n, s, state).state = [n.state EXCEPT ![s] = state]
<1> DEFINE stop == [do |-> "Stop", server |-> s]
           start == [do |-> "Start", server |-> s]
           serve == [do |-> "Server", server |-> s, state |-> state]
           stops == IF n.state[s] = "Pending" THEN <<stop>> ELSE <<>>
           starts == IF state = "Pending" THEN <<start>> ELSE <<>>
           stopped == IF n.state[s] = "Pending" THEN Do(n, stop) ELSE n
           started == IF state = "Pending" THEN Do(stopped, start) ELSE stopped
           set == [started EXCEPT !.state[s] = state]
           moved == Do(set, serve)
           r == NotifyState(moved, s, Asps)
           first == stops \o (starts \o <<serve>>)
<1>1. r = MoveTo(n, s, state)
    BY DEF MoveTo
<1>2. /\ stop \in ActsOf(s, X) /\ start \in ActsOf(s, X) /\ serve \in ActsOf(s, X)
      /\ stop \in StopActs(s) /\ start \in StartActs(s) /\ serve \in ServerActs(s)
      /\ stop \notin ServerActs(s) \cup StartActs(s) /\ start \notin ServerActs(s) \cup StopActs(s)
      /\ serve \notin StopActs(s) \cup StartActs(s) /\ serve.state = state
      /\ \A a : /\ stop \notin AspActs(a, s) /\ start \notin AspActs(a, s)
                /\ serve \notin AspActs(a, s)
    BY DEF ActsOf, StopActs, StartActs, ServerActs, AspActs
<1> HIDE DEF stop, start, serve
<1>3. stop \in Action /\ start \in Action /\ serve \in Action
    BY <1>2, ActsAreActions
<1>4. /\ stopped \in Working /\ stopped.up = n.up /\ stopped.active = n.active
      /\ stopped.state = n.state /\ stopped.out = n.out \o stops
    <2>1. CASE n.state[s] = "Pending"
        BY <1>3, <2>1, DoAdds
    <2>2. CASE n.state[s] # "Pending"
        <3>1. n.out \in Seq(Action)
            BY DEF Working
        <3> QED BY <2>2, <3>1
    <2> QED BY <2>1, <2>2
<1> HIDE DEF stopped
<1>5. /\ started \in Working /\ started.up = n.up /\ started.active = n.active
      /\ started.state = n.state /\ started.out = stopped.out \o starts
    <2>1. CASE state = "Pending"
        BY <1>3, <1>4, <2>1, DoAdds
    <2>2. CASE state # "Pending"
        <3> DEFINE out == stopped.out
        <3>1. out \in Seq(Action)
            BY <1>4 DEF Working
        <3> HIDE DEF out
        <3>2. out \o <<>> = out
            BY <3>1
        <3> QED BY <1>4, <2>2, <3>2 DEF out
    <2> QED BY <2>1, <2>2
<1> HIDE DEF started
<1>6. /\ set \in Working /\ set.up = n.up /\ set.active = n.active
      /\ set.state = [n.state EXCEPT ![s] = state] /\ set.out = started.out
    BY <1>5 DEF Working
<1> HIDE DEF set
<1>7. /\ moved \in Working /\ moved.up = n.up /\ moved.active = n.active
      /\ moved.state = [n.state EXCEPT ![s] = state] /\ moved.out = started.out \o <<serve>>
    BY <1>3, <1>6, DoAdds
<1> HIDE DEF moved
<1> DEFINE Three == {stop, start, serve}
<1>8. stops \in Seq(Three) /\ starts \in Seq(Three) /\ <<serve>> \in Seq(Three)
    <2>1. stop \in Three /\ start \in Three /\ serve \in Three
        OBVIOUS
    <2> HIDE DEF Three
    <2>2. <<stop>> \in Seq(Three) /\ <<start>> \in Seq(Three) /\ <<serve>> \in Seq(Three)
        BY <2>1
    <2>3. <<>> \in Seq(Three)
        OBVIOUS
    <2> QED BY <2>2, <2>3
<1> HIDE DEF Three
<1>9. moved.out = n.out \o first
    <2> DEFINE out == n.out
               one == <<serve>>
    <2>1. out \in Seq(Action) /\ one \in Seq(Three)
        BY <1>8 DEF Working
    <2>2. moved.out = ((out \o stops) \o starts) \o one
        BY <1>4, <1>5, <1>7
    <2> HIDE DEF out, one, stops, starts
    <2>3. starts \o one \in Seq(Three)
        BY <1>8, <2>1
    <2>4. ((out \o stops) \o starts) \o one = (out \o stops) \o (starts \o one)
        <3> DEFINE sofar == out \o stops
        <3>1. sofar \in Seq(Action \cup Three)
            BY <1>8, <2>1
        <3> HIDE DEF sofar
        <3>2. (sofar \o starts) \o one = sofar \o (starts \o one)
            BY <1>8, <2>1, <3>1, ConcatIsAssociative
        <3> QED BY <3>2 DEF sofar
    <2>5. (out \o stops) \o (starts \o one) = out \o (stops \o (starts \o one))
        <3> DEFINE rest == starts \o one
        <3>1. rest \in Seq(Three)
            BY <2>3
        <3> HIDE DEF rest
        <3>2. (out \o stops) \o rest = out \o (stops \o rest)
            BY <1>8, <2>1, <3>1, ConcatIsAssociative
        <3> QED BY <3>2 DEF rest
    <2> QED BY <2>2, <2>4, <2>5 DEF out, one
<1>10. first \in Seq(ActsOf(s, X))
    BY <1>2
<1>11. /\ \A K : Has(first, K) <=> Has(stops, K) \/ Has(starts, K) \/ serve \in K
       /\ \A K : serve \in K => LastIn(first, K) = serve
    <2> DEFINE one == <<serve>>
    <2>1. \A K : (Has(one, K) <=> serve \in K) /\ (serve \in K => LastIn(one, K) = serve)
        BY LastOfOne, Zenon
    <2> HIDE DEF one
    <2>2. starts \in Seq(Three) /\ one \in Seq(Three)
        BY <1>8 DEF one
    <2> HIDE DEF starts
    <2>3. \A K : /\ Has(starts \o one, K) <=> Has(starts, K) \/ Has(one, K)
                 /\ Has(one, K) => LastIn(starts \o one, K) = LastIn(one, K)
        BY <2>2, LastOfConcat
    <2> DEFINE rest == starts \o one
    <2>4. rest \in Seq(Three)
        BY <2>2
    <2>5. stops \in Seq(Three)
        BY <1>8
    <2> HIDE DEF stops, rest
    <2>6. \A K : /\ Has(stops \o rest, K) <=> Has(stops, K) \/ Has(rest, K)
                 /\ Has(rest, K) => LastIn(stops \o rest, K) = LastIn(rest, K)
        BY <2>4, <2>5, LastOfConcat
    <2>7. first = stops \o rest
        BY DEF rest, one
    <2> HIDE DEF first
    <2> QED BY <2>1, <2>3, <2>6, <2>7 DEF rest
<1>12. /\ \A K : Has(stops, K) <=> n.state[s] = "Pending" /\ stop \in K
       /\ \A K : Has(starts, K) <=> state = "Pending" /\ start \in K
    <2>1. \A e, K : Has(<<e>>, K) <=> e \in K
        BY LastOfOne, Zenon
    <2>2. \A K : ~Has(<<>>, K)
        BY DEF Has
    <2>3. \A K : Has(stops, K) <=> n.state[s] = "Pending" /\ stop \in K
        BY <2>1, <2>2, Zenon
    <2>4. \A K : Has(starts, K) <=> state = "Pending" /\ start \in K
        BY <2>1, <2>2, Zenon
    <2> QED BY <2>3, <2>4
<1> HIDE DEF first, stops, starts
<1>13. /\ Steps(moved, r, s, X, {}, Asps) /\ r.active = moved.active /\ r.state = moved.state
    BY <1>7, NotifyStateSteps
<1> HIDE DEF r
<1>14. PICK second \in Seq(ActsOf(s, X)) :
           /\ r.out = moved.out \o second
           /\ Tells(second, moved, r, s, {}) /\ Informs(second, moved, r, s, Asps)
    BY <1>13 DEF Steps
<1> DEFINE both == first \o second
<1>15. both \in Seq(ActsOf(s, X)) /\ r.out = n.out \o both
    <2> DEFINE out == n.out
               A == ActsOf(s, X)
    <2>1. out \in Seq(Action) /\ first \in Seq(A) /\ second \in Seq(A)
        BY <1>10 DEF Working
    <2> HIDE DEF out, A
    <2>2. (out \o first) \o second = out \o both
        BY <2>1, ConcatIsAssociative
    <2>3. both \in Seq(A)
        BY <2>1
    <2> QED BY <1>9, <1>14, <2>2, <2>3 DEF out, A
<1>16. \A a, q : /\ SeenState(both, s, q) = SeenState(second, s, SeenState(first, s, q))
                 /\ SeenActive(both, a, s, q) = SeenActive(second, a, s, SeenActive(first, a, s, q))
                 /\ SeenNotice(both, a, s, q) = SeenNotice(second, a, s, SeenNotice(first, a, s, q))
    BY <1>10, SeenInTurn
<1>17. \A K : Has(both, K) <=> Has(first, K) \/ Has(second, K)
    BY <1>10, LastOfConcat
<1> HIDE DEF both
<1>18. /\ moved.state[s] = state /\ r.state[s] = state
       /\ ~Has(second, StopActs(s)) /\ ~Has(second, StartActs(s))
    <2>1. moved.state[s] = state
        BY <1>7 DEF Working
    <2> QED BY <1>13, <1>14, <2>1 DEF Tells
<1>19. Tells(both, n, r, s, {})
    <2>1. SeenState(both, s, n.state[s]) = r.state[s]
        <3>1. SeenState(first, s, n.state[s]) = state
            BY <1>2, <1>11 DEF SeenState
        <3> QED BY <1>14, <1>16, <1>18, <3>1 DEF Tells
    <2>2. ASSUME NEW a \in Asps, NEW f, f = IsActive(n, a, s)
          PROVE  SeenActive(both, a, s, f) = IsActive(r, a, s)
        <3>1. SeenActive(first, a, s, f) = f
            BY <1>2, <1>11, <1>12 DEF SeenActive
        <3>2. IsActive(moved, a, s) = IsActive(n, a, s)
            BY <1>7 DEF IsActive
        <3> QED BY <1>14, <1>16, <2>2, <3>1, <3>2 DEF Tells
    <2>3. /\ Has(both, StopActs(s)) <=> n.state[s] = "Pending" /\ r.state[s] # "Pending"
          /\ Has(both, StartActs(s)) <=> n.state[s] # "Pending" /\ r.state[s] = "Pending"
        BY <1>2, <1>11, <1>12, <1>17, <1>18
    <2> QED BY <2>1, <2>2, <2>3 DEF Tells
<1>20. Informs(both, n, r, s, Asps)
    <2> SUFFICES ASSUME NEW a \in UpIn(r, s) \cap Gateway, NEW q, r.state[s] # "Down"
                 PROVE  SeenNotice(both, a, s, q) = r.state[s]
        BY DEF Informs
    <2>1. a \in Asps
        BY LayoutFacts DEF UpIn
    <2> QED BY <1>14, <1>16, <2>1 DEF Informs
<1>21. \A t \in Servers : t # s => SameAt(n, r, t)
    BY <1>7, <1>13 DEF SameAt, Working
<1>22. r \in Working /\ r.up = n.up
    BY <1>7, <1>13 DEF Steps
<1>23. Steps(n, r, s, X, {}, Asps)
    BY <1>15, <1>19, <1>20, <1>21, <1>22 DEF Steps
<1> QED BY <1>1, <1>7, <1>13, <1>23

\* The state a server comes to depends on what is known of it alone.
LEMMA NextStateIsLocal ==
    ASSUME NEW n, NEW o, NEW s \in Servers, o.up = n.up, SameAt(n, o, s)
    PROVE  /\ UpIn(o, s) = UpIn(n, s) /\ ActiveIn(o, s) = ActiveIn(n, s)
           /\ \A a \in Asps : IsActive(o, a, s) = IsActive(n, a, s)
           /\ NextState(o, s) = NextState(n, s)
<1>1. UpIn(o, s) = UpIn(n, s)
    BY DEF UpIn
<1>2. \A a \in Asps : IsActive(o, a, s) = IsActive(n, a, s)
    BY DEF IsActive, SameAt
<1>3. ActiveIn(o, s) = ActiveIn(n, s)
    BY <1>2, LayoutFacts DEF ActiveIn
<1> QED BY <1>1, <1>2, <1>3 DEF NextState, SameAt

\* Figure 4 leads to a state.
LEMMA NextStateType == ASSUME NEW n \in Working, NEW s \in Servers PROVE NextState(n, s) \in AsState
BY DEF NextState, AsState

\* Evaluate leaves its server where NextState puts it, and says so.
LEMMA EvaluateSteps ==
    ASSUME NEW n \in Working, NEW s \in Servers, NEW X \in SUBSET Asps
    PROVE  /\ Steps(n, Evaluate(n, s), s, X, {}, IF NextState(n, s) = n.state[s] THEN {} ELSE Asps)
           /\ Evaluate(n, s).active = n.active
           /\ Evaluate(n, s).state = [n.state EXCEPT ![s] = NextState(n, s)]
<1>1. CASE NextState(n, s) = n.state[s]
    <2>1. Evaluate(n, s) = n
        BY <1>1 DEF Evaluate
    <2>2. Steps(n, n, s, X, {}, {})
        BY NoStep
    <2>3. n.state = [n.state EXCEPT ![s] = n.state[s]]
        BY DEF Working
    <2> QED BY <1>1, <2>1, <2>2, <2>3
<1>2. CASE NextState(n, s) # n.state[s]
    <2> DEFINE next == NextState(n, s)
    <2>1. Evaluate(n, s) = MoveTo(n, s, next)
        BY <1>2 DEF Evaluate
    <2>2. next \in AsState /\ next # n.state[s]
        BY <1>2, NextStateType
    <2> HIDE DEF next
    <2>3. /\ Steps(n, MoveTo(n, s, next), s, X, {}, Asps)
          /\ MoveTo(n, s, next).active = n.active
          /\ MoveTo(n, s, next).state = [n.state EXCEPT ![s] = next]
        BY <2>2, MoveToSteps
    <2> QED BY <1>2, <2>1, <2>3 DEF next
<1> QED BY <1>1, <1>2

\* Resources changes nothing.
LEMMA ResourcesSteps ==
    ASSUME NEW n \in Working, NEW s \in Servers, NEW X \in SUBSET Asps
    PROVE  /\ Steps(n, Resources(n, s), s, X, {}, {})
           /\ Resources(n, s).active = n.active
           /\ Resources(n, s).state = n.state
<1> DEFINE status == "InsufficientResources"
           to == Asps \ ActiveIn(n, s)
<1>1. status \in Status /\ status \notin StateNotices
    BY DEF Status, StateNotices
<1>2. Resources(n, s) \in {n, Notify(n, s, status, to)}
    BY DEF Resources
<1> HIDE DEF status, to
<1>3. /\ Steps(n, Notify(n, s, status, to), s, X, {}, IF status \in StateNotices THEN to ELSE {})
      /\ Notify(n, s, status, to).active = n.active
      /\ Notify(n, s, status, to).state = n.state
    BY <1>1, NotifySteps
<1>4. Steps(n, n, s, X, {}, {})
    BY NoStep
<1> QED BY <1>1, <1>2, <1>3, <1>4

\* What TakeDown does for a server of an ASP that is down.
LEMMA TakeDownInSteps ==
    ASSUME NEW n \in Working, NEW s \in Servers, NEW asp \in Asps, asp \notin n.up, NEW failed
    PROVE  /\ Steps(n, TakeDownIn(n, asp, failed, s), s, {}, {asp}, {})
           /\ TakeDownIn(n, asp, failed, s).active = n.active
           /\ TakeDownIn(n, asp, failed, s).state = [n.state EXCEPT ![s] = NextState(n, s)]
<1> DEFINE down == AspIs(n, asp, s, "Down")
           told == IF failed THEN Notify(down, s, "AspFailure", Asps) ELSE down
           even == Evaluate(told, s)
           o == Resources(even, s)
<1>1. o = TakeDownIn(n, asp, failed, s)
    BY DEF TakeDownIn
<1>2. /\ Steps(n, down, s, {}, {asp}, {}) /\ down.active = n.active /\ down.state = n.state
    <2>1. ~IsActive(n, asp, s) /\ "Down" \in AspState
        BY DEF IsActive, AspState
    <2> QED BY <2>1, AspIsSteps
<1> HIDE DEF down
<1>3. /\ Steps(down, told, s, {}, {}, {}) /\ told.active = down.active /\ told.state = down.state
    <2>1. down \in Working
        BY <1>2 DEF Steps
    <2>2. CASE ~failed
        BY <2>1, <2>2, NoStep
    <2>3. CASE failed
        <3> DEFINE status == "AspFailure"
                   r == Notify(down, s, status, Asps)
        <3>1. status \in Status /\ status \notin StateNotices /\ told = r
            BY <2>3 DEF Status, StateNotices
        <3> HIDE DEF status
        <3>2. /\ Steps(down, r, s, {}, {}, IF status \in StateNotices THEN Asps ELSE {})
              /\ r.active = down.active /\ r.state = down.state
            BY <2>1, <3>1, NotifySteps
        <3> HIDE DEF r, told
        <3> QED BY <3>1, <3>2
    <2> HIDE DEF told
    <2> QED BY <2>2, <2>3
<1> HIDE DEF told
<1>4. Steps(n, told, s, {}, {asp}, {})
    <2>1. Steps(n, told, s, {}, {asp} \cup {}, {} \cup {})
        BY <1>2, <1>3, StepsInTurn
    <2> QED BY <2>1
<1>5. told \in Working /\ told.up = n.up /\ told.active = n.active /\ told.state = n.state
    BY <1>2, <1>3, <1>4 DEF Steps
<1>6. NextState(told, s) = NextState(n, s)
    BY <1>5, NextStateIsLocal DEF SameAt
<1>7. /\ Steps(told, even, s, {}, {}, {})
      /\ even.active = n.active /\ even.state = [n.state EXCEPT ![s] = NextState(n, s)]
    <2> DEFINE N == IF NextState(told, s) = told.state[s] THEN {} ELSE Asps
    <2>1. /\ Steps(told, even, s, {}, {}, N)
          /\ even.active = told.active /\ even.state = [told.state EXCEPT ![s] = NextState(told, s)]
        BY <1>5, EvaluateSteps
    <2> HIDE DEF even, N
    <2>2. Steps(told, even, s, {}, {}, {})
        BY <2>1, StepsLess
    <2> QED BY <1>5, <1>6, <2>1, <2>2
<1> HIDE DEF even
<1>8. Steps(n, even, s, {}, {asp}, {})
    <2>1. Steps(n, even, s, {}, {asp} \cup {}, {} \cup {})
        BY <1>4, <1>5, <1>7, StepsInTurn
    <2> QED BY <2>1
<1>9. Steps(even, o, s, {}, {}, {}) /\ o.active = even.active /\ o.state = even.state
    <2>1. even \in Working
        BY <1>8 DEF Steps
    <2> QED BY <2>1, ResourcesSteps
<1> HIDE DEF o
<1>10. Steps(n, o, s, {}, {asp}, {})
    <2>1. Steps(n, o, s, {}, {asp} \cup {}, {} \cup {})
        BY <1>8, <1>9, StepsInTurn
    <2> QED BY <2>1
<1> QED BY <1>1, <1>7, <1>9, <1>10

\* What BringUp does for a server of an ASP that has come up.
LEMMA BringUpInSteps ==
    ASSUME NEW n \in Working, NEW s \in Servers, NEW asp \in Asps, <<asp, s>> \notin n.active
    PROVE  /\ Steps(n, BringUpIn(n, asp, s), s, {}, {asp}, {asp})
           /\ BringUpIn(n, asp, s).active = n.active
           /\ BringUpIn(n, asp, s).state = [n.state EXCEPT ![s] = NextState(n, s)]
<1> DEFINE now == AspIs(n, asp, s, "Inactive")
           o == BringUpIn(n, asp, s)
<1>1. /\ Steps(n, now, s, {}, {asp}, {}) /\ now.active = n.active /\ now.state = n.state
    <2>1. ~IsActive(n, asp, s) /\ "Inactive" \in AspState
        BY DEF IsActive, AspState
    <2> QED BY <2>1, AspIsSteps
<1>2. o = IF NextState(now, s) # now.state[s] THEN Evaluate(now, s) ELSE NotifyState(now, s, {asp})
    BY DEF BringUpIn
<1> HIDE DEF now, o
<1>3. now \in Working /\ now.up = n.up
    BY <1>1 DEF Steps
<1>4. NextState(now, s) = NextState(n, s)
    BY <1>1, <1>3, NextStateIsLocal DEF SameAt
<1>5. /\ Steps(now, o, s, {}, {}, {asp})
      /\ o.active = n.active /\ o.state = [n.state EXCEPT ![s] = NextState(n, s)]
    <2>1. CASE NextState(now, s) # now.state[s]
        <3> DEFINE N == IF NextState(now, s) = now.state[s] THEN {} ELSE Asps
                   even == Evaluate(now, s)
        <3>1. N = Asps /\ o = even
            BY <1>2, <2>1
        <3>2. /\ Steps(now, even, s, {}, {}, N)
              /\ even.active = now.active /\ even.state = [now.state EXCEPT ![s] = NextState(now, s)]
            BY <1>3, EvaluateSteps
        <3> HIDE DEF even, N
        <3>3. Steps(now, even, s, {}, {}, {asp})
            BY <3>1, <3>2, StepsLess
        <3> QED BY <1>1, <1>4, <3>1, <3>2, <3>3
    <2>2. CASE NextState(now, s) = now.state[s]
        <3>1. o = NotifyState(now, s, {asp})
            BY <1>2, <2>2
        <3>2. Steps(now, o, s, {}, {}, {asp}) /\ o.active = now.active /\ o.state = now.state
            BY <1>3, <3>1, NotifyStateSteps
        <3>3. n.state = [n.state EXCEPT ![s] = NextState(n, s)]
            BY <1>1, <1>4, <2>2 DEF Working
        <3> QED BY <1>1, <3>2, <3>3
    <2> QED BY <2>1, <2>2
<1>6. Steps(n, o, s, {}, {asp}, {asp})
    <2>1. Steps(n, o, s, {}, {asp} \cup {}, {} \cup {asp})
        BY <1>1, <1>5, StepsInTurn
    <2> QED BY <2>1
<1> QED BY <1>5, <1>6 DEF o

\* The machine with an ASP taken out of a server, and with it put in.
Without(n, asp, s) == [n EXCEPT !.active = @ \ {<<asp, s>>}]

With(n, asp, s) ==
    [n EXCEPT !.active = (@ \cup {<<asp, s>>}) \ (Displaced(n, asp, s) \X {s})]

\* An ASP that is active in a server stops being, and the server follows.
LEMMA DeactivateSteps ==
    ASSUME NEW n \in Working, NEW s \in Servers, NEW asp \in Asps
    PROVE  /\ Steps(n, Deactivate(n, asp, s), s, {}, {}, {})
           /\ ~IsActive(n, asp, s) => Deactivate(n, asp, s) = n
           /\ IsActive(n, asp, s) =>
                  /\ Deactivate(n, asp, s).active = n.active \ {<<asp, s>>}
                  /\ Deactivate(n, asp, s).state =
                         [n.state EXCEPT ![s] = NextState(Without(n, asp, s), s)]
<1>1. CASE ~IsActive(n, asp, s)
    <2>1. Deactivate(n, asp, s) = n
        BY <1>1 DEF Deactivate
    <2> QED BY <1>1, <2>1, NoStep
<1>2. CASE IsActive(n, asp, s)
    <2> DEFINE out == Without(n, asp, s)
               off == AspIs(out, asp, s, "Inactive")
               even == Evaluate(off, s)
               o == Resources(even, s)
    <2>1. o = Deactivate(n, asp, s)
        BY <1>2 DEF Deactivate, Without
    <2>2. /\ out \in Working /\ out.up = n.up /\ out.state = n.state /\ out.out = n.out
          /\ out.active = n.active \ {<<asp, s>>}
        BY DEF Working, Without
    <2> HIDE DEF out
    <2>3. /\ Steps(n, off, s, {}, {asp}, {}) /\ off.active = out.active /\ off.state = out.state
        <3>1. ~IsActive(out, asp, s) /\ "Inactive" \in AspState
            BY <2>2 DEF IsActive, AspState
        <3> QED BY <2>2, <3>1, AspIsSteps
    <2> HIDE DEF off
    <2>4. off \in Working /\ off.up = n.up
        BY <2>3 DEF Steps
    <2>5. NextState(off, s) = NextState(out, s)
        BY <2>2, <2>3, <2>4, NextStateIsLocal DEF SameAt
    <2>6. /\ Steps(off, even, s, {}, {}, {})
          /\ even.active = out.active /\ even.state = [n.state EXCEPT ![s] = NextState(out, s)]
        <3> DEFINE N == IF NextState(off, s) = off.state[s] THEN {} ELSE Asps
        <3>1. /\ Steps(off, even, s, {}, {}, N)
              /\ even.active = off.active /\ even.state = [off.state EXCEPT ![s] = NextState(off, s)]
            BY <2>4, EvaluateSteps
        <3> HIDE DEF even, N
        <3>2. Steps(off, even, s, {}, {}, {})
            BY <3>1, StepsLess
        <3> QED BY <2>2, <2>3, <2>5, <3>1, <3>2
    <2> HIDE DEF even
    <2>7. even \in Working
        BY <2>6 DEF Steps
    <2>8. Steps(even, o, s, {}, {}, {}) /\ o.active = even.active /\ o.state = even.state
        BY <2>7, ResourcesSteps
    <2> HIDE DEF o
    <2>9. Steps(n, even, s, {}, {asp}, {})
        <3>1. Steps(n, even, s, {}, {asp} \cup {}, {} \cup {})
            BY <2>2, <2>3, <2>6, StepsInTurn
        <3> QED BY <3>1
    <2>10. Steps(n, o, s, {}, {}, {})
        <3>1. Steps(n, o, s, {}, {asp} \cup {}, {} \cup {})
            BY <2>8, <2>9, StepsInTurn
        <3> QED BY <3>1, StepsLess
    <2> QED BY <1>2, <2>1, <2>2, <2>6, <2>8, <2>10 DEF out
<1> QED BY <1>1, <1>2

\* What only says that an ASP was activated changes nothing.
LEMMA ActivatedSteps ==
    ASSUME NEW n \in Working, NEW s \in Servers, NEW X \in SUBSET Asps, NEW asp \in Asps
    PROVE  LET o == Do(n, [do |-> "Activated", asp |-> asp, server |-> s])
           IN  Steps(n, o, s, X, {}, {}) /\ o.active = n.active /\ o.state = n.state
<1> DEFINE act == [do |-> "Activated", asp |-> asp, server |-> s]
           more == <<act>>
           o == Do(n, act)
<1>1. act \in ActsOf(s, X)
    BY DEF ActsOf
<1>2. /\ act \notin ServerActs(s) /\ act \notin StopActs(s) /\ act \notin StartActs(s)
      /\ \A a : act \notin NoticeActs(a, s) /\ act \notin AspActs(a, s)
    BY DEF ServerActs, StopActs, StartActs, NoticeActs, AspActs
<1> HIDE DEF act
<1>3. act \in Action /\ more \in Seq(ActsOf(s, X))
    BY <1>1, ActsAreActions
<1>4. /\ o \in Working /\ o.up = n.up /\ o.active = n.active /\ o.state = n.state
      /\ o.out = n.out \o more
    BY <1>3, DoAdds
<1>5. \A K : Has(more, K) <=> act \in K
    BY LastOfOne, Zenon
<1> HIDE DEF more, o
<1>6. Tells(more, n, o, s, {}) /\ Informs(more, n, o, s, {})
    BY <1>2, <1>4, <1>5 DEF Tells, Informs, SeenState, SeenActive, SeenNotice, IsActive
<1>7. Steps(n, o, s, X, {}, {})
    BY <1>3, <1>4, <1>6 DEF Steps, SameAt
<1> QED BY <1>4, <1>7 DEF o, act

\* One ASP loses an Override server to another.
Displace(w, a, s) ==
    Notify(AspIs(Without(w, a, s), a, s, "Inactive"), s, "AlternateAspActive", {a})

\* One ASP is displaced from an Override server.
LEMMA DisplaceSteps ==
    ASSUME NEW w \in Working, NEW s \in Servers, NEW a \in Asps, NEW X \in SUBSET Asps
    PROVE  /\ Steps(w, Displace(w, a, s), s, X, {}, {})
           /\ Displace(w, a, s).active = w.active \ {<<a, s>>}
           /\ Displace(w, a, s).state = w.state
<1> DEFINE out == Without(w, a, s)
           off == AspIs(out, a, s, "Inactive")
           status == "AlternateAspActive"
           o == Notify(off, s, status, {a})
<1>1. /\ out \in Working /\ out.up = w.up /\ out.state = w.state /\ out.out = w.out
      /\ out.active = w.active \ {<<a, s>>}
    BY DEF Working, Without
<1>2. status \in Status /\ status \notin StateNotices /\ o = Displace(w, a, s)
    BY DEF Status, StateNotices, Displace
<1> HIDE DEF out, status
<1>3. /\ Steps(w, off, s, X, {a}, {}) /\ off.active = out.active /\ off.state = out.state
    <2>1. ~IsActive(out, a, s) /\ "Inactive" \in AspState
        BY <1>1 DEF IsActive, AspState
    <2> QED BY <1>1, <2>1, AspIsSteps
<1> HIDE DEF off
<1>4. off \in Working
    BY <1>3 DEF Steps
<1>5. /\ Steps(off, o, s, X, {}, IF status \in StateNotices THEN {a} ELSE {})
      /\ o.active = off.active /\ o.state = off.state
    BY <1>2, <1>4, NotifySteps
<1> HIDE DEF o
<1>6. Steps(off, o, s, X, {}, {})
    BY <1>2, <1>5
<1>7. Steps(w, o, s, X, {a} \cup {}, {} \cup {})
    BY <1>1, <1>3, <1>6, StepsInTurn
<1>8. Steps(w, o, s, X, {}, {})
    BY <1>7, StepsLess
<1> QED BY <1>1, <1>2, <1>3, <1>5, <1>8

\* The loop of Activate over those that are displaced.
LEMMA DisplaceLoop ==
    ASSUME NEW n, NEW asp, NEW s, NEW W, <<asp, s>> \notin n.active, asp \in Member[s],
           Displaced(n, asp, s) \in SUBSET Nat, IsFiniteSet(Displaced(n, asp, s)),
           AspIs([n EXCEPT !.active = @ \cup {<<asp, s>>}], asp, s, "Active") \in W[0],
           \A i \in 1 .. Len(InOrder(Displaced(n, asp, s))) : \A w \in W[i - 1] :
               Displace(w, InOrder(Displaced(n, asp, s))[i], s) \in W[i]
    PROVE  \E w \in W[Len(InOrder(Displaced(n, asp, s)))] :
               Activate(n, asp, s) =
                   Do(Evaluate(w, s), [do |-> "Activated", asp |-> asp, server |-> s])
<1> DEFINE on  == AspIs([n EXCEPT !.active = @ \cup {<<asp, s>>}], asp, s, "Active")
           off == InOrder(Displaced(n, asp, s))
           last == Len(off)
           Round(w, k) == Displace(w, off[k], s)
           Y == UNION {W[k] : k \in 0 .. last}
           step == [k \in 1 .. last |-> [w \in Y |-> Round(w, k)]]
           F == CHOOSE F : F = [k \in 0 .. last |->
                    IF k = 0 THEN on ELSE Round(F[k - 1], k)]
<1>0. last \in Nat
    <2> HIDE DEF off
    <2>1. off \in Seq(Displaced(n, asp, s))
        BY InOrderLists DEF off
    <2> QED BY <2>1
<1>1. Activate(n, asp, s) = Do(Evaluate(F[last], s), [do |-> "Activated", asp |-> asp, server |-> s])
    BY DEF Activate, Displace, Without
<1>2. \A k \in 1 .. last : \A w \in W[k - 1] : step[k][w] = Round(w, k)
    <2> HIDE DEF off, last
    <2> QED BY <1>0
<1> HIDE DEF step, F
<1> DEFINE f == Loop(last, W, on, step)
<1>3. IsLoop(f, last, W, on, step)
    <2>1. \A k \in 1 .. last : \A w \in W[k - 1] : step[k][w] \in W[k]
        BY <1>2
    <2> HIDE DEF on, last
    <2> QED BY <1>0, <2>1, LoopExists DEF on
<1> HIDE DEF f
<1>4. /\ f = [k \in 0 .. last |-> IF k = 0 THEN on ELSE step[k][f[k - 1]]]
      /\ \A k \in 0 .. last : f[k] \in W[k]
    BY <1>3 DEF IsLoop
<1>5. f = [k \in 0 .. last |-> IF k = 0 THEN on ELSE Round(f[k - 1], k)]
    <2> HIDE DEF on, off, last, Round
    <2>1. \A k \in 1 .. last : step[k][f[k - 1]] = Round(f[k - 1], k)
        BY <1>0, <1>2, <1>4
    <2>2. ASSUME NEW k \in 0 .. last, k # 0 PROVE step[k][f[k - 1]] = Round(f[k - 1], k)
        BY <1>0, <2>1, <2>2
    <2> QED BY <1>4, <2>2, Zenon
<1>6. F = [k \in 0 .. last |-> IF k = 0 THEN on ELSE Round(F[k - 1], k)]
    <2> HIDE DEF on, off, last, Round
    <2> QED BY <1>5, Zenon DEF F
<1> HIDE DEF on, off, last
<1>7. F[0] \in W[0]
    <2>1. F[0] = on
        BY <1>0, <1>6
    <2> QED BY <2>1 DEF on
<1>8. ASSUME NEW k \in 1 .. last, F[k - 1] \in W[k - 1] PROVE F[k] \in W[k]
    <2>1. F[k] = Round(F[k - 1], k)
        <3>1. k \in 0 .. last /\ k # 0
            BY <1>0
        <3> HIDE DEF Round
        <3> QED BY <1>6, <3>1, Zenon
    <2> QED BY <1>8, <2>1 DEF off, last
<1>9. F[last] \in W[last]
    BY <1>0, <1>7, <1>8, LoopStays
<1> QED BY <1>1, <1>9 DEF last, off

\* Activate for a server, which makes o of n.
Activation(n, o, asp, s) ==
    /\ Steps(n, o, s, {asp}, {}, {})
    /\ <<asp, s>> \in n.active \/ asp \notin Member[s] => o = n
    /\ <<asp, s>> \notin n.active /\ asp \in Member[s] =>
           /\ o.active = With(n, asp, s).active
           /\ o.state = [n.state EXCEPT ![s] = NextState(With(n, asp, s), s)]

\* An ASP becomes active in a server, which displaces the others where it is to.
LEMMA ActivateSteps ==
    ASSUME NEW n \in Working, NEW s \in Servers, NEW asp \in Asps, asp \in n.up
    PROVE  Activation(n, Activate(n, asp, s), asp, s)
<1>0. asp \in Asps
    OBVIOUS
<1>1. CASE <<asp, s>> \in n.active \/ asp \notin Member[s]
    <2>1. Activate(n, asp, s) = n
        BY <1>1 DEF Activate
    <2> QED BY <1>0, <1>1, <2>1, NoStep DEF Activation
<1>2. CASE <<asp, s>> \notin n.active /\ asp \in Member[s]
    <2> DEFINE T == Displaced(n, asp, s)
               off == InOrder(T)
               in == [n EXCEPT !.active = @ \cup {<<asp, s>>}]
               on == AspIs(in, asp, s, "Active")
               W == [i \in 0 .. Len(off) |->
                        {w \in Working : /\ Steps(n, w, s, {asp}, {asp}, {}) /\ w.state = n.state
                                         /\ w.active = (n.active \cup {<<asp, s>>})
                                                \ ({off[j] : j \in 1 .. i} \X {s})}]
    <2>1. T \in SUBSET Asps /\ T \in SUBSET Nat /\ IsFiniteSet(T) /\ asp \notin T
        BY LayoutFacts, FS_Subset DEF Displaced, ActiveIn
    <2> HIDE DEF T
    <2>2. /\ off \in Seq(T) /\ Len(off) \in Nat
          /\ \A a \in T : \E i \in 1 .. Len(off) : off[i] = a
        BY <2>1, InOrderLists
    <2> HIDE DEF off
    <2>3. \A i \in 1 .. Len(off) : off[i] \in T
        BY <2>2
    <2>4. /\ in \in Working /\ in.up = n.up /\ in.state = n.state /\ in.out = n.out
          /\ in.active = n.active \cup {<<asp, s>>}
        BY <1>0 DEF Working
    <2> HIDE DEF in
    <2>5. /\ Steps(n, on, s, {asp}, {asp}, {}) /\ on.active = in.active /\ on.state = in.state
        <3>1. IsActive(in, asp, s) /\ "Active" \in AspState
            BY <2>4 DEF IsActive, AspState
        <3> QED BY <1>0, <2>4, <3>1, AspIsSteps
    <2> HIDE DEF on
    <2>6. on \in W[0]
        <3>1. on \in Working
            BY <2>5 DEF Steps
        <3>2. {off[j] : j \in 1 .. 0} = {}
            OBVIOUS
        <3>3. on.active = (n.active \cup {<<asp, s>>}) \ ({off[j] : j \in 1 .. 0} \X {s})
            BY <2>4, <2>5, <3>2
        <3> QED BY <2>2, <2>4, <2>5, <3>1, <3>3
    <2>7. ASSUME NEW i \in 1 .. Len(off), NEW w \in W[i - 1]
          PROVE  Displace(w, off[i], s) \in W[i]
        <3> DEFINE o == Displace(w, off[i], s)
        <3>1. i - 1 \in 0 .. Len(off) /\ i \in 0 .. Len(off) /\ off[i] \in Asps
            <4>1. off[i] \in T
                BY <2>3
            <4>2. i - 1 \in 0 .. Len(off) /\ i \in 0 .. Len(off)
                BY <2>2
            <4> QED BY <2>1, <4>1, <4>2
        <3>2. /\ w \in Working /\ Steps(n, w, s, {asp}, {asp}, {}) /\ w.state = n.state
              /\ w.active = (n.active \cup {<<asp, s>>}) \ ({off[j] : j \in 1 .. i - 1} \X {s})
            BY <3>1
        <3>3. /\ Steps(w, o, s, {asp}, {}, {}) /\ o.active = w.active \ {<<off[i], s>>}
              /\ o.state = w.state
            <4> DEFINE a == off[i]
            <4>1. a \in Asps /\ {asp} \in SUBSET Asps
                BY <1>0, <3>1
            <4> HIDE DEF a
            <4>2. /\ Steps(w, Displace(w, a, s), s, {asp}, {}, {})
                  /\ Displace(w, a, s).active = w.active \ {<<a, s>>}
                  /\ Displace(w, a, s).state = w.state
                BY <3>2, <4>1, DisplaceSteps
            <4> QED BY <4>2 DEF a
        <3> HIDE DEF o, W
        <3>4. o \in Working /\ Steps(n, o, s, {asp}, {asp}, {})
            <4>1. Steps(n, o, s, {asp}, {asp} \cup {}, {} \cup {})
                BY <3>2, <3>3, StepsInTurn
            <4> QED BY <3>3, <4>1 DEF Steps
        <3>5. {off[j] : j \in 1 .. i} = {off[j] : j \in 1 .. i - 1} \cup {off[i]}
            BY <2>2
        <3>6. o.active = (n.active \cup {<<asp, s>>}) \ ({off[j] : j \in 1 .. i} \X {s})
            BY <3>2, <3>3, <3>5
        <3>7. o \in W[i]
            BY <3>1, <3>2, <3>3, <3>4, <3>6 DEF W
        <3> QED BY <3>7 DEF o
    <2> HIDE DEF W
    <2>8. PICK w \in W[Len(off)] :
              Activate(n, asp, s) = Do(Evaluate(w, s), [do |-> "Activated", asp |-> asp, server |-> s])
        BY <1>2, <2>1, <2>6, <2>7, DisplaceLoop DEF off, T, on, in
    <2>9. /\ w \in Working /\ Steps(n, w, s, {asp}, {asp}, {}) /\ w.state = n.state
          /\ w.active = (n.active \cup {<<asp, s>>}) \ (T \X {s})
        <3>1. {off[j] : j \in 1 .. Len(off)} = T
            BY <2>2, <2>3
        <3>2. Len(off) \in 0 .. Len(off)
            BY <2>2
        <3>3. /\ w \in Working /\ Steps(n, w, s, {asp}, {asp}, {}) /\ w.state = n.state
              /\ w.active = (n.active \cup {<<asp, s>>}) \ ({off[j] : j \in 1 .. Len(off)} \X {s})
            BY <3>2 DEF W
        <3> QED BY <3>1, <3>3
    <2>10. With(n, asp, s).active = w.active /\ With(n, asp, s).up = w.up /\ With(n, asp, s).state = w.state
        BY <2>9 DEF With, T, Working, Steps
    <2>11. NextState(w, s) = NextState(With(n, asp, s), s)
        BY <2>10, NextStateIsLocal DEF SameAt
    <2> DEFINE even == Evaluate(w, s)
               act == [do |-> "Activated", asp |-> asp, server |-> s]
               o == Do(even, act)
    <2>12. /\ Steps(w, even, s, {asp}, {}, {})
           /\ even.active = w.active /\ even.state = [n.state EXCEPT ![s] = NextState(w, s)]
        <3> DEFINE N == IF NextState(w, s) = w.state[s] THEN {} ELSE Asps
        <3>1. /\ Steps(w, even, s, {asp}, {}, N)
              /\ even.active = w.active /\ even.state = [w.state EXCEPT ![s] = NextState(w, s)]
            BY <1>0, <2>9, EvaluateSteps
        <3> HIDE DEF even, N
        <3>2. Steps(w, even, s, {asp}, {}, {})
            BY <3>1, StepsLess
        <3> QED BY <2>9, <3>1, <3>2
    <2> HIDE DEF even
    <2>13. even \in Working
        BY <2>12 DEF Steps
    <2>14. Steps(even, o, s, {asp}, {}, {}) /\ o.active = even.active /\ o.state = even.state
        BY <1>0, <2>13, ActivatedSteps
    <2> HIDE DEF o
    <2>15. Steps(n, even, s, {asp}, {asp}, {})
        <3>1. Steps(n, even, s, {asp}, {asp} \cup {}, {} \cup {})
            BY <2>9, <2>12, StepsInTurn
        <3> QED BY <3>1
    <2>16. Steps(n, o, s, {asp}, {}, {})
        <3>1. Steps(n, o, s, {asp}, {asp} \cup {}, {} \cup {})
            BY <2>14, <2>15, StepsInTurn
        <3> QED BY <3>1, StepsLess
    <2> QED BY <1>2, <2>8, <2>10, <2>11, <2>12, <2>14, <2>16 DEF o, even, act, Activation
<1> QED BY <1>1, <1>2

----------------------------------------------------------------------------
(* A whole input: a loop in which every server of S takes a step.          *)

\* Where the machine is after the servers 1 .. k, when it was v before them and
\* only had answers to send.  to[t] is what server t comes to.
Upto(v, S, k, X, F, N, to) ==
    {n \in Working :
        /\ n.up = v.up
        /\ \E more \in Seq(UNION {ActsOf(t, X) : t \in S}) : n.out = v.out \o more
        /\ \A t \in Servers :
              IF t <= k /\ t \in S
              THEN /\ Tells(n.out, v, n, t, F)
                   /\ Informs(n.out, v, n, t, N)
                   /\ n.state[t] = to[t].state
                   /\ \A a \in Asps : <<a, t>> \in n.active <=> a \in to[t].active
              ELSE SameAt(v, n, t) /\ Silent(n.out, t)}

\* Before the first server the loop has said nothing.
LEMMA UptoBegins ==
    ASSUME NEW v \in Working, v.out \in Seq(AnswerActs),
           NEW S \in SUBSET Servers, NEW X, NEW F, NEW N, NEW to
    PROVE  v \in Upto(v, S, 0, X, F, N, to)
<1>1. \A t \in Servers : SameAt(v, v, t) /\ Silent(v.out, t) /\ ~(t <= 0)
    BY AnswersApart, LayoutFacts DEF SameAt
<1>2. \E more \in Seq(UNION {ActsOf(t, X) : t \in S}) : v.out = v.out \o more
    <2> DEFINE A == UNION {ActsOf(t, X) : t \in S}
               out == v.out
    <2> HIDE DEF A
    <2>1. out \in Seq(AnswerActs)
        OBVIOUS
    <2> HIDE DEF out
    <2>2. <<>> \in Seq(A) /\ out = out \o <<>>
        BY <2>1
    <2> QED BY <2>2 DEF out, A
<1> QED BY <1>1, <1>2 DEF Upto

\* A step for the next server keeps what the loop made of the ones before it.
LEMMA UptoGoesOn ==
    ASSUME NEW v \in Working, NEW S \in SUBSET Servers, NEW X \in SUBSET Asps, NEW F, NEW N, NEW to,
           NEW k \in Servers, NEW n \in Upto(v, S, k - 1, X, F, N, to), NEW o,
           k \notin S => o = n,
           k \in S => /\ Steps(n, o, k, X, F, N)
                      /\ o.state[k] = to[k].state
                      /\ \A a \in Asps : <<a, k>> \in o.active <=> a \in to[k].active
    PROVE  o \in Upto(v, S, k, X, F, N, to)
<1>0. k \in Nat /\ \A t \in Servers : t \in Nat /\ (t <= k - 1 <=> t <= k /\ t # k)
    BY LayoutFacts
<1>1. CASE k \notin S
    <2>1. \A t \in Servers : t <= k - 1 /\ t \in S <=> t <= k /\ t \in S
        BY <1>0, <1>1
    <2> QED BY <1>1, <2>1 DEF Upto
<1>2. CASE k \in S
    <2>0. n \in Working /\ o \in Working /\ n.up = v.up /\ o.up = n.up
        BY <1>2 DEF Upto, Steps
    <2>1. PICK more \in Seq(ActsOf(k, X)) :
              /\ o.out = n.out \o more
              /\ Tells(more, n, o, k, F) /\ Informs(more, n, o, k, N)
        BY <1>2 DEF Steps
    <2>2. n.out \in Seq(Action) /\ more \in Seq(Action)
        <3>1. \A i \in 1 .. Len(more) : more[i] \in Action
            <4>1. \A i \in 1 .. Len(more) : more[i] \in ActsOf(k, X)
                OBVIOUS
            <4> QED BY <4>1, ActsAreActions
        <3> QED BY <2>0, <3>1 DEF Working
    <2>3. /\ \A s, q : SeenState(o.out, s, q) = SeenState(more, s, SeenState(n.out, s, q))
          /\ \A a, s, q : /\ SeenActive(o.out, a, s, q) = SeenActive(more, a, s, SeenActive(n.out, a, s, q))
                          /\ SeenNotice(o.out, a, s, q) = SeenNotice(more, a, s, SeenNotice(n.out, a, s, q))
        <3> DEFINE out == n.out
        <3> HIDE DEF out
        <3>1. out \in Seq(Action) /\ o.out = out \o more
            BY <2>1, <2>2 DEF out
        <3>2. \A a, s, q : /\ SeenState(out \o more, s, q) = SeenState(more, s, SeenState(out, s, q))
                           /\ SeenActive(out \o more, a, s, q) = SeenActive(more, a, s, SeenActive(out, a, s, q))
                           /\ SeenNotice(out \o more, a, s, q) = SeenNotice(more, a, s, SeenNotice(out, a, s, q))
            BY <2>2, <3>1, SeenInTurn
        <3> QED BY <3>1, <3>2 DEF out
    <2>4. \A K : Has(o.out, K) <=> Has(n.out, K) \/ Has(more, K)
        <3> DEFINE out == n.out
        <3> HIDE DEF out
        <3>1. out \in Seq(Action) /\ o.out = out \o more
            BY <2>1, <2>2 DEF out
        <3>2. \A K : Has(out \o more, K) <=> Has(out, K) \/ Has(more, K)
            BY <2>2, <3>1, LastOfConcat
        <3> QED BY <3>1, <3>2 DEF out
    <2>5. \E all \in Seq(UNION {ActsOf(t, X) : t \in S}) : o.out = v.out \o all
        <3> DEFINE A == UNION {ActsOf(t, X) : t \in S}
                   out == v.out
        <3>1. ActsOf(k, X) \subseteq A
            BY <1>2
        <3> HIDE DEF A
        <3>2. PICK some \in Seq(A) : n.out = out \o some
            BY DEF Upto, A
        <3>3. out \in Seq(Action)
            BY DEF Working
        <3>4. more \in Seq(A)
            <4>1. \A i \in 1 .. Len(more) : more[i] \in ActsOf(k, X)
                OBVIOUS
            <4> QED BY <3>1, <4>1
        <3> HIDE DEF out
        <3>5. (out \o some) \o more = out \o (some \o more) /\ some \o more \in Seq(A)
            BY <3>3, <3>4, ConcatIsAssociative
        <3> QED BY <2>1, <3>2, <3>5 DEF A, out
    <2>6. ASSUME NEW t \in Servers, t # k, t <= k, t \in S
          PROVE  /\ Tells(o.out, v, o, t, F) /\ Informs(o.out, v, o, t, N)
                 /\ o.state[t] = to[t].state
                 /\ \A a \in Asps : <<a, t>> \in o.active <=> a \in to[t].active
        <3>1. Silent(more, t)
            BY <2>6, ActsApart
        <3>2. SameAt(n, o, t)
            BY <1>2, <2>6 DEF Steps
        <3>3. /\ Tells(n.out, v, n, t, F) /\ Informs(n.out, v, n, t, N)
              /\ n.state[t] = to[t].state
              /\ \A a \in Asps : <<a, t>> \in n.active <=> a \in to[t].active
            BY <1>0, <2>6 DEF Upto
        <3>4. \A q : SeenState(o.out, t, q) = SeenState(n.out, t, q)
            BY <2>3, <3>1, SilenceSaysNothing
        <3>5. \A a, q : SeenActive(o.out, a, t, q) = SeenActive(n.out, a, t, q)
            BY <2>3, <3>1, SilenceSaysNothing
        <3>6. \A a, q : SeenNotice(o.out, a, t, q) = SeenNotice(n.out, a, t, q)
            BY <2>3, <3>1, SilenceSaysNothing
        <3>7. /\ UpIn(o, t) = UpIn(n, t)
              /\ \A a \in Asps : IsActive(o, a, t) = IsActive(n, a, t)
            BY <2>0, <3>2, NextStateIsLocal
        <3>8. /\ Has(o.out, StopActs(t)) <=> Has(n.out, StopActs(t))
              /\ Has(o.out, StartActs(t)) <=> Has(n.out, StartActs(t))
            BY <2>4, <3>1 DEF Silent
        <3>9. o.state[t] = n.state[t]
            BY <3>2 DEF SameAt
        <3>10. Tells(o.out, v, o, t, F)
            BY <3>3, <3>4, <3>5, <3>7, <3>8, <3>9 DEF Tells
        <3>11. Informs(o.out, v, o, t, N)
            BY <3>3, <3>6, <3>7, <3>9 DEF Informs
        <3> QED BY <3>2, <3>3, <3>10, <3>11 DEF SameAt
    <2>7. ASSUME NEW t \in Servers, ~(t <= k /\ t \in S)
          PROVE  SameAt(v, o, t) /\ Silent(o.out, t)
        <3>0. t # k /\ ~(t <= k - 1 /\ t \in S)
            BY <1>0, <1>2, <2>7
        <3>1. Silent(more, t)
            BY <3>0, ActsApart
        <3>2. SameAt(n, o, t)
            BY <1>2, <3>0 DEF Steps
        <3>3. SameAt(v, n, t) /\ Silent(n.out, t)
            BY <3>0 DEF Upto
        <3> QED BY <2>4, <3>1, <3>2, <3>3 DEF Silent, SameAt
    <2>8. /\ Tells(o.out, v, o, k, F) /\ Informs(o.out, v, o, k, N)
          /\ o.state[k] = to[k].state
          /\ \A a \in Asps : <<a, k>> \in o.active <=> a \in to[k].active
        <3>1. SameAt(v, n, k) /\ Silent(n.out, k)
            <4>1. ~(k <= k - 1 /\ k \in S)
                BY <1>0
            <4> QED BY <4>1 DEF Upto
        <3>2. n.state[k] = v.state[k] /\ \A a \in Asps : IsActive(n, a, k) = IsActive(v, a, k)
            <4>1. n.state[k] = v.state[k]
                BY <3>1 DEF SameAt
            <4>2. \A a \in Asps : IsActive(n, a, k) = IsActive(v, a, k)
                BY <2>0, <3>1, NextStateIsLocal
            <4> QED BY <4>1, <4>2
        <3>3. \A q : SeenState(o.out, k, q) = SeenState(more, k, q)
            BY <2>3, <3>1, SilenceSaysNothing
        <3>4. \A a, q : SeenActive(o.out, a, k, q) = SeenActive(more, a, k, q)
            BY <2>3, <3>1, SilenceSaysNothing
        <3>5. \A a, q : SeenNotice(o.out, a, k, q) = SeenNotice(more, a, k, q)
            BY <2>3, <3>1, SilenceSaysNothing
        <3>6. /\ Has(o.out, StopActs(k)) <=> Has(more, StopActs(k))
              /\ Has(o.out, StartActs(k)) <=> Has(more, StartActs(k))
            BY <2>4, <3>1 DEF Silent
        <3>7. Tells(o.out, v, o, k, F)
            BY <2>1, <3>2, <3>3, <3>4, <3>6 DEF Tells
        <3>8. Informs(o.out, v, o, k, N)
            BY <2>1, <3>2, <3>5 DEF Informs
        <3> QED BY <1>2, <3>7, <3>8
    <2> QED BY <1>2, <2>0, <2>5, <2>6, <2>7, <2>8 DEF Upto
<1> QED BY <1>1, <1>2

\* What every server of S comes to when its ASPs are those of v.
Resettled(v) ==
    [t \in Servers |-> [state  |-> NextState(v, t),
                        active |-> {a \in Asps : <<a, t>> \in v.active}]]

\* TakeDown is a loop of such steps.
LEMMA TakeDownIsLoop ==
    ASSUME NEW m \in Working, m.out \in Seq(AnswerActs), NEW asp \in m.up, NEW failed
    PROVE  /\ Left(m, asp) \in Working
           /\ TakeDown(m, asp, failed) \in
                 Upto(Left(m, asp), ServersOf(asp), LastServer, {}, {asp}, {}, Resettled(Left(m, asp)))
<1> DEFINE v == Left(m, asp)
           S == ServersOf(asp)
           to == Resettled(v)
           W == [k \in 0 .. LastServer |-> Upto(v, S, k, {}, {asp}, {}, to)]
<1>1. /\ v \in Working /\ v.out \in Seq(AnswerActs) /\ asp \in Asps /\ asp \notin v.up
      /\ S \in SUBSET Servers
    BY DEF Working, Left, ServersOf
<1>2. LastServer \in Nat /\ Servers = 1 .. LastServer /\ {} \in SUBSET Asps
    BY LayoutFacts
<1> HIDE DEF S, to
<1>3. v \in W[0]
    <2> HIDE DEF v
    <2>1. v \in Upto(v, S, 0, {}, {asp}, {}, to)
        BY <1>1, UptoBegins
    <2> QED BY <1>2, <2>1
<1>4. ASSUME NEW k \in Servers, NEW n \in W[k - 1]
      PROVE  (IF k \in S THEN TakeDownIn(n, asp, failed, k) ELSE n) \in W[k]
    <2> DEFINE o == IF k \in S THEN TakeDownIn(n, asp, failed, k) ELSE n
    <2> HIDE DEF v
    <2>1. k - 1 \in 0 .. LastServer /\ k \in 0 .. LastServer
        BY <1>2
    <2>2. n \in Upto(v, S, k - 1, {}, {asp}, {}, to)
        BY <2>1
    <2>3. k \in S => /\ Steps(n, o, k, {}, {asp}, {})
                     /\ o.state[k] = to[k].state
                     /\ \A a \in Asps : <<a, k>> \in o.active <=> a \in to[k].active
        <3> SUFFICES ASSUME k \in S
                     PROVE  /\ Steps(n, o, k, {}, {asp}, {})
                            /\ o.state[k] = to[k].state
                            /\ \A a \in Asps : <<a, k>> \in o.active <=> a \in to[k].active
            OBVIOUS
        <3>1. n \in Working /\ n.up = v.up
            BY <2>2 DEF Upto
        <3>2. SameAt(v, n, k)
            <4>1. ~(k <= k - 1 /\ k \in S)
                BY <1>2
            <4> QED BY <2>2, <4>1 DEF Upto
        <3>3. /\ Steps(n, o, k, {}, {asp}, {}) /\ o.active = n.active
              /\ o.state = [n.state EXCEPT ![k] = NextState(n, k)]
            <4>1. asp \notin n.up /\ asp \in Asps /\ n \in Working /\ o = TakeDownIn(n, asp, failed, k)
                BY <1>1, <3>1
            <4>2. LET r == TakeDownIn(n, asp, failed, k)
                  IN  /\ Steps(n, r, k, {}, {asp}, {}) /\ r.active = n.active
                      /\ r.state = [n.state EXCEPT ![k] = NextState(n, k)]
                <5> HIDE DEF o, W
                <5> QED BY <4>1, TakeDownInSteps
            <4> HIDE DEF o
            <4> QED BY <4>1, <4>2
        <3> HIDE DEF o
        <3>4. NextState(n, k) = NextState(v, k)
            BY <3>1, <3>2, NextStateIsLocal
        <3>5. o.state[k] = to[k].state
            BY <3>1, <3>3, <3>4 DEF Working, to, Resettled
        <3>6. \A a \in Asps : <<a, k>> \in o.active <=> a \in to[k].active
            BY <3>2, <3>3 DEF SameAt, to, Resettled
        <3> QED BY <3>3, <3>5, <3>6
    <2>4. k \notin S => o = n
        OBVIOUS
    <2> HIDE DEF o
    <2>5. o \in Upto(v, S, k, {}, {asp}, {}, to)
        BY <1>1, <1>2, <2>2, <2>3, <2>4, UptoGoesOn
    <2> QED BY <2>1, <2>5 DEF o
<1> HIDE DEF W
<1>5. TakeDown(m, asp, failed) \in W[LastServer]
    BY <1>3, <1>4, TakeDownLoop DEF S, v
<1> QED BY <1>1, <1>2, <1>5 DEF W, S, to, v

\* BringUp is a loop of such steps.
LEMMA BringUpIsLoop ==
    ASSUME NEW m \in Working, m.out \in Seq(AnswerActs), NEW asp \in Asps \ m.up,
           \A t \in Servers : <<asp, t>> \notin m.active
    PROVE  /\ Come(m, asp) \in Working
           /\ BringUp(m, asp) \in
                 Upto(Come(m, asp), ServersOf(asp), LastServer, {}, {asp}, {asp}, Resettled(Come(m, asp)))
<1> DEFINE v == Come(m, asp)
           S == ServersOf(asp)
           to == Resettled(v)
           W == [k \in 0 .. LastServer |-> Upto(v, S, k, {}, {asp}, {asp}, to)]
<1>1. /\ v \in Working /\ v.out \in Seq(AnswerActs)
      /\ \A t \in Servers : <<asp, t>> \notin v.active
      /\ S \in SUBSET Servers
    BY DEF Working, Come, ServersOf
<1>2. LastServer \in Nat /\ Servers = 1 .. LastServer /\ {} \in SUBSET Asps
    BY LayoutFacts
<1> HIDE DEF S, to
<1>3. v \in W[0]
    <2> HIDE DEF v
    <2>1. v \in Upto(v, S, 0, {}, {asp}, {asp}, to)
        BY <1>1, UptoBegins
    <2> QED BY <1>2, <2>1
<1>4. ASSUME NEW k \in Servers, NEW n \in W[k - 1]
      PROVE  (IF k \in S THEN BringUpIn(n, asp, k) ELSE n) \in W[k]
    <2> DEFINE o == IF k \in S THEN BringUpIn(n, asp, k) ELSE n
    <2> HIDE DEF v
    <2>1. k - 1 \in 0 .. LastServer /\ k \in 0 .. LastServer
        BY <1>2
    <2>2. n \in Upto(v, S, k - 1, {}, {asp}, {asp}, to)
        BY <2>1
    <2>3. k \in S => /\ Steps(n, o, k, {}, {asp}, {asp})
                     /\ o.state[k] = to[k].state
                     /\ \A a \in Asps : <<a, k>> \in o.active <=> a \in to[k].active
        <3> SUFFICES ASSUME k \in S
                     PROVE  /\ Steps(n, o, k, {}, {asp}, {asp})
                            /\ o.state[k] = to[k].state
                            /\ \A a \in Asps : <<a, k>> \in o.active <=> a \in to[k].active
            OBVIOUS
        <3>1. n \in Working /\ n.up = v.up
            BY <2>2 DEF Upto
        <3>2. SameAt(v, n, k)
            <4>1. ~(k <= k - 1 /\ k \in S)
                BY <1>2
            <4> QED BY <2>2, <4>1 DEF Upto
        <3>3. <<asp, k>> \notin n.active
            BY <1>1, <3>2 DEF SameAt
        <3>4. /\ Steps(n, o, k, {}, {asp}, {asp}) /\ o.active = n.active
              /\ o.state = [n.state EXCEPT ![k] = NextState(n, k)]
            BY <3>1, <3>3, BringUpInSteps
        <3> HIDE DEF o
        <3>5. NextState(n, k) = NextState(v, k)
            BY <3>1, <3>2, NextStateIsLocal
        <3>6. o.state[k] = to[k].state
            BY <3>1, <3>4, <3>5 DEF Working, to, Resettled
        <3>7. \A a \in Asps : <<a, k>> \in o.active <=> a \in to[k].active
            BY <3>2, <3>4 DEF SameAt, to, Resettled
        <3> QED BY <3>4, <3>6, <3>7
    <2>4. k \notin S => o = n
        OBVIOUS
    <2> HIDE DEF o
    <2>5. o \in Upto(v, S, k, {}, {asp}, {asp}, to)
        BY <1>1, <1>2, <2>2, <2>3, <2>4, UptoGoesOn
    <2> QED BY <2>1, <2>5 DEF o
<1> HIDE DEF W
<1>5. BringUp(m, asp) \in W[LastServer]
    BY <1>3, <1>4, BringUpLoop DEF S, v
<1> QED BY <1>1, <1>2, <1>5 DEF W, S, to, v

\* What a server comes to when an ASP becomes inactive, or active, in it.
AfterDeactivate(m, asp) ==
    [t \in Servers |->
        IF IsActive(m, asp, t)
        THEN [state  |-> NextState(Without(m, asp, t), t),
              active |-> {a \in Asps : <<a, t>> \in m.active} \ {asp}]
        ELSE [state |-> m.state[t], active |-> {a \in Asps : <<a, t>> \in m.active}]]

AfterActivate(m, asp) ==
    [t \in Servers |->
        IF <<asp, t>> \notin m.active /\ asp \in Member[t]
        THEN [state  |-> NextState(With(m, asp, t), t),
              active |-> {a \in Asps : <<a, t>> \in With(m, asp, t).active}]
        ELSE [state |-> m.state[t], active |-> {a \in Asps : <<a, t>> \in m.active}]]

\* Deactivating an ASP is a loop of such steps.
LEMMA DeactivateIsLoop ==
    ASSUME NEW v \in Working, v.out \in Seq(AnswerActs), NEW asp \in Asps, NEW S \in SUBSET Servers
    PROVE  DeactivateIn(v, asp, S) \in
               Upto(v, S, LastServer, {}, {}, {}, AfterDeactivate(v, asp))
<1> DEFINE to == AfterDeactivate(v, asp)
           W == [k \in 0 .. LastServer |-> Upto(v, S, k, {}, {}, {}, to)]
<1>2. LastServer \in Nat /\ Servers = 1 .. LastServer /\ {} \in SUBSET Asps
    BY LayoutFacts
<1> HIDE DEF to
<1>3. v \in W[0]
    <2>1. v \in Upto(v, S, 0, {}, {}, {}, to)
        BY UptoBegins
    <2> QED BY <1>2, <2>1
<1>4. ASSUME NEW k \in Servers, NEW n \in W[k - 1]
      PROVE  (IF k \in S THEN Deactivate(n, asp, k) ELSE n) \in W[k]
    <2> DEFINE o == IF k \in S THEN Deactivate(n, asp, k) ELSE n
    <2>1. k - 1 \in 0 .. LastServer /\ k \in 0 .. LastServer
        BY <1>2
    <2>2. n \in Upto(v, S, k - 1, {}, {}, {}, to)
        BY <2>1
    <2>3. k \in S => /\ Steps(n, o, k, {}, {}, {})
                     /\ o.state[k] = to[k].state
                     /\ \A a \in Asps : <<a, k>> \in o.active <=> a \in to[k].active
        <3> SUFFICES ASSUME k \in S
                     PROVE  /\ Steps(n, o, k, {}, {}, {})
                            /\ o.state[k] = to[k].state
                            /\ \A a \in Asps : <<a, k>> \in o.active <=> a \in to[k].active
            OBVIOUS
        <3>1. n \in Working /\ n.up = v.up
            BY <2>2 DEF Upto
        <3>2. SameAt(v, n, k)
            <4>1. ~(k <= k - 1 /\ k \in S)
                BY <1>2
            <4> QED BY <2>2, <4>1 DEF Upto
        <3>3. /\ Steps(n, o, k, {}, {}, {})
              /\ ~IsActive(n, asp, k) => o = n
              /\ IsActive(n, asp, k) =>
                     /\ o.active = n.active \ {<<asp, k>>}
                     /\ o.state = [n.state EXCEPT ![k] = NextState(Without(n, asp, k), k)]
            BY <3>1, DeactivateSteps
        <3> HIDE DEF o
        <3>4. IsActive(n, asp, k) = IsActive(v, asp, k)
            BY <3>1, <3>2, NextStateIsLocal
        <3>5. CASE ~IsActive(n, asp, k)
            BY <3>2, <3>3, <3>4, <3>5 DEF SameAt, to, AfterDeactivate
        <3>6. CASE IsActive(n, asp, k)
            <4>1. Without(n, asp, k).up = Without(v, asp, k).up
                BY <3>1 DEF Without, Working
            <4>2. SameAt(Without(v, asp, k), Without(n, asp, k), k)
                BY <3>1, <3>2 DEF Without, SameAt, Working
            <4>3. NextState(Without(n, asp, k), k) = NextState(Without(v, asp, k), k)
                BY <4>1, <4>2, NextStateIsLocal
            <4>4. o.state[k] = to[k].state
                BY <3>1, <3>3, <3>4, <3>6, <4>3 DEF Working, to, AfterDeactivate
            <4>5. \A a \in Asps : <<a, k>> \in o.active <=> a \in to[k].active
                BY <3>2, <3>3, <3>4, <3>6 DEF SameAt, to, AfterDeactivate
            <4> QED BY <3>3, <4>4, <4>5
        <3> QED BY <3>5, <3>6
    <2>4. k \notin S => o = n
        OBVIOUS
    <2> HIDE DEF o
    <2>5. o \in Upto(v, S, k, {}, {}, {}, to)
        BY <1>2, <2>2, <2>3, <2>4, UptoGoesOn
    <2> QED BY <2>1, <2>5 DEF o
<1> HIDE DEF W
<1>5. DeactivateIn(v, asp, S) \in W[LastServer]
    BY <1>3, <1>4, DeactivateLoop
<1> QED BY <1>2, <1>5 DEF W, to

\* Activating an ASP is a loop of such steps.
LEMMA ActivateIsLoop ==
    ASSUME NEW v \in Working, v.out \in Seq(AnswerActs), NEW asp \in v.up, NEW S \in SUBSET Servers
    PROVE  ActivateIn(v, asp, S) \in
               Upto(v, S, LastServer, {asp}, {}, {}, AfterActivate(v, asp))
<1> DEFINE to == AfterActivate(v, asp)
           W == [k \in 0 .. LastServer |-> Upto(v, S, k, {asp}, {}, {}, to)]
<1>2. LastServer \in Nat /\ Servers = 1 .. LastServer /\ {asp} \in SUBSET Asps
    BY LayoutFacts DEF Working
<1> HIDE DEF to
<1>3. v \in W[0]
    <2>1. v \in Upto(v, S, 0, {asp}, {}, {}, to)
        BY UptoBegins
    <2> QED BY <1>2, <2>1
<1>4. ASSUME NEW k \in Servers, NEW n \in W[k - 1]
      PROVE  (IF k \in S THEN Activate(n, asp, k) ELSE n) \in W[k]
    <2> DEFINE o == IF k \in S THEN Activate(n, asp, k) ELSE n
    <2>1. k - 1 \in 0 .. LastServer /\ k \in 0 .. LastServer
        BY <1>2
    <2>2. n \in Upto(v, S, k - 1, {asp}, {}, {}, to)
        BY <2>1
    <2>3. k \in S => /\ Steps(n, o, k, {asp}, {}, {})
                     /\ o.state[k] = to[k].state
                     /\ \A a \in Asps : <<a, k>> \in o.active <=> a \in to[k].active
        <3> SUFFICES ASSUME k \in S
                     PROVE  /\ Steps(n, o, k, {asp}, {}, {})
                            /\ o.state[k] = to[k].state
                            /\ \A a \in Asps : <<a, k>> \in o.active <=> a \in to[k].active
            OBVIOUS
        <3>1. n \in Working /\ n.up = v.up
            BY <2>2 DEF Upto
        <3>2. SameAt(v, n, k)
            <4>1. ~(k <= k - 1 /\ k \in S)
                BY <1>2
            <4> QED BY <2>2, <4>1 DEF Upto
        <3>3. /\ Steps(n, o, k, {asp}, {}, {})
              /\ <<asp, k>> \in n.active \/ asp \notin Member[k] => o = n
              /\ <<asp, k>> \notin n.active /\ asp \in Member[k] =>
                     /\ o.active = With(n, asp, k).active
                     /\ o.state = [n.state EXCEPT ![k] = NextState(With(n, asp, k), k)]
            <4>1. asp \in Asps /\ asp \in n.up /\ n \in Working /\ o = Activate(n, asp, k)
                BY <1>2, <3>1
            <4>2. Activation(n, Activate(n, asp, k), asp, k)
                <5> HIDE DEF o, W
                <5> QED BY <4>1, ActivateSteps
            <4> HIDE DEF o
            <4> QED BY <4>1, <4>2 DEF Activation
        <3> HIDE DEF o
        <3>4. (<<asp, k>> \in n.active) = (<<asp, k>> \in v.active)
            BY <1>2, <3>2 DEF SameAt
        <3>5. CASE <<asp, k>> \in n.active \/ asp \notin Member[k]
            BY <3>2, <3>3, <3>4, <3>5 DEF SameAt, to, AfterActivate
        <3>6. CASE <<asp, k>> \notin n.active /\ asp \in Member[k]
            <4>0. Displaced(n, asp, k) = Displaced(v, asp, k)
                <5>1. ActiveIn(n, k) = ActiveIn(v, k)
                    BY <3>1, <3>2, NextStateIsLocal
                <5> QED BY <5>1 DEF Displaced
            <4>1. With(n, asp, k).up = With(v, asp, k).up
                BY <3>1 DEF With, Working
            <4>2. SameAt(With(v, asp, k), With(n, asp, k), k)
                BY <3>1, <3>2, <4>0 DEF With, SameAt, Working
            <4>3. NextState(With(n, asp, k), k) = NextState(With(v, asp, k), k)
                BY <4>1, <4>2, NextStateIsLocal
            <4>4. o.state[k] = to[k].state
                BY <3>1, <3>3, <3>4, <3>6, <4>3 DEF Working, to, AfterActivate
            <4>5. \A a \in Asps : <<a, k>> \in o.active <=> a \in to[k].active
                BY <3>3, <3>4, <3>6, <4>2 DEF SameAt, to, AfterActivate
            <4> QED BY <3>3, <4>4, <4>5
        <3> QED BY <3>5, <3>6
    <2>4. k \notin S => o = n
        OBVIOUS
    <2> HIDE DEF o
    <2>5. o \in Upto(v, S, k, {asp}, {}, {}, to)
        BY <1>2, <2>2, <2>3, <2>4, UptoGoesOn
    <2> QED BY <2>1, <2>5 DEF o
<1> HIDE DEF W
<1>5. ActivateIn(v, asp, S) \in W[LastServer]
    BY <1>3, <1>4, ActivateLoop
<1> QED BY <1>2, <1>5 DEF W, to

----------------------------------------------------------------------------
(* What an input does, from the machine b before it to o with its actions. *)

\* An ASP is active only where it belongs, and while it is up; no server waits
\* for T(r) with an active ASP.
Sound(m) ==
    /\ m \in Working
    /\ \A a \in Asps, t \in Servers : <<a, t>> \in m.active => a \in m.up /\ a \in Member[t]
    /\ \A t \in Servers : m.state[t] = "Pending" => ActiveIn(m, t) = {}

\* Who performs the actions knows of server t what the machine does, and so do
\* its ASPs, when they did before.
Reports(b, o, t) ==
    /\ SeenState(o.out, t, b.state[t]) = o.state[t]
    /\ \A a \in Asps : SeenActive(o.out, a, t, IsActive(b, a, t)) = IsActive(o, a, t)
    /\ \A a \in UpIn(o, t) \cap Gateway : \A q :
           /\ q = b.state[t] \/ b.state[t] = "Down" \/ a \notin b.up
           /\ o.state[t] # "Down"
           => SeenNotice(o.out, a, t, q) = o.state[t]

\* The timer of server t is started and stopped as it goes pending and leaves.
Timed(b, o, t) ==
    /\ Has(o.out, StopActs(t)) <=> b.state[t] = "Pending" /\ o.state[t] # "Pending"
    /\ Has(o.out, StartActs(t)) <=> b.state[t] # "Pending" /\ o.state[t] = "Pending"

\* Nothing happens to server t, or one of its ASPs changes its state and the
\* state of the server follows.
Arrow(b, o, t) ==
    \/ /\ \A a \in Member[t] : AspStateIn(o, a, t) = AspStateIn(b, a, t)
       /\ o.state[t] = b.state[t]
    \/ \E a \in Member[t] : \E new \in AspState \ {AspStateIn(b, a, t)} :
          /\ new = "Active" => AspStateIn(b, a, t) = "Inactive"
          /\ \A c \in Member[t] :
                AspStateIn(o, c, t) =
                    IF c = a THEN new
                    ELSE IF /\ Mode[t] = "Override" /\ new = "Active"
                            /\ AspStateIn(b, c, t) = "Active"
                    THEN "Inactive" ELSE AspStateIn(b, c, t)
          /\ o.state[t] = NextState([o EXCEPT !.state = b.state], t)

\* The acknowledgements that ASP asp is active in server t.
AckActs(asp, t) == {act \in AnswerActs : /\ act.asp = asp /\ act.message = "ActiveAck"
                                         /\ t \in act.about}

\* Only asp becomes active, and is acknowledged first.
Acked(o, asp, t) ==
    /\ \A a \in Asps : Has(o.out, ActiveActs({a}, t)) => a = asp
    /\ asp \in Gateway => Before(o.out, ActiveActs(Asps, t), AckActs(asp, t))

Carried(b, o, asp) ==
    /\ Sound(o)
    /\ \A t \in Servers : Reports(b, o, t) /\ Timed(b, o, t) /\ Arrow(b, o, t) /\ Acked(o, asp, t)

\* The loop starts from v, which differs from b in what asp is.
Prepared(b, v, asp, S, F, N) ==
    /\ b \in Working /\ v \in Working /\ asp \in Asps /\ S \subseteq ServersOf(asp)
    /\ v.state = b.state
    /\ \A a \in Asps, t \in Servers : a # asp \/ t \notin S \/ asp \notin F =>
           IsActive(v, a, t) = IsActive(b, a, t)
    /\ \A a \in v.up : a \in b.up \/ (a = asp /\ asp \in N /\ S = ServersOf(asp))

\* At its end the loop has reported all it did.
LEMMA UptoReports ==
    ASSUME NEW b, NEW v, NEW asp, NEW S, NEW X, NEW F, NEW N, NEW to,
           Prepared(b, v, asp, S, F, N), NEW o \in Upto(v, S, LastServer, X, F, N, to)
    PROVE  \A t \in Servers : Reports(b, o, t) /\ Timed(b, o, t)
<1> USE DEF Prepared
<1> SUFFICES ASSUME NEW t \in Servers PROVE Reports(b, o, t) /\ Timed(b, o, t)
    OBVIOUS
<1>0. o \in Working /\ o.up = v.up /\ t <= LastServer
    BY LayoutFacts DEF Upto
<1>1. CASE t \in S
    <2>1. Tells(o.out, v, o, t, F) /\ Informs(o.out, v, o, t, N)
        BY <1>0, <1>1 DEF Upto
    <2>2. SeenState(o.out, t, b.state[t]) = o.state[t]
        BY <2>1 DEF Tells
    <2>3. ASSUME NEW a \in Asps
          PROVE  SeenActive(o.out, a, t, IsActive(b, a, t)) = IsActive(o, a, t)
        <3>1. a \in F \/ IsActive(b, a, t) = IsActive(v, a, t)
            OBVIOUS
        <3> QED BY <2>1, <3>1 DEF Tells
    <2>4. ASSUME NEW a \in UpIn(o, t) \cap Gateway, NEW q,
                 q = b.state[t] \/ b.state[t] = "Down" \/ a \notin b.up,
                 o.state[t] # "Down"
          PROVE  SeenNotice(o.out, a, t, q) = o.state[t]
        <3>1. a \in v.up
            BY <1>0 DEF UpIn
        <3>2. a \in N \/ q = v.state[t] \/ v.state[t] = "Down"
            BY <2>4, <3>1
        <3> QED BY <2>1, <2>4, <3>2 DEF Informs
    <2>5. Timed(b, o, t)
        BY <2>1 DEF Tells, Timed
    <2> QED BY <2>2, <2>3, <2>4, <2>5 DEF Reports
<1>2. CASE t \notin S
    <2>1. SameAt(v, o, t) /\ Silent(o.out, t)
        BY <1>2 DEF Upto
    <2>2. o.state[t] = b.state[t]
        BY <2>1 DEF SameAt
    <2>3. \A a \in Asps : IsActive(o, a, t) = IsActive(b, a, t)
        BY <1>0, <1>2, <2>1, NextStateIsLocal
    <2>4. /\ \A q : SeenState(o.out, t, q) = q
          /\ \A a, q : SeenActive(o.out, a, t, q) = q /\ SeenNotice(o.out, a, t, q) = q
        BY <2>1, SilenceSaysNothing
    <2>5. Timed(b, o, t)
        BY <2>1, <2>2 DEF Silent, Timed
    <2>6. ASSUME NEW a \in UpIn(o, t) \cap Gateway, NEW q,
                 q = b.state[t] \/ b.state[t] = "Down" \/ a \notin b.up,
                 o.state[t] # "Down"
          PROVE  SeenNotice(o.out, a, t, q) = o.state[t]
        <3>1. a \in v.up /\ a \in Member[t]
            BY <1>0 DEF UpIn
        <3>2. a \in b.up
            BY <1>2, <3>1 DEF ServersOf
        <3> QED BY <2>2, <2>4, <2>6, <3>2
    <2> QED BY <2>2, <2>3, <2>4, <2>5, <2>6 DEF Reports
<1> QED BY <1>1, <1>2

\* At its end the loop made only those active that it was to, after what came before it.
LEMMA UptoAcked ==
    ASSUME NEW v \in Working, v.out \in Seq(AnswerActs), NEW asp \in Asps, NEW S \in SUBSET Servers,
           NEW X \in SUBSET {asp}, NEW F, NEW N, NEW to,
           NEW o \in Upto(v, S, LastServer, X, F, N, to),
           X # {} /\ asp \in Gateway => \A t \in S : Has(v.out, AckActs(asp, t))
    PROVE  \A t \in Servers : Acked(o, asp, t)
<1> SUFFICES ASSUME NEW t \in Servers PROVE Acked(o, asp, t)
    OBVIOUS
<1> DEFINE A == UNION {ActsOf(s, X) : s \in S}
           out == v.out
<1>1. PICK more \in Seq(A) : o.out = out \o more
    BY DEF Upto
<1>2. ASSUME NEW act \in AnswerActs, NEW a PROVE act \notin ActiveActs({a}, t) /\ act \notin ActiveActs(Asps, t)
    BY DEF AnswerActs, ActiveActs
<1>3. ASSUME NEW act \in A, NEW a \in Asps, act \in ActiveActs({a}, t)
      PROVE  a \in X /\ t \in S
    <2>1. PICK s \in S : act \in ActsOf(s, X)
        OBVIOUS
    <2>2. act.do = "Asp" /\ act.asp = a /\ act.server = t /\ act.state = "Active"
        BY <1>3 DEF ActiveActs
    <2>3. act \in ActiveActs(X, s)
        BY <2>1, <2>2 DEF ActsOf, NotifyActs, ServerActs, StartActs, StopActs
    <2> QED BY <2>2, <2>3 DEF ActiveActs
<1> HIDE DEF A, out
<1>4. out \in Seq(AnswerActs)
    BY DEF out
<1>5. out \in Seq(AnswerActs \cup A) /\ more \in Seq(AnswerActs \cup A)
    BY <1>4
<1>6. \A a : ~Has(out, ActiveActs({a}, t)) /\ ~Has(out, ActiveActs(Asps, t))
    <2>1. \A i \in 1 .. Len(out) : out[i] \in AnswerActs
        BY <1>4
    <2> QED BY <1>2, <2>1 DEF Has
<1>7. ASSUME NEW a \in Asps, Has(more, ActiveActs({a}, t)) PROVE a \in X /\ t \in S
    <2>1. PICK i \in 1 .. Len(more) : more[i] \in ActiveActs({a}, t)
        BY <1>7 DEF Has
    <2>2. more[i] \in A
        OBVIOUS
    <2> QED BY <1>3, <2>1, <2>2
<1>8. ASSUME NEW a \in Asps, Has(o.out, ActiveActs({a}, t)) PROVE a = asp
    <2>1. Has(more, ActiveActs({a}, t))
        <3> DEFINE K == ActiveActs({a}, t)
        <3> HIDE DEF K
        <3>1. Has(out \o more, K) /\ ~Has(out, K)
            BY <1>1, <1>6, <1>8 DEF K
        <3>2. Has(more, K)
            BY <1>5, <3>1, LastOfConcat
        <3> QED BY <3>2 DEF K
    <2> QED BY <1>7, <2>1
<1>9. ASSUME asp \in Gateway PROVE Before(o.out, ActiveActs(Asps, t), AckActs(asp, t))
    <2>1. Before(out, ActiveActs(Asps, t), AckActs(asp, t))
        BY <1>6 DEF Before, Has
    <2>2. Has(more, ActiveActs(Asps, t)) => Has(out, AckActs(asp, t))
        <3> SUFFICES ASSUME Has(more, ActiveActs(Asps, t)) PROVE Has(out, AckActs(asp, t))
            OBVIOUS
        <3>1. PICK i \in 1 .. Len(more) : more[i] \in ActiveActs(Asps, t)
            BY DEF Has
        <3>2. PICK a \in Asps : more[i] \in ActiveActs({a}, t)
            BY <3>1 DEF ActiveActs
        <3>3. a \in X /\ t \in S
            BY <1>7, <3>2 DEF Has
        <3> QED BY <1>9, <3>3 DEF out
    <2>3. Before(out \o more, ActiveActs(Asps, t), AckActs(asp, t))
        <3> DEFINE K == ActiveActs(Asps, t)
                   L == AckActs(asp, t)
        <3> HIDE DEF K, L
        <3>1. Before(out, K, L) /\ (Has(more, K) => Has(out, L))
            BY <2>1, <2>2 DEF K, L
        <3>2. Before(out \o more, K, L)
            BY <1>5, <3>1, BeforeInConcat
        <3> QED BY <3>2 DEF K, L
    <2> QED BY <1>1, <2>3
<1> QED BY <1>8, <1>9 DEF Acked

\* Before the loops, the machine is what it was, with answers to send.
Answered(b, m) ==
    /\ m \in Working /\ m.up = b.up /\ m.active = b.active /\ m.state = b.state
    /\ m.out \in Seq(AnswerActs)

\* An answer reports nothing and leaves the machine as it is.
LEMMA SendToAnswers ==
    ASSUME NEW b, NEW m, Answered(b, m), NEW asp \in Asps, NEW message \in Answers,
           NEW about \in SUBSET Servers
    PROVE  /\ Answered(b, SendTo(m, asp, message, about))
           /\ \A t \in about : message = "ActiveAck" /\ asp \in Gateway =>
                  Has(SendTo(m, asp, message, about).out, AckActs(asp, t))
<1> DEFINE act == [do |-> "Send", asp |-> asp, message |-> message, about |-> about]
           out == m.out
<1>1. act \in AnswerActs /\ act \in Action
      /\ \A t \in about : message = "ActiveAck" => act \in AckActs(asp, t)
    BY DEF AnswerActs, Action, AckActs
<1>2. SendTo(m, asp, message, about) = IF asp \in Gateway THEN Do(m, act) ELSE m
    BY DEF SendTo
<1>3. m \in Working /\ out \in Seq(AnswerActs)
    BY DEF Answered
<1> HIDE DEF act, out
<1>4. /\ Do(m, act) \in Working
      /\ Do(m, act).up = m.up /\ Do(m, act).active = m.active /\ Do(m, act).state = m.state
      /\ Do(m, act).out = out \o <<act>>
    BY <1>1, <1>3, DoAdds DEF out
<1>5. out \o <<act>> \in Seq(AnswerActs)
    BY <1>1, <1>3
<1>6. \A K : act \in K => Has(out \o <<act>>, K)
    <2>1. (out \o <<act>>)[Len(out) + 1] = act /\ Len(out) + 1 \in 1 .. Len(out \o <<act>>)
        BY <1>3
    <2> QED BY <2>1 DEF Has
<1> QED BY <1>1, <1>2, <1>4, <1>5, <1>6 DEF Answered

\* Answers alone change nothing.
LEMMA AnsweredIsCarried ==
    ASSUME NEW b, Sound(b), NEW m, Answered(b, m), NEW asp \in Asps
    PROVE  Carried(b, m, asp)
<1>1. \A t : UpIn(m, t) = UpIn(b, t) /\ ActiveIn(m, t) = ActiveIn(b, t)
             /\ \A a : IsActive(m, a, t) = IsActive(b, a, t) /\ AspStateIn(m, a, t) = AspStateIn(b, a, t)
    BY DEF Answered, UpIn, ActiveIn, IsActive, AspStateIn
<1>2. Sound(m)
    BY <1>1 DEF Sound, Answered
<1>3. \A t : Silent(m.out, t)
    BY AnswersApart DEF Answered
<1>4. \A t \in Servers : Reports(b, m, t)
    <2> SUFFICES ASSUME NEW t \in Servers PROVE Reports(b, m, t)
        OBVIOUS
    <2>1. /\ \A q : SeenState(m.out, t, q) = q
          /\ \A a, q : SeenActive(m.out, a, t, q) = q /\ SeenNotice(m.out, a, t, q) = q
        BY <1>3, SilenceSaysNothing
    <2>2. \A a \in UpIn(m, t) : a \in b.up
        BY DEF UpIn, Answered
    <2> QED BY <1>1, <2>1, <2>2 DEF Reports, Answered
<1>5. \A t \in Servers : Timed(b, m, t) /\ Arrow(b, m, t)
    BY <1>1, <1>3 DEF Timed, Silent, Arrow, Answered
<1>6. \A t \in Servers : Acked(m, asp, t)
    <2>1. \A i \in 1 .. Len(m.out) : m.out[i] \in AnswerActs
        BY DEF Answered
    <2>2. \A act \in AnswerActs : \A X, t : act \notin ActiveActs(X, t)
        BY DEF AnswerActs, ActiveActs
    <2> QED BY <2>1, <2>2 DEF Acked, Has, Before
<1> QED BY <1>2, <1>4, <1>5, <1>6 DEF Carried

\* A server does not go pending with an active ASP.
LEMMA PendingIsIdle ==
    ASSUME NEW n, NEW t \in Servers, NextState(n, t) = "Pending"
    PROVE  ActiveIn(n, t) = {}
<1>1. CASE n.state[t] \in {"Down", "Inactive"}
    <2>1. NextState(n, t) = IF Cardinality(ActiveIn(n, t)) >= Required[t] THEN "Active"
                            ELSE IF UpIn(n, t) # {} THEN "Inactive" ELSE "Down"
        BY <1>1 DEF NextState
    <2> QED BY <2>1
<1>2. CASE n.state[t] \notin {"Down", "Inactive"} /\ ActiveIn(n, t) # {}
    <2>1. NextState(n, t) = "Active"
        BY <1>2 DEF NextState
    <2> QED BY <2>1
<1> QED BY <1>1, <1>2

\* The state of a server that follows its ASPs.
LEMMA Follows ==
    ASSUME NEW b, NEW v \in Working, NEW o \in Working, NEW t \in Servers, v.state = b.state, o.up = v.up,
           \A a \in Asps : <<a, t>> \in o.active <=> <<a, t>> \in v.active
    PROVE  /\ NextState([o EXCEPT !.state = b.state], t) = NextState(v, t)
           /\ ActiveIn(o, t) = ActiveIn(v, t)
<1> DEFINE w == [o EXCEPT !.state = b.state]
<1>1. w.up = v.up /\ w.active = o.active /\ w.state = v.state
    BY DEF Working
<1> HIDE DEF w
<1>2. SameAt(v, w, t)
    BY <1>1 DEF SameAt
<1>3. NextState(w, t) = NextState(v, t)
    BY <1>1, <1>2, NextStateIsLocal
<1>4. ActiveIn(w, t) = ActiveIn(v, t)
    BY <1>1, <1>2, NextStateIsLocal
<1>5. ActiveIn(o, t) = ActiveIn(w, t)
    BY <1>1 DEF ActiveIn, IsActive
<1> QED BY <1>3, <1>4, <1>5 DEF w

\* What the loop made of each server.
LEMMA UptoOutcome ==
    ASSUME NEW v, NEW S, NEW X, NEW F, NEW N, NEW to, NEW o \in Upto(v, S, LastServer, X, F, N, to)
    PROVE  /\ o \in Working /\ o.up = v.up
           /\ \A t \in Servers :
                 IF t \in S
                 THEN /\ o.state[t] = to[t].state
                      /\ \A a \in Asps : <<a, t>> \in o.active <=> a \in to[t].active
                 ELSE SameAt(v, o, t)
<1>1. \A t \in Servers : t <= LastServer
    BY LayoutFacts
<1> QED BY <1>1 DEF Upto

\* Whatever takes an ASP down carries its input.
LEMMA TakeDownCarries ==
    ASSUME NEW b, Sound(b), NEW m, Answered(b, m), NEW asp \in Asps, NEW failed
    PROVE  /\ Carried(b, TakeDown(m, asp, failed), asp)
           /\ TakeDown(m, asp, failed).up = b.up \ {asp}
<1> DEFINE o == TakeDown(m, asp, failed)
<1>0. m \in Working /\ b \in Working
    BY DEF Answered, Sound
<1>1. CASE asp \notin m.up
    <2>1. o = m /\ b.up = m.up
        BY <1>1 DEF TakeDown, Answered
    <2>2. m.up = b.up \ {asp}
        BY <1>1, <2>1
    <2> QED BY <2>1, <2>2, AnsweredIsCarried
<1>2. CASE asp \in m.up
    <2> DEFINE v == Left(m, asp)
               S == ServersOf(asp)
               to == Resettled(v)
    <2>1. v \in Working /\ o \in Upto(v, S, LastServer, {}, {asp}, {}, to)
        BY <1>0, <1>2, TakeDownIsLoop DEF Answered
    <2>2. /\ v.up = b.up \ {asp} /\ v.active = b.active \ ({asp} \X Servers) /\ v.state = b.state
          /\ v.out \in Seq(AnswerActs) /\ S \in SUBSET Servers
        BY <1>0 DEF Left, Answered, Working, ServersOf
    <2>3. o \in Working /\ o.up = v.up
        BY <2>1 DEF Upto
    <2>4. \A t \in S : to[t].state = NextState(v, t) /\ to[t].active = {a \in Asps : <<a, t>> \in v.active}
        BY <2>2 DEF Resettled
    <2> HIDE DEF v, to, o
    <2>5. \A t \in Servers :
              /\ \A a \in Asps : <<a, t>> \in o.active <=> <<a, t>> \in v.active
              /\ t \in S => o.state[t] = NextState(v, t)
              /\ t \notin S => o.state[t] = b.state[t]
        <3> SUFFICES ASSUME NEW t \in Servers
                     PROVE  /\ \A a \in Asps : <<a, t>> \in o.active <=> <<a, t>> \in v.active
                            /\ t \in S => o.state[t] = NextState(v, t)
                            /\ t \notin S => o.state[t] = b.state[t]
            OBVIOUS
        <3>1. t <= LastServer
            BY LayoutFacts
        <3>2. CASE t \in S
            BY <2>1, <2>4, <3>1, <3>2 DEF Upto
        <3>3. CASE t \notin S
            BY <2>1, <2>2, <3>3 DEF Upto, SameAt
        <3> QED BY <3>2, <3>3
    <2>6. \A t \in Servers : Reports(b, o, t) /\ Timed(b, o, t)
        <3>1. \A a \in Asps, t \in Servers : a # asp \/ t \notin S \/ asp \notin {asp} =>
                  IsActive(v, a, t) = IsActive(b, a, t)
            BY <2>2 DEF IsActive, Sound, ServersOf
        <3>2. \A a \in v.up : a \in b.up
            BY <2>2
        <3>3. S \in SUBSET ServersOf(asp)
            OBVIOUS
        <3>4. Prepared(b, v, asp, S, {asp}, {})
            <4>1. b \in Working /\ v \in Working /\ asp \in Asps /\ S \subseteq ServersOf(asp)
                BY <1>0, <2>1, <3>3
            <4>2. v.state = b.state
                BY <2>2
            <4> HIDE DEF S
            <4> QED BY <3>1, <3>2, <4>1, <4>2, Zenon DEF Prepared
        <3> HIDE DEF S
        <3> QED BY <2>1, <3>4, UptoReports
    <2>7. \A t \in Servers : Acked(o, asp, t)
        <3>1. {} \in SUBSET {asp}
            OBVIOUS
        <3> HIDE DEF S
        <3> QED BY <2>1, <2>2, <3>1, UptoAcked
    <2>8. Sound(o)
        <3>1. \A a \in Asps, t \in Servers : <<a, t>> \in o.active => a \in o.up /\ a \in Member[t]
            BY <2>2, <2>3, <2>5 DEF Sound
        <3>2. ASSUME NEW t \in Servers, o.state[t] = "Pending" PROVE ActiveIn(o, t) = {}
            <4>0. \A a \in Asps : <<a, t>> \in o.active <=> <<a, t>> \in v.active
                BY <2>5
            <4>1. ActiveIn(o, t) = ActiveIn(v, t)
                <5>1. v \in Working /\ o \in Working /\ v.state = b.state /\ o.up = v.up
                    BY <2>1, <2>2, <2>3
                <5> QED BY <4>0, <5>1, Follows, Zenon
            <4>2. CASE t \in S
                BY <2>5, <3>2, <4>1, <4>2, PendingIsIdle
            <4>3. CASE t \notin S
                <5>1. ActiveIn(b, t) = {}
                    BY <2>5, <3>2, <4>3 DEF Sound
                <5> QED BY <2>2, <4>1, <5>1 DEF ActiveIn, IsActive
            <4> QED BY <4>2, <4>3
        <3> QED BY <2>3, <3>1, <3>2 DEF Sound
    <2>9. ASSUME NEW t \in Servers PROVE Arrow(b, o, t)
        <3>1. \A c \in Asps : c # asp => AspStateIn(o, c, t) = AspStateIn(b, c, t)
            BY <2>2, <2>3, <2>5 DEF AspStateIn, IsActive
        <3>2. Member[t] \subseteq Asps
            BY LayoutFacts
        <3>3. CASE t \in S
            <4>1. asp \in Member[t] /\ AspStateIn(o, asp, t) = "Down" /\ AspStateIn(b, asp, t) # "Down"
                BY <1>2, <2>2, <2>3, <3>3 DEF AspStateIn, ServersOf, Answered
            <4>2. o.state[t] = NextState([o EXCEPT !.state = b.state], t)
                <5>1. \A a \in Asps : <<a, t>> \in o.active <=> <<a, t>> \in v.active
                    BY <2>5
                <5>2. NextState([o EXCEPT !.state = b.state], t) = NextState(v, t)
                    <6>1. v \in Working /\ o \in Working /\ v.state = b.state /\ o.up = v.up
                        BY <2>1, <2>2, <2>3
                    <6> QED BY <5>1, <6>1, Follows, Zenon
                <5> QED BY <2>5, <3>3, <5>2
            <4>3. "Down" \in AspState \ {AspStateIn(b, asp, t)}
                BY <4>1 DEF AspState
            <4> HIDE DEF S
            <4> QED BY <3>1, <3>2, <4>1, <4>2, <4>3 DEF Arrow
        <3>4. CASE t \notin S
            <4>1. asp \notin Member[t]
                BY <3>4 DEF ServersOf
            <4> QED BY <2>5, <3>1, <3>2, <3>4, <4>1 DEF Arrow
        <3> QED BY <3>3, <3>4
    <2> QED BY <2>2, <2>3, <2>6, <2>7, <2>8, <2>9 DEF Carried, o
<1> QED BY <1>1, <1>2

\* So does bringing one up.
LEMMA BringUpCarries ==
    ASSUME NEW b, Sound(b), NEW m, Answered(b, m), NEW asp \in Asps \ b.up
    PROVE  /\ Carried(b, BringUp(m, asp), asp)
           /\ BringUp(m, asp).up = b.up \cup {asp}
<1> DEFINE o == BringUp(m, asp)
           v == Come(m, asp)
           S == ServersOf(asp)
           to == Resettled(v)
<1>0. m \in Working /\ b \in Working
    BY DEF Answered, Sound
<1>1. v \in Working /\ o \in Upto(v, S, LastServer, {}, {asp}, {asp}, to)
    <2>1. asp \in Asps \ m.up /\ \A t \in Servers : <<asp, t>> \notin m.active
        BY DEF Answered, Sound
    <2> QED BY <1>0, <2>1, BringUpIsLoop DEF Answered
<1>2. /\ v.up = b.up \cup {asp} /\ v.active = b.active /\ v.state = b.state
      /\ v.out \in Seq(AnswerActs) /\ S \in SUBSET Servers
    BY <1>0 DEF Come, Answered, Working, ServersOf
<1>3. \A t \in S : to[t].state = NextState(v, t) /\ to[t].active = {a \in Asps : <<a, t>> \in v.active}
    BY <1>2 DEF Resettled
<1> HIDE DEF v, to, o
<1>4. o \in Working /\ o.up = v.up
    BY <1>1, UptoOutcome
<1>5. ASSUME NEW t \in Servers
      PROVE  /\ \A a \in Asps : <<a, t>> \in o.active <=> <<a, t>> \in v.active
             /\ t \in S => o.state[t] = NextState(v, t)
             /\ t \notin S => o.state[t] = b.state[t]
    <2>1. IF t \in S THEN /\ o.state[t] = to[t].state
                          /\ \A a \in Asps : <<a, t>> \in o.active <=> a \in to[t].active
                     ELSE SameAt(v, o, t)
        <3> HIDE DEF S
        <3> QED BY <1>1, UptoOutcome
    <2> QED BY <1>2, <1>3, <2>1 DEF SameAt
<1>6. \A t \in Servers : Reports(b, o, t) /\ Timed(b, o, t)
    <2>1. \A a \in Asps, t \in Servers : a # asp \/ t \notin S \/ asp \notin {asp} =>
              IsActive(v, a, t) = IsActive(b, a, t)
        BY <1>2 DEF IsActive, Sound
    <2>2. \A a \in v.up : a \in b.up \/ (a = asp /\ asp \in {asp} /\ S = ServersOf(asp))
        BY <1>2
    <2>3. b \in Working /\ v \in Working /\ asp \in Asps /\ S \subseteq ServersOf(asp) /\ v.state = b.state
        BY <1>0, <1>1, <1>2
    <2> HIDE DEF S
    <2>4. Prepared(b, v, asp, S, {asp}, {asp})
        BY <2>1, <2>2, <2>3, Zenon DEF Prepared
    <2> QED BY <1>1, <2>4, UptoReports
<1>7. \A t \in Servers : Acked(o, asp, t)
    <2>1. {} \in SUBSET {asp}
        OBVIOUS
    <2> HIDE DEF S
    <2> QED BY <1>1, <1>2, <2>1, UptoAcked
<1>8. ASSUME NEW t \in Servers
      PROVE  /\ ActiveIn(o, t) = ActiveIn(b, t)
             /\ NextState([o EXCEPT !.state = b.state], t) = NextState(v, t)
             /\ NextState(v, t) = "Pending" => ActiveIn(o, t) = {}
    <2>1. v \in Working /\ o \in Working /\ v.state = b.state /\ o.up = v.up
        BY <1>1, <1>2, <1>4
    <2>2. \A a \in Asps : <<a, t>> \in o.active <=> <<a, t>> \in v.active
        BY <1>5
    <2>3. /\ NextState([o EXCEPT !.state = b.state], t) = NextState(v, t)
          /\ ActiveIn(o, t) = ActiveIn(v, t)
        BY <2>1, <2>2, Follows, Zenon
    <2>4. ActiveIn(v, t) = ActiveIn(b, t)
        BY <1>2 DEF ActiveIn, IsActive, Sound
    <2> QED BY <2>3, <2>4, PendingIsIdle
<1>9. Sound(o)
    <2>1. \A a \in Asps, t \in Servers : <<a, t>> \in o.active => a \in o.up /\ a \in Member[t]
        BY <1>2, <1>4, <1>5 DEF Sound
    <2>2. ASSUME NEW t \in Servers, o.state[t] = "Pending" PROVE ActiveIn(o, t) = {}
        <3>1. CASE t \in S
            BY <1>5, <1>8, <2>2, <3>1
        <3>2. CASE t \notin S
            BY <1>5, <1>8, <2>2, <3>2 DEF Sound
        <3> QED BY <3>1, <3>2
    <2> QED BY <1>4, <2>1, <2>2 DEF Sound
<1>10. ASSUME NEW t \in Servers PROVE Arrow(b, o, t)
    <2>1. \A c \in Asps : c # asp => AspStateIn(o, c, t) = AspStateIn(b, c, t)
        BY <1>2, <1>4, <1>5 DEF AspStateIn, IsActive
    <2>2. Member[t] \subseteq Asps
        BY LayoutFacts
    <2>3. CASE t \in S
        <3>1. asp \in Member[t] /\ AspStateIn(o, asp, t) = "Inactive" /\ AspStateIn(b, asp, t) = "Down"
            BY <1>2, <1>4, <1>5, <2>3 DEF AspStateIn, IsActive, ServersOf, Sound
        <3>2. o.state[t] = NextState([o EXCEPT !.state = b.state], t)
            BY <1>5, <1>8, <2>3
        <3>3. "Inactive" \in AspState \ {AspStateIn(b, asp, t)}
            BY <3>1 DEF AspState
        <3> HIDE DEF S
        <3> QED BY <2>1, <2>2, <3>1, <3>2, <3>3 DEF Arrow
    <2>4. CASE t \notin S
        <3>1. asp \notin Member[t]
            BY <2>4 DEF ServersOf
        <3> QED BY <1>5, <2>1, <2>2, <2>4, <3>1 DEF Arrow
    <2> QED BY <2>3, <2>4
<1> QED BY <1>2, <1>4, <1>6, <1>7, <1>9, <1>10 DEF Carried, o

\* So does deactivating one, and only that.
LEMMA DeactivateCarries ==
    ASSUME NEW b, Sound(b), NEW v, Answered(b, v), NEW asp \in Asps,
           NEW S \in SUBSET ServersOf(asp)
    PROVE  /\ Carried(b, DeactivateIn(v, asp, S), asp)
           /\ DeactivateIn(v, asp, S).up = b.up
<1> DEFINE o == DeactivateIn(v, asp, S)
           to == AfterDeactivate(v, asp)
           w(t) == Without(v, asp, t)
           Changed(t) == t \in S /\ <<asp, t>> \in b.active
<1>0. /\ v \in Working /\ b \in Working /\ asp \in Asps /\ S \in SUBSET Servers
      /\ v.out \in Seq(AnswerActs) /\ v.up = b.up /\ v.active = b.active /\ v.state = b.state
      /\ \A t \in S : asp \in Member[t]
    BY DEF Answered, Sound, ServersOf, Working
<1>1. o \in Upto(v, S, LastServer, {}, {}, {}, to)
    BY <1>0, DeactivateIsLoop
<1>2. ASSUME NEW t \in Servers
      PROVE  /\ w(t) \in Working /\ w(t).up = b.up /\ w(t).state = b.state
             /\ w(t).active = b.active \ {<<asp, t>>}
             /\ <<asp, t>> \in b.active =>
                   /\ to[t].state = NextState(w(t), t)
                   /\ \A a \in Asps : a \in to[t].active <=> <<a, t>> \in w(t).active
             /\ ~(<<asp, t>> \in b.active) =>
                   /\ to[t].state = b.state[t]
                   /\ \A a \in Asps : a \in to[t].active <=> <<a, t>> \in b.active
    <2>1. /\ w(t) \in Working /\ w(t).up = b.up /\ w(t).state = b.state
          /\ w(t).active = b.active \ {<<asp, t>>}
        BY <1>0 DEF Without, Working
    <2>2. (<<asp, t>> \in b.active) <=> IsActive(v, asp, t)
        BY <1>0 DEF IsActive, Sound
    <2>3. CASE <<asp, t>> \in b.active
        BY <1>0, <2>1, <2>2, <2>3 DEF AfterDeactivate, Without
    <2>4. CASE ~(<<asp, t>> \in b.active)
        BY <1>0, <2>1, <2>2, <2>4 DEF AfterDeactivate
    <2> QED BY <2>1, <2>3, <2>4
<1> HIDE DEF to, o, w
<1>3. o \in Working /\ o.up = b.up
    BY <1>0, <1>1, UptoOutcome
<1>4. ASSUME NEW t \in Servers
      PROVE  /\ Changed(t) => /\ o.state[t] = NextState(w(t), t)
                              /\ \A a \in Asps : <<a, t>> \in o.active <=> <<a, t>> \in w(t).active
             /\ ~Changed(t) => /\ o.state[t] = b.state[t]
                               /\ \A a \in Asps : <<a, t>> \in o.active <=> <<a, t>> \in b.active
    <2>1. IF t \in S THEN /\ o.state[t] = to[t].state
                          /\ \A a \in Asps : <<a, t>> \in o.active <=> a \in to[t].active
                     ELSE SameAt(v, o, t)
        BY <1>1, UptoOutcome
    <2> QED BY <1>0, <1>2, <2>1 DEF SameAt
<1>5. \A t \in Servers : Reports(b, o, t) /\ Timed(b, o, t)
    <2>1. \A a \in Asps, t \in Servers : a # asp \/ t \notin S \/ asp \notin {} =>
              IsActive(v, a, t) = IsActive(b, a, t)
        BY <1>0 DEF IsActive
    <2>2. \A a \in v.up : a \in b.up \/ (a = asp /\ asp \in {} /\ S = ServersOf(asp))
        BY <1>0
    <2>3. Prepared(b, v, asp, S, {}, {})
        BY <1>0, <2>1, <2>2, Zenon DEF Prepared
    <2> QED BY <1>1, <2>3, UptoReports
<1>6. \A t \in Servers : Acked(o, asp, t)
    <2>1. {} \in SUBSET {asp}
        OBVIOUS
    <2> QED BY <1>0, <1>1, <2>1, UptoAcked
<1>7. ASSUME NEW t \in Servers, Changed(t)
      PROVE  /\ o.state[t] = NextState([o EXCEPT !.state = b.state], t)
             /\ o.state[t] = "Pending" => ActiveIn(o, t) = {}
    <2>1. w(t) \in Working /\ w(t).state = b.state /\ o.up = w(t).up
        BY <1>2, <1>3
    <2>2. \A a \in Asps : <<a, t>> \in o.active <=> <<a, t>> \in w(t).active
        BY <1>4, <1>7
    <2>3. /\ NextState([o EXCEPT !.state = b.state], t) = NextState(w(t), t)
          /\ ActiveIn(o, t) = ActiveIn(w(t), t)
        BY <1>3, <2>1, <2>2, Follows, Zenon
    <2> QED BY <1>4, <1>7, <2>3, PendingIsIdle
<1>8. Sound(o)
    <2>1. \A a \in Asps, t \in Servers : <<a, t>> \in o.active => a \in o.up /\ a \in Member[t]
        BY <1>0, <1>2, <1>3, <1>4 DEF Sound
    <2>2. ASSUME NEW t \in Servers, o.state[t] = "Pending" PROVE ActiveIn(o, t) = {}
        <3>1. CASE Changed(t)
            BY <1>7, <2>2, <3>1
        <3>2. CASE ~Changed(t)
            <4>1. ActiveIn(b, t) = {} /\ Member[t] \subseteq Asps
                BY <1>4, <2>2, <3>2, LayoutFacts DEF Sound
            <4> QED BY <1>3, <1>4, <3>2, <4>1 DEF ActiveIn, IsActive
        <3> QED BY <3>1, <3>2
    <2> QED BY <1>3, <2>1, <2>2 DEF Sound
<1>9. ASSUME NEW t \in Servers PROVE Arrow(b, o, t)
    <2>1. Member[t] \subseteq Asps
        BY LayoutFacts
    <2>2. CASE ~Changed(t)
        BY <1>3, <1>4, <2>1, <2>2 DEF Arrow, AspStateIn, IsActive
    <2>3. CASE Changed(t)
        <3> DEFINE old == AspStateIn(b, asp, t)
                   new == "Inactive"
        <3>1. /\ asp \in Member[t] /\ old = "Active"
              /\ new \in AspState \ {old}
            BY <1>0, <2>3 DEF AspStateIn, IsActive, AspState, Sound
        <3>2. \A c \in Member[t] :
                 AspStateIn(o, c, t) =
                     IF c = asp THEN new
                     ELSE IF /\ Mode[t] = "Override" /\ new = "Active"
                             /\ AspStateIn(b, c, t) = "Active"
                     THEN "Inactive" ELSE AspStateIn(b, c, t)
            BY <1>0, <1>2, <1>3, <1>4, <2>1, <2>3, <3>1 DEF AspStateIn, IsActive, ActiveIn, Sound
        <3>3. o.state[t] = NextState([o EXCEPT !.state = b.state], t)
            BY <1>7, <2>3
        <3>4. new = "Active" => old = "Inactive"
            BY <3>1
        <3> HIDE DEF new
        <3> QED BY <3>1, <3>2, <3>3, <3>4 DEF Arrow
    <2> QED BY <2>2, <2>3
<1> QED BY <1>3, <1>5, <1>6, <1>8, <1>9 DEF Carried, o

\* So does activating one, in servers it was acknowledged for.
LEMMA ActivateCarries ==
    ASSUME NEW b, Sound(b), NEW v, Answered(b, v), NEW asp \in b.up,
           NEW S \in SUBSET ServersOf(asp),
           asp \in Gateway => \A t \in S : Has(v.out, AckActs(asp, t))
    PROVE  /\ Carried(b, ActivateIn(v, asp, S), asp)
           /\ ActivateIn(v, asp, S).up = b.up
<1> DEFINE o == ActivateIn(v, asp, S)
           to == AfterActivate(v, asp)
           w(t) == With(v, asp, t)
           Changed(t) == t \in S /\ <<asp, t>> \notin b.active /\ asp \in Member[t]
<1>0. /\ v \in Working /\ b \in Working /\ asp \in Asps /\ S \in SUBSET Servers
      /\ v.out \in Seq(AnswerActs) /\ v.up = b.up /\ v.active = b.active /\ v.state = b.state
      /\ \A t \in S : asp \in Member[t]
    BY DEF Answered, Sound, ServersOf, Working
<1>1. o \in Upto(v, S, LastServer, {asp}, {}, {}, to)
    BY <1>0, ActivateIsLoop
<1>2. ASSUME NEW t \in Servers
      PROVE  /\ w(t) \in Working /\ w(t).up = b.up /\ w(t).state = b.state
             /\ w(t).active = (b.active \cup {<<asp, t>>}) \ (Displaced(b, asp, t) \X {t})
             /\ <<asp, t>> \notin b.active /\ asp \in Member[t] =>
                   /\ to[t].state = NextState(w(t), t)
                   /\ \A a \in Asps : a \in to[t].active <=> <<a, t>> \in w(t).active
             /\ ~(<<asp, t>> \notin b.active /\ asp \in Member[t]) =>
                   /\ to[t].state = b.state[t]
                   /\ \A a \in Asps : a \in to[t].active <=> <<a, t>> \in b.active
    <2>0. Displaced(v, asp, t) = Displaced(b, asp, t)
        BY <1>0 DEF Displaced, ActiveIn, IsActive
    <2>1. /\ w(t) \in Working /\ w(t).up = b.up /\ w(t).state = b.state
          /\ w(t).active = (b.active \cup {<<asp, t>>}) \ (Displaced(b, asp, t) \X {t})
        BY <1>0, <2>0 DEF With, Working
    <2>2. (<<asp, t>> \notin b.active /\ asp \in Member[t]) <=> <<asp, t>> \notin v.active /\ asp \in Member[t]
        BY <1>0 
    <2>3. CASE <<asp, t>> \notin b.active /\ asp \in Member[t]
        BY <1>0, <2>1, <2>2, <2>3 DEF AfterActivate, With
    <2>4. CASE ~(<<asp, t>> \notin b.active /\ asp \in Member[t])
        BY <1>0, <2>1, <2>2, <2>4 DEF AfterActivate
    <2> QED BY <2>1, <2>3, <2>4
<1> HIDE DEF to, o, w
<1>3. o \in Working /\ o.up = b.up
    BY <1>0, <1>1, UptoOutcome
<1>4. ASSUME NEW t \in Servers
      PROVE  /\ Changed(t) => /\ o.state[t] = NextState(w(t), t)
                              /\ \A a \in Asps : <<a, t>> \in o.active <=> <<a, t>> \in w(t).active
             /\ ~Changed(t) => /\ o.state[t] = b.state[t]
                               /\ \A a \in Asps : <<a, t>> \in o.active <=> <<a, t>> \in b.active
    <2>1. IF t \in S THEN /\ o.state[t] = to[t].state
                          /\ \A a \in Asps : <<a, t>> \in o.active <=> a \in to[t].active
                     ELSE SameAt(v, o, t)
        BY <1>1, UptoOutcome
    <2> QED BY <1>0, <1>2, <2>1 DEF SameAt
<1>5. \A t \in Servers : Reports(b, o, t) /\ Timed(b, o, t)
    <2>1. \A a \in Asps, t \in Servers : a # asp \/ t \notin S \/ asp \notin {} =>
              IsActive(v, a, t) = IsActive(b, a, t)
        BY <1>0 DEF IsActive
    <2>2. \A a \in v.up : a \in b.up \/ (a = asp /\ asp \in {} /\ S = ServersOf(asp))
        BY <1>0
    <2>3. Prepared(b, v, asp, S, {}, {})
        BY <1>0, <2>1, <2>2, Zenon DEF Prepared
    <2> QED BY <1>1, <2>3, UptoReports
<1>6. \A t \in Servers : Acked(o, asp, t)
    <2>1. {asp} \in SUBSET {asp}
        OBVIOUS
    <2> QED BY <1>0, <1>1, <2>1, UptoAcked
<1>7. ASSUME NEW t \in Servers, Changed(t)
      PROVE  /\ o.state[t] = NextState([o EXCEPT !.state = b.state], t)
             /\ o.state[t] = "Pending" => ActiveIn(o, t) = {}
    <2>1. w(t) \in Working /\ w(t).state = b.state /\ o.up = w(t).up
        BY <1>2, <1>3
    <2>2. \A a \in Asps : <<a, t>> \in o.active <=> <<a, t>> \in w(t).active
        BY <1>4, <1>7
    <2>3. /\ NextState([o EXCEPT !.state = b.state], t) = NextState(w(t), t)
          /\ ActiveIn(o, t) = ActiveIn(w(t), t)
        BY <1>3, <2>1, <2>2, Follows, Zenon
    <2> QED BY <1>4, <1>7, <2>3, PendingIsIdle
<1>8. Sound(o)
    <2>1. ASSUME NEW a \in Asps, NEW t \in Servers, <<a, t>> \in o.active
          PROVE  a \in o.up /\ a \in Member[t]
        <3>1. <<a, t>> \in b.active \/ (a = asp /\ asp \in Member[t])
            BY <1>2, <1>4, <2>1
        <3> QED BY <1>0, <1>3, <3>1 DEF Sound
    <2>2. ASSUME NEW t \in Servers, o.state[t] = "Pending" PROVE ActiveIn(o, t) = {}
        <3>1. CASE Changed(t)
            BY <1>7, <2>2, <3>1
        <3>2. CASE ~Changed(t)
            <4>1. ActiveIn(b, t) = {} /\ Member[t] \subseteq Asps
                BY <1>4, <2>2, <3>2, LayoutFacts DEF Sound
            <4> QED BY <1>3, <1>4, <3>2, <4>1 DEF ActiveIn, IsActive
        <3> QED BY <3>1, <3>2
    <2> QED BY <1>3, <2>1, <2>2 DEF Sound
<1>9. ASSUME NEW t \in Servers PROVE Arrow(b, o, t)
    <2>1. Member[t] \subseteq Asps
        BY LayoutFacts
    <2>2. CASE ~Changed(t)
        BY <1>3, <1>4, <2>1, <2>2 DEF Arrow, AspStateIn, IsActive
    <2>3. CASE Changed(t)
        <3> DEFINE old == AspStateIn(b, asp, t)
                   new == "Active"
        <3>1. /\ asp \in Member[t] /\ old = "Inactive"
              /\ new \in AspState \ {old}
            BY <1>0, <2>3 DEF AspStateIn, IsActive, AspState, Sound
        <3>2. \A c \in Member[t] :
                 AspStateIn(o, c, t) =
                     IF c = asp THEN new
                     ELSE IF /\ Mode[t] = "Override" /\ new = "Active"
                             /\ AspStateIn(b, c, t) = "Active"
                     THEN "Inactive" ELSE AspStateIn(b, c, t)
            BY <1>0, <1>2, <1>3, <1>4, <2>1, <2>3, <3>1 DEF AspStateIn, IsActive, ActiveIn, Sound, Displaced
        <3>3. o.state[t] = NextState([o EXCEPT !.state = b.state], t)
            BY <1>7, <2>3
        <3>4. new = "Active" => old = "Inactive"
            BY <3>1
        <3> HIDE DEF new
        <3> QED BY <3>1, <3>2, <3>3, <3>4 DEF Arrow
    <2> QED BY <2>2, <2>3
<1> QED BY <1>3, <1>5, <1>6, <1>8, <1>9 DEF Carried, o

----------------------------------------------------------------------------
(* Every input.                                                            *)

\* ASP Up, again or for the first time.
LEMMA UpCarries ==
    ASSUME NEW b, Sound(b), NEW m, Answered(b, m), NEW asp \in Asps
    PROVE  Carried(b, Up(m, asp), asp)
<1> DEFINE acked == SendTo(m, asp, "UpAck", {})
           refused == SendTo(acked, asp, "UnexpectedMessage", {})
<1>0. "UpAck" \in Answers /\ "UnexpectedMessage" \in Answers /\ {} \in SUBSET Servers
    BY DEF Answers
<1>1. Answered(b, acked)
    BY <1>0, SendToAnswers
<1> HIDE DEF acked
<1>2. Answered(b, refused)
    BY <1>0, <1>1, SendToAnswers
<1> HIDE DEF refused
<1>3. Up(m, asp) = IF asp \notin m.up THEN BringUp(acked, asp)
                   ELSE IF AnywhereActive(m, asp) THEN DeactivateIn(refused, asp, ServersOf(asp))
                   ELSE acked
    BY DEF Up, acked, refused
<1>4. CASE asp \notin m.up
    <2>1. asp \in Asps \ b.up
        BY <1>4 DEF Answered
    <2> QED BY <1>1, <1>3, <1>4, <2>1, BringUpCarries
<1>5. CASE asp \in m.up /\ AnywhereActive(m, asp)
    <2>1. ServersOf(asp) \in SUBSET ServersOf(asp)
        OBVIOUS
    <2>2. Carried(b, DeactivateIn(refused, asp, ServersOf(asp)), asp)
        BY <1>2, <2>1, DeactivateCarries
    <2> QED BY <1>3, <1>5, <2>2
<1>6. CASE asp \in m.up /\ ~AnywhereActive(m, asp)
    BY <1>1, <1>3, <1>6, AnsweredIsCarried
<1> QED BY <1>4, <1>5, <1>6

\* A request that is refused is only answered.
LEMMA AdmittedAnswers ==
    ASSUME NEW b, NEW m, Answered(b, m), NEW asp \in Asps, NEW contexts
    PROVE  Answered(b, Admitted(m, asp, contexts))
<1>1. /\ {} \in SUBSET Servers
      /\ \A message \in {"UnexpectedMessage", "InvalidRoutingContext", "NoConfiguredAs"} :
            message \in Answers
    BY DEF Answers
<1>2. \A message \in {"UnexpectedMessage", "InvalidRoutingContext", "NoConfiguredAs"} :
          Answered(b, SendTo(m, asp, message, {}))
    BY <1>1, SendToAnswers
<1> QED BY <1>2 DEF Admitted

\* ASP Active.
LEMMA ActiveCarries ==
    ASSUME NEW b, Sound(b), NEW m, Answered(b, m), NEW asp \in Asps, NEW mode, NEW contexts
    PROVE  Carried(b, Active(m, asp, mode, contexts), asp)
<1> DEFINE servers == IF asp \in m.up THEN Concerned(asp, contexts) ELSE {}
           S == {s \in servers : mode \subseteq {Mode[s]}}
           answered == Admitted(m, asp, contexts)
           refused == IF servers # S THEN SendTo(answered, asp, "UnsupportedTrafficMode", {})
                      ELSE answered
           acked == SendTo(refused, asp, "ActiveAck", S)
<1>0. /\ "ActiveAck" \in Answers /\ "UnsupportedTrafficMode" \in Answers
      /\ {} \in SUBSET Servers /\ S \in SUBSET ServersOf(asp) /\ S \in SUBSET Servers
      /\ S # {} => asp \in b.up
    BY DEF Answers, Concerned, ServersOf, Answered
<1>1. Active(m, asp, mode, contexts) = IF S = {} THEN refused ELSE ActivateIn(acked, asp, S)
    BY DEF Active
<1> HIDE DEF S, servers
<1>2. Answered(b, answered)
    BY AdmittedAnswers
<1> HIDE DEF answered
<1>3. Answered(b, refused)
    BY <1>0, <1>2, SendToAnswers
<1> HIDE DEF refused
<1>4. Answered(b, acked) /\ (asp \in Gateway => \A t \in S : Has(acked.out, AckActs(asp, t)))
    BY <1>0, <1>3, SendToAnswers
<1> HIDE DEF acked
<1>5. CASE S = {}
    BY <1>1, <1>3, <1>5, AnsweredIsCarried
<1>6. CASE S # {}
    <2>1. Carried(b, ActivateIn(acked, asp, S), asp)
        BY <1>0, <1>4, <1>6, ActivateCarries
    <2> QED BY <1>1, <1>6, <2>1
<1> QED BY <1>5, <1>6

\* ASP Inactive.
LEMMA InactiveCarries ==
    ASSUME NEW b, Sound(b), NEW m, Answered(b, m), NEW asp \in Asps, NEW contexts
    PROVE  Carried(b, Inactive(m, asp, contexts), asp)
<1> DEFINE S == IF asp \in m.up THEN Concerned(asp, contexts) ELSE {}
           answered == Admitted(m, asp, contexts)
           acked == SendTo(answered, asp, "InactiveAck", S)
<1>0. "InactiveAck" \in Answers /\ S \in SUBSET ServersOf(asp) /\ S \in SUBSET Servers
    BY DEF Answers, Concerned, ServersOf
<1>1. Inactive(m, asp, contexts) = IF S = {} THEN answered ELSE DeactivateIn(acked, asp, S)
    BY DEF Inactive
<1> HIDE DEF S
<1>2. Answered(b, answered)
    BY AdmittedAnswers
<1> HIDE DEF answered
<1>3. Answered(b, acked)
    BY <1>0, <1>2, SendToAnswers
<1> HIDE DEF acked
<1>4. Carried(b, DeactivateIn(acked, asp, S), asp)
    BY <1>0, <1>3, DeactivateCarries
<1> QED BY <1>1, <1>2, <1>4, AnsweredIsCarried

\* What the machine may be told of an ASP: what it asks, that its association
\* is lost and, where this node is the ASP, what the far end acknowledged.
IsRequest(input) ==
    /\ input.asp \in Asps
    /\ \/ input.kind \in {"Up", "Down", "Lost", "Active", "Inactive"}
       \/ input.kind \in {"PeerUp", "PeerActive", "PeerInactive"} /\ input.asp \notin Gateway

\* Whatever an ASP asks, and when its association is lost, the layer and the
\* other ASPs hear all that the machine makes of it, the timers are started and
\* stopped with the states, every server moves along an arrow of Figure 4, and
\* nobody but the ASP that asked becomes active, after it was acknowledged.
THEOREM RequestCarries ==
    ASSUME NEW b, Sound(b), NEW input, IsRequest(input)
    PROVE  /\ Carried(b, Handle(b, input), input.asp)
           /\ input.kind = "Lost" => Handle(b, input).up = b.up \ {input.asp}
<1> DEFINE m == [b EXCEPT !.out = <<>>]
           asp == input.asp
           o == Handle(b, input)
<1>0. b \in Working /\ asp \in Asps
    BY DEF Sound, IsRequest
<1>1. Answered(b, m)
    <2>1. <<>> \in Seq(AnswerActs) /\ <<>> \in Seq(Action)
        OBVIOUS
    <2> QED BY <1>0, <2>1 DEF Answered, Working
<1>2. /\ input.kind = "Up"       => o = Up(m, asp)
      /\ input.kind = "Down"     => o = TakeDown(SendTo(m, asp, "DownAck", {}), asp, FALSE)
      /\ input.kind = "Lost"     => o = TakeDown(m, asp, TRUE)
      /\ input.kind = "Active"   => o = Active(m, asp, input.mode, input.contexts)
      /\ input.kind = "Inactive" => o = Inactive(m, asp, input.contexts)
      /\ input.kind = "PeerUp"   => o = IF asp \in m.up THEN m ELSE BringUp(m, asp)
      /\ input.kind = "PeerActive" =>
            o = IF asp \in m.up THEN ActivateIn(m, asp, Concerned(asp, input.contexts)) ELSE m
      /\ input.kind = "PeerInactive" =>
            o = DeactivateIn(m, asp, Concerned(asp, input.contexts))
    BY DEF Handle, Down, Lost, PeerUp, PeerActive, PeerInactive
<1>3. m.up = b.up
    BY <1>1 DEF Answered
<1> HIDE DEF m, o, asp
<1>4. CASE input.kind = "Up"
    BY <1>0, <1>1, <1>2, <1>4, UpCarries DEF o, asp
<1>5. CASE input.kind = "Down"
    <2> DEFINE acked == SendTo(m, asp, "DownAck", {})
    <2>1. Answered(b, acked)
        <3>1. "DownAck" \in Answers /\ {} \in SUBSET Servers
            BY DEF Answers
        <3> QED BY <1>0, <1>1, <3>1, SendToAnswers
    <2> HIDE DEF acked
    <2>2. Carried(b, TakeDown(acked, asp, FALSE), asp)
        BY <1>0, <2>1, TakeDownCarries
    <2> QED BY <1>2, <1>5, <2>2 DEF acked, o, asp
<1>6. CASE input.kind = "Lost"
    <2>1. /\ Carried(b, TakeDown(m, asp, TRUE), asp)
          /\ TakeDown(m, asp, TRUE).up = b.up \ {asp}
        <3> DEFINE failed == TRUE
        <3> HIDE DEF failed
        <3>1. /\ Carried(b, TakeDown(m, asp, failed), asp)
              /\ TakeDown(m, asp, failed).up = b.up \ {asp}
            BY <1>0, <1>1, TakeDownCarries
        <3> QED BY <3>1 DEF failed
    <2> QED BY <1>2, <1>6, <2>1 DEF o, asp
<1>7. CASE input.kind = "Active"
    <2>1. Carried(b, Active(m, asp, input.mode, input.contexts), asp)
        BY <1>0, <1>1, ActiveCarries
    <2> QED BY <1>2, <1>7, <2>1 DEF o, asp
<1>8. CASE input.kind = "Inactive"
    <2>1. Carried(b, Inactive(m, asp, input.contexts), asp)
        BY <1>0, <1>1, InactiveCarries
    <2> QED BY <1>2, <1>8, <2>1 DEF o, asp
<1>9. CASE input.kind = "PeerUp"
    <2>1. CASE asp \in m.up
        BY <1>0, <1>1, <1>2, <1>9, <2>1, AnsweredIsCarried DEF o, asp
    <2>2. CASE asp \notin m.up
        <3>1. asp \in Asps \ b.up
            BY <1>0, <1>3, <2>2
        <3>2. Carried(b, BringUp(m, asp), asp)
            BY <1>1, <3>1, BringUpCarries
        <3> QED BY <1>2, <1>9, <2>2, <3>2 DEF o, asp
    <2> QED BY <2>1, <2>2
<1>10. CASE input.kind = "PeerActive"
    <2> DEFINE S == Concerned(asp, input.contexts)
    <2>1. S \in SUBSET ServersOf(asp) /\ asp \notin Gateway
        BY <1>10 DEF Concerned, IsRequest, asp
    <2> HIDE DEF S
    <2>2. CASE asp \in m.up
        <3>1. Carried(b, ActivateIn(m, asp, S), asp)
            BY <1>1, <1>3, <2>1, <2>2, ActivateCarries
        <3> QED BY <1>2, <1>10, <2>2, <3>1 DEF o, asp, S
    <2>3. CASE asp \notin m.up
        BY <1>0, <1>1, <1>2, <1>10, <2>3, AnsweredIsCarried DEF o, asp
    <2> QED BY <2>2, <2>3
<1>11. CASE input.kind = "PeerInactive"
    <2> DEFINE S == Concerned(asp, input.contexts)
    <2>1. S \in SUBSET ServersOf(asp)
        BY DEF Concerned
    <2> HIDE DEF S
    <2>2. Carried(b, DeactivateIn(m, asp, S), asp)
        BY <1>0, <1>1, <2>1, DeactivateCarries
    <2> QED BY <1>2, <1>11, <2>2 DEF o, asp, S
<1> QED BY <1>4, <1>5, <1>6, <1>7, <1>8, <1>9, <1>10, <1>11 DEF IsRequest

\* What T(r) does when it runs out in a pending server.
Expired(b, o, s) ==
    /\ Sound(o)
    /\ o.up = b.up /\ o.active = b.active
    /\ o.state = [b.state EXCEPT ![s] = IF UpIn(b, s) # {} THEN "Inactive" ELSE "Down"]
    /\ \A t \in Servers : Reports(b, o, t)
    /\ \A t \in Servers : ~Has(o.out, StopActs(t)) /\ ~Has(o.out, StartActs(t))
    /\ \A t \in Servers : ~Has(o.out, ActiveActs(Asps, t))

\* When T(r) runs out, the server goes on to Inactive or Down, of which the layer
\* and its ASPs hear, no timer is touched and nobody becomes active.
THEOREM RecoveryCarries ==
    ASSUME NEW b, Sound(b), NEW s \in Servers, b.state[s] = "Pending"
    PROVE  Expired(b, Handle(b, [kind |-> "Timeout", server |-> s]), s)
<1> DEFINE n == [b EXCEPT !.out = <<>>]
           idle == IF UpIn(b, s) # {} THEN "Inactive" ELSE "Down"
           act == [do |-> "Server", server |-> s, state |-> idle]
           set == [n EXCEPT !.state[s] = idle]
           moved == Do(set, act)
           o == NotifyState(moved, s, Asps)
<1>0. b \in Working /\ ActiveIn(b, s) = {}
    BY DEF Sound
<1>1. Handle(b, [kind |-> "Timeout", server |-> s]) = o
    <2>1. UpIn(n, s) = UpIn(b, s) /\ ActiveIn(n, s) = ActiveIn(b, s) /\ n.state = b.state
        BY <1>0 DEF Working, UpIn, ActiveIn, IsActive
    <2>2. Handle(b, [kind |-> "Timeout", server |-> s]) = RecoveryExpired(n, s)
        BY DEF Handle
    <2>3. RecoveryExpired(n, s) =
              LET left == IF UpIn(n, s) \ ActiveIn(n, s) # {} THEN "Inactive" ELSE "Down"
              IN  NotifyState(Do([n EXCEPT !.state[s] = left],
                                 [do |-> "Server", server |-> s, state |-> left]), s, Asps)
        BY <2>1 DEF RecoveryExpired
    <2> QED BY <1>0, <2>1, <2>2, <2>3
<1>2. /\ idle \in AsState \ {"Pending"} /\ act \in ActsOf(s, {}) /\ act \in Action
      /\ act.state = idle /\ act \in ServerActs(s)
    <2>1. idle \in AsState \ {"Pending"}
        BY DEF AsState
    <2>2. act \in ActsOf(s, {}) /\ act.state = idle /\ act \in ServerActs(s)
        BY <2>1 DEF ActsOf, ServerActs
    <2>3. {} \in SUBSET Asps
        OBVIOUS
    <2> HIDE DEF act, idle
    <2> QED BY <2>1, <2>2, <2>3, ActsAreActions
<1>3. /\ \A t : /\ act \notin StopActs(t) /\ act \notin StartActs(t)
                /\ act \notin ActiveActs(Asps, t)
                /\ \A a : act \notin AspActs(a, t) /\ act \notin NoticeActs(a, t)
      /\ \A t : act \in ServerActs(t) => t = s
    BY DEF StopActs, StartActs, ActiveActs, AspActs, NoticeActs, ServerActs
<1>4. /\ set \in Working /\ set.up = b.up /\ set.active = b.active /\ set.out = <<>>
      /\ set.state = [b.state EXCEPT ![s] = idle]
    <2>1. <<>> \in Seq(Action)
        OBVIOUS
    <2> QED BY <1>0, <1>2, <2>1 DEF Working
<1> HIDE DEF act, idle, set
<1>5. /\ moved \in Working /\ moved.up = b.up /\ moved.active = b.active
      /\ moved.state = [b.state EXCEPT ![s] = idle] /\ moved.out = <<act>>
    <2>1. /\ Do(set, act) \in Working /\ Do(set, act).up = set.up /\ Do(set, act).active = set.active
          /\ Do(set, act).state = set.state /\ Do(set, act).out = set.out \o <<act>>
        BY <1>2, <1>4, DoAdds
    <2>2. <<>> \o <<act>> = <<act>>
        OBVIOUS
    <2> QED BY <1>4, <2>1, <2>2
<1> HIDE DEF moved
<1>6. Steps(moved, o, s, {}, {}, Asps) /\ o.active = b.active /\ o.state = moved.state
    <2>1. {} \in SUBSET Asps
        OBVIOUS
    <2> QED BY <1>5, <2>1, NotifyStateSteps
<1>7. o \in Working /\ o.up = b.up
    BY <1>5, <1>6 DEF Steps
<1> HIDE DEF o
<1>8. PICK more \in Seq(ActsOf(s, {})) :
          o.out = <<act>> \o more /\ Tells(more, moved, o, s, {}) /\ Informs(more, moved, o, s, Asps)
    BY <1>5, <1>6 DEF Steps
<1>9. <<act>> \in Seq(ActsOf(s, {}))
    BY <1>2
<1>10. \A K : /\ Has(o.out, K) <=> act \in K \/ Has(more, K)
              /\ Has(more, K) => LastIn(o.out, K) = LastIn(more, K)
              /\ ~Has(more, K) /\ act \in K => LastIn(o.out, K) = act
    <2> DEFINE A == ActsOf(s, {})
               one == <<act>>
    <2>1. \A K : (Has(one, K) <=> act \in K) /\ (act \in K => LastIn(one, K) = act)
        BY LastOfOne, Zenon
    <2>2. one \in Seq(A) /\ more \in Seq(A) /\ o.out = one \o more
        BY <1>8, <1>9
    <2> HIDE DEF A, one
    <2>3. \A K : /\ Has(one \o more, K) <=> Has(one, K) \/ Has(more, K)
                 /\ Has(more, K) => LastIn(one \o more, K) = LastIn(more, K)
                 /\ ~Has(more, K) /\ Has(one, K) => LastIn(one \o more, K) = LastIn(one, K)
        BY <2>2, LastOfConcat
    <2> QED BY <2>1, <2>2, <2>3
<1>11. o.state[s] = idle /\ moved.state[s] = idle
    BY <1>0, <1>5, <1>6 DEF Working
<1>12. \A t \in Servers : t # s => Silent(more, t)
    BY ActsApart
<1>13. \A t \in Servers : ~Has(more, StopActs(t)) /\ ~Has(more, StartActs(t))
    BY <1>2, <1>8, <1>11, <1>12 DEF Silent, Tells
<1>14. \A t \in Servers : ~Has(more, ActiveActs(Asps, t))
    <2>1. \A i \in 1 .. Len(more) : more[i] \in ActsOf(s, {})
        OBVIOUS
    <2>2. ASSUME NEW x \in ActsOf(s, {}), NEW t \in Servers PROVE x \notin ActiveActs(Asps, t)
        BY DEF ActsOf, ActiveActs, NotifyActs, ServerActs, StartActs, StopActs
    <2> QED BY <2>1, <2>2 DEF Has
<1>15. ASSUME NEW t \in Servers PROVE Reports(b, o, t)
    <2>1. \A a : IsActive(o, a, t) = IsActive(b, a, t) /\ IsActive(moved, a, t) = IsActive(b, a, t)
        BY <1>5, <1>6, <1>7 DEF IsActive
    <2>2. CASE t = s
        <3>1. SeenState(o.out, t, b.state[t]) = o.state[t]
            <4>1. SeenState(more, s, idle) = idle
                BY <1>8, <1>11 DEF Tells
            <4> QED BY <1>2, <1>10, <1>11, <2>2, <4>1 DEF SeenState
        <3>2. ASSUME NEW a \in Asps
              PROVE  SeenActive(o.out, a, t, IsActive(b, a, t)) = IsActive(o, a, t)
            <4>1. SeenActive(more, a, s, IsActive(b, a, s)) = IsActive(o, a, s)
                BY <1>8, <2>1, <2>2 DEF Tells
            <4> QED BY <1>3, <1>10, <2>2, <4>1 DEF SeenActive
        <3>3. ASSUME NEW a \in UpIn(o, t) \cap Gateway, NEW q, o.state[t] # "Down"
              PROVE  SeenNotice(o.out, a, t, q) = o.state[t]
            <4>1. a \in Asps
                BY <1>7 DEF UpIn, Working
            <4>2. SeenNotice(more, a, s, q) = o.state[s]
                BY <1>8, <2>2, <3>3, <4>1 DEF Informs
            <4> QED BY <1>3, <1>10, <2>2, <4>2 DEF SeenNotice
        <3> QED BY <3>1, <3>2, <3>3 DEF Reports
    <2>3. CASE t # s
        <3>1. Silent(o.out, t)
            BY <1>3, <1>10, <1>12, <2>3 DEF Silent
        <3>2. /\ \A q : SeenState(o.out, t, q) = q
              /\ \A a, q : SeenActive(o.out, a, t, q) = q /\ SeenNotice(o.out, a, t, q) = q
            BY <3>1, SilenceSaysNothing
        <3>3. o.state[t] = b.state[t]
            BY <1>0, <1>5, <1>6, <2>3 DEF Working
        <3>4. \A a \in UpIn(o, t) : a \in b.up
            BY <1>7 DEF UpIn
        <3> QED BY <2>1, <3>2, <3>3, <3>4 DEF Reports
    <2> QED BY <2>2, <2>3
<1>16. Sound(o)
    <2>1. \A t \in Servers : ActiveIn(o, t) = ActiveIn(b, t)
        BY <1>6, <1>7 DEF ActiveIn, IsActive
    <2>2. \A t \in Servers : o.state[t] = "Pending" => b.state[t] = "Pending"
        BY <1>0, <1>2, <1>5, <1>6 DEF Working
    <2> QED BY <1>6, <1>7, <2>1, <2>2 DEF Sound
<1>17. Expired(b, o, s)
    BY <1>3, <1>5, <1>6, <1>7, <1>10, <1>13, <1>14, <1>15, <1>16 DEF Expired, idle
<1> QED BY <1>1, <1>17
=============================================================================
