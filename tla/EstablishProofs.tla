---------------------------- MODULE EstablishProofs ----------------------------
(* Proofs about Establish, for any identities, servers, NATs and versions, and  *)
(* whatever is lost, late or closed, without fairness.                          *)
EXTENDS Establish, TLAPS

USE PeersAreSane, ServersAreSane

(* There are two peers, and two servers. *)
LEMMA OtherIs ==
  ASSUME NEW p \in Peers
  PROVE  Other(p) \in Peers /\ Other(p) # p /\ Other(Other(p)) = p /\ Peers = {p, Other(p)}
  BY DEF Other

LEMMA ServersAre == ServerB \in Servers /\ ServerB # ServerA /\ Servers = {ServerA, ServerB}
  BY DEF ServerB

LEMMA ConnsAre ==
  /\ Peers \subseteq Conns /\ Stranger \in Conns /\ NoConn \notin Conns
  /\ \A c \in Conns : Callee(c) \in Peers
  BY OtherIs DEF Conns, Callee

-------------------------------------------------------------------------------
(* Types.  A peer talks on the connection it kept, so TypeOK needs to know that *)
(* there is one.                                                                *)

Talking == {"shake", "said_hello", "said_ack", "said_config", "up"}
KeptIsThere == \A p \in Peers : stage[p] \in Talking => kept[p] # NoConn
TypeInv == TypeOK /\ KeptIsThere

-------------------------------------------------------------------------------
(* What is known of a peer's NAT on the way to the punch.                       *)

AnySymmetric == \E p \in Peers : nat[p] = "symmetric"

(* The port at the first server is told before the second is asked; both are    *)
(* the mapped ones when the peer registers.                                     *)
PortsAreMapped ==
  \A p \in Peers :
    /\ stage[p] = "stun" => asked[p] = ServerA \/ ports[p][ServerA] = ServerA
    /\ stage[p] = "register" => ports[p] = [s \in Servers |-> Mapped(p, s)]

(* Nobody dials before the match.                                               *)
NobodyDialledYet ==
  \A p \in Peers : stage[p] \in {"stun", "register", "hello"} => client[p] = "none"

(* Past the match, a symmetric peer means that the relay was chosen.            *)
RelayWasChosen ==
  AnySymmetric =>
    \A p \in Peers : stage[p] \notin {"stun", "register", "failed"} \/ client[p] # "none" => relay

PunchInv ==
  mode = "rendezvous" => PortsAreMapped /\ NobodyDialledYet /\ RelayWasChosen

-------------------------------------------------------------------------------
(* The race and the handshake.  First is the client.                            *)

Second == Other(First)

(* A peer keeps a connection once, and not a third party's.                     *)
KeptOnce ==
  \A p \in Peers :
    /\ stage[p] \in {"stun", "register", "hello", "race"} => kept[p] = NoConn
    /\ mode # "lan" => kept[p] # Stranger

Agreed == kept[First] = kept[Second] /\ VersionOk(First)

RolesAreKept ==
  \A p \in Peers :
    /\ stage[p] \in {"said_hello", "said_config"} => p = First
    /\ stage[p] = "said_ack" => p # First

(* What a message on a connection, or a stage, says of the other side.          *)
ClientSpoke ==
  \A c \in Conns : <<c, "hello">> \in wire \/ <<c, "config">> \in wire => c = kept[First]
ServerSpoke ==
  \A c \in Conns : <<c, "hello_ack">> \in wire \/ <<c, "config_ack">> \in wire =>
                   c = kept[Second] /\ Agreed
ServerKnows == stage[Second] \in {"said_ack", "up"} => Agreed
ClientKnows == stage[First] \in {"said_config", "up"} => Agreed
AckMeansUp == \A c \in Conns : <<c, "config_ack">> \in wire => stage[Second] = "up"
UpMeansUp == stage[First] = "up" => stage[Second] = "up"

HandInv ==
  /\ KeptOnce /\ RolesAreKept
  /\ ClientSpoke /\ ServerSpoke /\ ServerKnows /\ ClientKnows /\ AckMeansUp /\ UpMeansUp
-------------------------------------------------------------------------------
(* The types are kept. *)

LEMMA InitTypes == Init => TypeInv
<1> SUFFICES ASSUME Init PROVE TypeInv
  OBVIOUS
<1>1. ServerA \in Servers /\ First \in Peers /\ Stranger \in Conns /\ Peers \subseteq Conns
  BY ConnsAre
<1>2. PICK calls \in Strangers :
        /\ client = [c \in Conns |-> IF c = Stranger /\ calls THEN "dialled" ELSE "none"]
        /\ wire = IF calls THEN {<<Stranger, "initial">>} ELSE {}
        /\ calm = ~calls
  BY DEF Init
<1>3. client \in [Conns -> {"none", "dialled", "open", "closed"}]
  BY <1>2
<1>4. wire \subseteq Conns \X Kinds
  BY <1>1, <1>2 DEF Kinds
<1>5. calm \in BOOLEAN
  BY <1>2
<1>6. stage \in [Peers -> {"stun", "register", "race"}]
  BY DEF Init
<1>7. ports \in [Peers -> [Servers -> Servers \cup {"none"}]] /\ asked \in [Peers -> Servers]
  BY <1>1 DEF Init
<1>8. /\ server \in [Conns -> {"none", "accepting", "open", "closed"}]
      /\ accepts \in [Peers -> Conns \cup {NoConn}] /\ kept \in [Peers -> Conns \cup {NoConn}]
  BY DEF Init
<1> QED
  BY <1>3, <1>4, <1>5, <1>6, <1>7, <1>8 DEF Init, TypeInv, TypeOK, KeptIsThere, Ends, Talking

LEMMA FailsTypes ==
  ASSUME TypeInv, NEW p \in Peers, Fails(p), calm' \in BOOLEAN
  PROVE  TypeInv'
<1>1. stage' \in [Peers -> {"stun", "register", "hello", "race", "shake", "said_hello",
                            "said_ack", "said_config"} \cup Ends]
      /\ accepts' \in [Peers -> Conns \cup {NoConn}]
  BY DEF Fails, TypeInv, TypeOK, Ends
<1>2. client' \in [Conns -> {"none", "dialled", "open", "closed"}]
  BY ConnsAre DEF Fails, TypeInv, TypeOK
<1>3. server' \in [Conns -> {"none", "accepting", "open", "closed"}]
  BY DEF Fails, TypeInv, TypeOK
<1>4. wire' \subseteq Conns \X Kinds
  <2>1. Holds(p) \subseteq Conns /\ p \in Conns
    BY ConnsAre DEF Holds
  <2>2. {"close_to_client", "close_to_server"} \subseteq Kinds
    BY DEF Kinds
  <2> QED
    BY <2>1, <2>2 DEF Fails, TypeInv, TypeOK
<1>5. KeptIsThere'
  BY DEF Fails, TypeInv, TypeOK, KeptIsThere, Talking
<1> QED
  BY <1>1, <1>2, <1>3, <1>4, <1>5 DEF Fails, TypeInv, TypeOK, setup, stun, match

LEMMA StepTypes ==
  ASSUME TypeInv, NEW p \in Peers, NEW from \in Talking, NEW take, NEW give \in Kinds \cup {""},
         NEW to \in Talking, Step(p, from, take, give, to)
  PROVE  TypeInv'
<1>1. kept[p] \in Conns
  BY DEF Step, TypeInv, TypeOK, KeptIsThere
<1>2. wire' \subseteq Conns \X Kinds
  <2>1. wire' = (wire \ {<<kept[p], take>>}) \cup (IF give = "" THEN {} ELSE {<<kept[p], give>>})
    BY DEF Step
  <2>2. give # "" => <<kept[p], give>> \in Conns \X Kinds
    BY <1>1
  <2> QED
    BY <2>1, <2>2 DEF TypeInv, TypeOK
<1>3. /\ stage' \in [Peers -> {"stun", "register", "hello", "race", "shake", "said_hello",
                               "said_ack", "said_config"} \cup Ends]
      /\ KeptIsThere'
  BY DEF Step, TypeInv, TypeOK, KeptIsThere, Talking, Ends
<1> QED
  BY <1>2, <1>3 DEF Step, TypeInv, TypeOK, setup, stun, match

(* What Keep leaves. *)
LEMMA KeepTypes ==
  ASSUME TypeInv, NEW p \in Peers, NEW c \in Conns, Keep(p, c)
  PROVE  /\ stage' \in [Peers -> {"stun", "register", "hello", "race", "shake", "said_hello",
                                  "said_ack", "said_config"} \cup Ends]
         /\ accepts' \in [Peers -> Conns \cup {NoConn}]
         /\ kept' \in [Peers -> Conns \cup {NoConn}]
         /\ KeptIsThere'
  BY ConnsAre DEF Keep, TypeInv, TypeOK, KeptIsThere, Ends, Talking

LEMMA SetUpTypes ==
  ASSUME TypeInv,
         Match \/ \E p \in Peers : SendHellos(p) \/ \E s \in Servers : StunAnswer(p, s)
  PROVE  TypeInv'
<1>1. CASE Match
  <2>1. PICK told \in SUBSET Peers :
          /\ stage' = [p \in Peers |-> IF p \notin told THEN "failed"
                                       ELSE IF relay' THEN "hello" ELSE "race"]
          /\ calm' = (calm /\ told = Peers)
    BY <1>1 DEF Match
  <2>2. stage' \in [Peers -> {"failed", "hello", "race"}] /\ calm' \in BOOLEAN
    BY <2>1 DEF TypeInv, TypeOK
  <2>3. relay' \in BOOLEAN
    BY <1>1 DEF Match
  <2> QED
    BY <1>1, <2>2, <2>3 DEF Match, TypeInv, TypeOK, KeptIsThere, Talking, Ends, setup, stun, links
<1>2. ASSUME NEW p \in Peers, SendHellos(p) PROVE TypeInv'
  <2>1. joined' \subseteq Peers /\ calm' \in BOOLEAN
    BY <1>2 DEF SendHellos, TypeInv, TypeOK
  <2> QED
    BY <1>2, <2>1 DEF SendHellos, TypeInv, TypeOK, KeptIsThere, Talking, Ends, setup, stun, links
<1>3. ASSUME NEW p \in Peers, NEW s \in Servers, StunAnswer(p, s) PROVE TypeInv'
  <2>1. ports' \in [Peers -> [Servers -> Servers \cup {"none"}]]
    BY <1>3 DEF StunAnswer, Mapped, TypeInv, TypeOK
  <2>2. /\ asked' \in [Peers -> Servers]
        /\ stage' = stage \/ stage' = [stage EXCEPT ![p] = "register"]
    BY <1>3, ServersAre DEF StunAnswer, TypeInv, TypeOK
  <2> QED
    BY <1>3, <2>1, <2>2
    DEF StunAnswer, TypeInv, TypeOK, KeptIsThere, Talking, Ends, setup, match, links
<1> QED
  BY <1>1, <1>2, <1>3

LEMMA RaceTypes ==
  ASSUME TypeInv, NEW p \in Peers,
         Dial(p) \/ ConnectDone(p) \/ AcceptDone(p) \/ AcceptStranger(p) \/ \E c \in Conns : Accept(p, c)
  PROVE  TypeInv'
<1>0. p \in Conns /\ Holds(p) \subseteq Conns
  BY ConnsAre DEF Holds
<1>a. {"initial", "reply", "magic", "close_to_client", "close_to_server"} \subseteq Kinds
  BY DEF Kinds
<1>1. CASE Dial(p)
  <2>1. wire' \subseteq Conns \X Kinds
    BY <1>0, <1>a, <1>1 DEF Dial, TypeInv, TypeOK
  <2> QED
    BY <1>0, <1>1, <2>1 DEF Dial, TypeInv, TypeOK, KeptIsThere, setup, stun, match
<1>2. CASE ConnectDone(p)
  <2>1. wire' \subseteq Conns \X Kinds
    BY <1>0, <1>a, <1>2 DEF ConnectDone, TypeInv, TypeOK
  <2>2. /\ client' \in [Conns -> {"none", "dialled", "open", "closed"}]
        /\ server' \in [Conns -> {"none", "accepting", "open", "closed"}]
    BY <1>0, <1>2 DEF ConnectDone, TypeInv, TypeOK
  <2> QED
    BY <1>0, <1>2, <2>1, <2>2, KeepTypes DEF ConnectDone, TypeInv, TypeOK, setup, stun, match
<1>3. CASE AcceptDone(p)
  <2> DEFINE c == accepts[p]
  <2>0. c \in Conns
    BY <1>3 DEF AcceptDone, TypeInv, TypeOK
  <2>1. wire' \subseteq Conns \X Kinds
    BY <1>0, <1>a, <1>3 DEF AcceptDone, TypeInv, TypeOK
  <2>2. /\ client' \in [Conns -> {"none", "dialled", "open", "closed"}]
        /\ server' \in [Conns -> {"none", "accepting", "open", "closed"}]
    BY <1>0, <1>3, <2>0 DEF AcceptDone, TypeInv, TypeOK
  <2> QED
    BY <1>3, <2>0, <2>1, <2>2, KeepTypes DEF AcceptDone, TypeInv, TypeOK, setup, stun, match
<1>4. CASE AcceptStranger(p)
  <2> DEFINE c == accepts[p]
  <2>0. c \in Conns
    BY <1>4 DEF AcceptStranger, TypeInv, TypeOK
  <2>1. wire' \subseteq Conns \X Kinds
    BY <1>a, <1>4, <2>0 DEF AcceptStranger, TypeInv, TypeOK
  <2> QED
    BY <1>4, <2>0, <2>1 DEF AcceptStranger, TypeInv, TypeOK, KeptIsThere, setup, stun, match
<1>5. ASSUME NEW c \in Conns, Accept(p, c) PROVE TypeInv'
  <2>1. wire' \subseteq Conns \X Kinds
    BY <1>a, <1>5 DEF Accept, TypeInv, TypeOK
  <2> QED
    BY <1>5, <2>1 DEF Accept, TypeInv, TypeOK, KeptIsThere, setup, stun, match
<1> QED
  BY <1>1, <1>2, <1>3, <1>4, <1>5

LEMMA WireTypes ==
  ASSUME TypeInv, StrangerAnswers \/ CloseLost
  PROVE  TypeInv'
<1>1. CASE StrangerAnswers
  <2>1. wire' \subseteq Conns \X Kinds
    BY <1>1, ConnsAre DEF StrangerAnswers, TypeInv, TypeOK, Kinds
  <2> QED
    BY <1>1, <2>1, ConnsAre DEF StrangerAnswers, TypeInv, TypeOK, KeptIsThere, setup, stun, match
<1>2. CASE CloseLost
  BY <1>2 DEF CloseLost, TypeInv, TypeOK, KeptIsThere, setup, stun, match
<1> QED
  BY <1>1, <1>2

(* The actions by the form they have. *)
LEMMA PeerSteps ==
  ASSUME NEW p \in Peers, PeerStep(p) \/ Timeout(p)
  PROVE  \/ \E s \in Servers : StunAnswer(p, s)
         \/ SendHellos(p)
         \/ Dial(p) \/ ConnectDone(p) \/ AcceptDone(p) \/ AcceptStranger(p)
         \/ \E c \in Conns : Accept(p, c)
         \/ Fails(p) /\ (UNCHANGED calm \/ calm' = FALSE) /\ stage[p] \notin Ends
         \/ SendHello(p) \/ OnHello(p) \/ OnHelloAck(p) \/ OnConfig(p) \/ OnConfigAck(p)
<1>1. Timeout(p) \/ Unmatched(p) \/ CloseArrives(p) \/ OddVersion(p) =>
        Fails(p) /\ (UNCHANGED calm \/ calm' = FALSE) /\ stage[p] \notin Ends
  BY DEF Timeout, HasTimeout, Unmatched, CloseArrives, OddVersion, Ends
<1> QED
  BY <1>1 DEF PeerStep

LEMMA HandTypes ==
  ASSUME TypeInv, NEW p \in Peers,
         SendHello(p) \/ OnHello(p) \/ OnHelloAck(p) \/ OnConfig(p) \/ OnConfigAck(p)
  PROVE  TypeInv'
<1>1. {"shake", "said_hello", "said_ack", "said_config", "up"} \subseteq Talking
  BY DEF Talking
<1>2. {"hello", "hello_ack", "config", "config_ack"} \subseteq Kinds
  BY DEF Kinds
<1> QED
  BY <1>1, <1>2, StepTypes DEF SendHello, OnHello, OnHelloAck, OnConfig, OnConfigAck

LEMMA NextTypes == TypeInv /\ [Next]_vars => TypeInv'
<1>1. ASSUME TypeInv, NEW p \in Peers, PeerStep(p) \/ Timeout(p) PROVE TypeInv'
  <2>1. CASE Fails(p) /\ (UNCHANGED calm \/ calm' = FALSE)
    BY <1>1, <2>1, FailsTypes DEF TypeInv, TypeOK
  <2> QED
    BY <1>1, <2>1, PeerSteps, SetUpTypes, RaceTypes, HandTypes
<1>2. ASSUME TypeInv, UNCHANGED vars PROVE TypeInv'
  BY <1>2 DEF TypeInv, TypeOK, KeptIsThere, vars, setup, stun, match, links
<1> QED
  BY <1>1, <1>2, SetUpTypes, WireTypes DEF Next

(* Whatever happens, every variable of Establish has its type. *)
THEOREM TypeCorrect == Spec => []TypeOK
<1>1. TypeInv => TypeOK
  BY DEF TypeInv
<1> QED
  BY InitTypes, NextTypes, <1>1, PTL DEF Spec

-------------------------------------------------------------------------------
(* The punch. *)

LEMMA InitPunch == Init => PunchInv
<1> SUFFICES ASSUME Init, mode = "rendezvous" PROVE PortsAreMapped /\ NobodyDialledYet /\ RelayWasChosen
  BY DEF PunchInv
<1>1. \A p \in Peers : stage[p] = "stun" /\ asked[p] = ServerA
  BY DEF Init
<1>2. \A p \in Peers : client[p] = "none"
  <2>1. PICK calls \in Strangers :
          client = [c \in Conns |-> IF c = Stranger /\ calls THEN "dialled" ELSE "none"]
    BY DEF Init
  <2> QED
    BY <2>1, ConnsAre
<1> QED
  BY <1>1, <1>2 DEF PortsAreMapped, NobodyDialledYet, RelayWasChosen

(* The steps of a peer that is past the match, and those that end one.          *)
LEMMA LaterPunch ==
  ASSUME TypeInv, PunchInv, UNCHANGED <<setup, stun, relay>>, NEW p \in Peers,
         \A q \in Peers :
           \/ stage'[q] \in {stage[q], "failed"}
           \/ /\ stage[q] \notin {"stun", "register", "failed"}
              /\ stage'[q] \notin {"stun", "register", "hello"},
         \A q \in Peers : client'[q] = "none" => client[q] = "none",
         \A q \in Peers : client'[q] # "none" =>
           client[q] # "none" \/ (q = p /\ stage[p] = "race" /\ stage'[p] = "race")
  PROVE  PunchInv'
<1> SUFFICES ASSUME mode = "rendezvous" PROVE PortsAreMapped' /\ NobodyDialledYet' /\ RelayWasChosen'
  BY DEF PunchInv, setup
<1>1. PortsAreMapped /\ NobodyDialledYet /\ RelayWasChosen
  BY DEF PunchInv
<1>2. PortsAreMapped'
  BY <1>1 DEF PortsAreMapped, stun, setup, Mapped
<1>3. NobodyDialledYet'
  BY <1>1 DEF NobodyDialledYet
<1>4. RelayWasChosen'
  BY <1>1 DEF RelayWasChosen, AnySymmetric, setup
<1> QED
  BY <1>2, <1>3, <1>4

LEMMA StunPunch ==
  ASSUME TypeInv, PunchInv, NEW p \in Peers, NEW s \in Servers, StunAnswer(p, s)
  PROVE  PunchInv'
<1> SUFFICES ASSUME mode = "rendezvous" PROVE PortsAreMapped' /\ NobodyDialledYet' /\ RelayWasChosen'
  BY DEF PunchInv, StunAnswer, setup
<1>0. PortsAreMapped /\ NobodyDialledYet /\ RelayWasChosen /\ s = asked[p] /\ stage[p] = "stun"
  BY DEF PunchInv, StunAnswer, Answers
<1>1. ports' = [ports EXCEPT ![p][s] = Mapped(p, s)] /\ UNCHANGED <<nat, client, relay>>
  BY <1>0 DEF StunAnswer, setup, match, links
<1>2. \A q \in Peers : q # p => stage'[q] = stage[q] /\ asked'[q] = asked[q] /\ ports'[q] = ports[q]
  BY <1>1 DEF StunAnswer, TypeInv, TypeOK
<1>3. ports'[p] = [ports[p] EXCEPT ![s] = Mapped(p, s)] /\ ports[p] \in [Servers -> Servers \cup {"none"}]
  BY <1>1 DEF TypeInv, TypeOK
<1>4. PortsAreMapped'
  <2>1. CASE s = ServerA
    <3>1. stage'[p] = "stun" /\ ports'[p][ServerA] = ServerA
      BY <1>0, <1>3, <2>1 DEF StunAnswer, Mapped
    <3> QED
      BY <1>0, <1>1, <1>2, <3>1 DEF PortsAreMapped, Mapped
  <2>2. CASE s # ServerA
    <3>1. s = ServerB /\ ports[p][ServerA] = ServerA /\ stage'[p] = "register"
      BY <1>0, <2>2, ServersAre DEF PortsAreMapped, StunAnswer, TypeInv, TypeOK
    <3>2. ports'[p] = [x \in Servers |-> Mapped(p, x)]
      BY <1>3, <3>1, ServersAre DEF Mapped
    <3> QED
      BY <1>0, <1>1, <1>2, <3>1, <3>2 DEF PortsAreMapped, Mapped
  <2> QED
    BY <2>1, <2>2
<1>5. stage'[p] \in {"stun", "register"}
  BY <1>0 DEF StunAnswer, TypeInv, TypeOK
<1>6. NobodyDialledYet' /\ RelayWasChosen'
  BY <1>0, <1>1, <1>2, <1>5 DEF NobodyDialledYet, RelayWasChosen, AnySymmetric
<1> QED
  BY <1>4, <1>6

(* Two ports that differ are a symmetric NAT, and the other way round.          *)
LEMMA MatchPunch ==
  ASSUME TypeInv, PunchInv, Match
  PROVE  PunchInv'
<1> SUFFICES ASSUME mode = "rendezvous" PROVE PortsAreMapped' /\ NobodyDialledYet' /\ RelayWasChosen'
  BY DEF PunchInv, Match, setup
<1>0. PortsAreMapped /\ NobodyDialledYet /\ RelayWasChosen /\ \A p \in Peers : stage[p] = "register"
  BY DEF PunchInv, Match
<1>1. UNCHANGED <<nat, client>> /\ \A p \in Peers : stage'[p] \in {"failed", "hello", "race"}
  BY DEF Match, setup, links
<1>2. AnySymmetric => relay'
  <2> SUFFICES ASSUME NEW p \in Peers, nat[p] = "symmetric" PROVE relay'
    BY DEF AnySymmetric
  <2>1. ports[p][ServerA] = ServerA /\ ports[p][ServerB] = ServerB
    BY <1>0, ServersAre DEF PortsAreMapped, Mapped
  <2>2. WantRelay(p)
    BY <2>1, ServersAre DEF WantRelay
  <2> QED
    BY <2>2 DEF Match
<1>3. \A p \in Peers : client[p] = "none"
  BY <1>0 DEF NobodyDialledYet
<1> QED
  BY <1>1, <1>2, <1>3 DEF PortsAreMapped, NobodyDialledYet, RelayWasChosen, AnySymmetric

LEMMA NextPunch == TypeInv /\ PunchInv /\ [Next]_vars => PunchInv'
<1> SUFFICES ASSUME TypeInv, PunchInv PROVE [Next]_vars => PunchInv'
  OBVIOUS
<1>1. ASSUME NEW p \in Peers, PeerStep(p) \/ Timeout(p) PROVE PunchInv'
  <2>1. CASE Fails(p)
    <3>1. \A q \in Peers : stage'[q] = stage[q] \/ stage'[q] = "failed"
      BY <2>1 DEF Fails, TypeInv, TypeOK
    <3>2. \A q \in Peers : client'[q] = "none" <=> client[q] = "none"
      BY <2>1, ConnsAre DEF Fails, Dials, TypeInv, TypeOK
    <3> QED
      BY <2>1, <3>1, <3>2, LaterPunch DEF Fails, match
  <2>2. CASE SendHellos(p)
    <3>1. /\ UNCHANGED <<setup, stun, relay, client>>
          /\ \A q \in Peers : stage'[q] = stage[q] \/ (stage[q] = "hello" /\ stage'[q] = "race")
      BY <2>2 DEF SendHellos, links, TypeInv, TypeOK
    <3> QED
      BY <3>1, LaterPunch
  <2>3. CASE Dial(p)
    <3>1. /\ UNCHANGED <<setup, stun, relay, stage>> /\ stage[p] = "race" /\ client[p] = "none"
          /\ client'[p] = "dialled" /\ \A q \in Peers : q # p => client'[q] = client[q]
      BY <2>3, ConnsAre DEF Dial, match, TypeInv, TypeOK
    <3> QED
      BY <3>1, LaterPunch
  <2>4. CASE ConnectDone(p) \/ AcceptDone(p) \/ AcceptStranger(p)
    <3>1. /\ UNCHANGED <<setup, stun, relay>> /\ stage[p] = "race"
          /\ \A q \in Peers : stage'[q] = stage[q] \/ (stage[q] = "race" /\ stage'[q] = "shake")
          /\ \A q \in Peers : client'[q] = "none" <=> client[q] = "none"
      BY <2>4, ConnsAre DEF ConnectDone, AcceptDone, AcceptStranger, Keep, Dials, match, TypeInv, TypeOK
    <3> QED
      BY <3>1, LaterPunch
  <2>5. ASSUME NEW c \in Conns, Accept(p, c) PROVE PunchInv'
    BY <2>5, LaterPunch DEF Accept, match
  <2>6. CASE SendHello(p) \/ OnHello(p) \/ OnHelloAck(p) \/ OnConfig(p) \/ OnConfigAck(p)
    <3>1. /\ UNCHANGED <<setup, stun, relay, client>>
          /\ \A q \in Peers : stage'[q] = stage[q] \/ (stage[q] \in Talking /\ stage'[q] \in Talking)
      BY <2>6 DEF SendHello, OnHello, OnHelloAck, OnConfig, OnConfigAck, Step, match, Talking, TypeInv, TypeOK
    <3> QED
      BY <3>1, LaterPunch DEF Talking
  <2> QED
    BY <1>1, <2>1, <2>2, <2>3, <2>4, <2>5, <2>6, PeerSteps, StunPunch
<1>2. CASE StrangerAnswers \/ CloseLost \/ UNCHANGED vars
  <2>1. UNCHANGED <<setup, stun, relay, stage>> /\ \A q \in Peers : client'[q] = client[q]
    BY <1>2, ConnsAre, PeersAreSane DEF StrangerAnswers, CloseLost, vars, match, links, TypeInv, TypeOK
  <2> QED
    BY <2>1 DEF PunchInv, PortsAreMapped, NobodyDialledYet, RelayWasChosen, AnySymmetric, setup, stun, Mapped
<1> QED
  BY <1>1, <1>2, MatchPunch DEF Next

(* A peer behind a symmetric NAT is never punched at: whatever answers its      *)
(* socket gets, and in whatever order, classify_nat tells it from its two ports *)
(* and the match sends both peers to the relay before either dials.             *)
THEOREM SymmetricIsNeverPunched == Spec => []SymmetricIsNotPunched
<1>1. PunchInv => SymmetricIsNotPunched
  BY DEF PunchInv, RelayWasChosen, AnySymmetric, SymmetricIsNotPunched
<1> QED
  BY InitTypes, NextTypes, InitPunch, NextPunch, <1>1, PTL DEF Spec

-------------------------------------------------------------------------------
(* The session. *)

LEMMA InitHand == Init => HandInv
<1> SUFFICES ASSUME Init PROVE HandInv
  OBVIOUS
<1>0. First \in Peers /\ Second \in Peers
  BY OtherIs DEF Second
<1>1. \A g \in wire : g[2] = "initial"
  BY DEF Init
<1>2. \A c \in Conns, k \in {"hello", "hello_ack", "config", "config_ack"} : <<c, k>> \notin wire
  BY <1>1
<1>3. \A p \in Peers : kept[p] = NoConn /\ stage[p] \in {"race", "register", "stun"}
  BY DEF Init
<1>4. stage[First] \in {"race", "register", "stun"} /\ stage[Second] \in {"race", "register", "stun"}
  BY <1>0, <1>3
<1>5. KeptOnce
  BY <1>3, PeersAreSane DEF KeptOnce
<1>6. ClientSpoke /\ ServerSpoke /\ AckMeansUp
  BY <1>2 DEF ClientSpoke, ServerSpoke, AckMeansUp
<1>7. ServerKnows /\ ClientKnows /\ UpMeansUp
  BY <1>4 DEF ServerKnows, ClientKnows, UpMeansUp
<1>8. RolesAreKept
  BY <1>3 DEF RolesAreKept
<1> QED
  BY <1>5, <1>6, <1>7, <1>8 DEF HandInv

Said(k) == {c \in Conns : <<c, k>> \in wire}
Words == {"hello", "hello_ack", "config", "config_ack"}

(* A step that says nothing, and moves nobody on in the handshake.              *)
LEMMA SilentHand ==
  ASSUME TypeInv, HandInv, UNCHANGED setup,
         \A c \in Conns, k \in Words : <<c, k>> \in wire' => <<c, k>> \in wire,
         \A p \in Peers : \/ kept'[p] = kept[p]
                          \/ stage[p] = "race" /\ kept'[p] \in Conns /\ (mode # "lan" => kept'[p] # Stranger),
         \A p \in Peers : \/ stage'[p] = stage[p] /\ kept'[p] = kept[p]
                          \/ stage'[p] = "failed" /\ stage[p] # "up" /\ kept'[p] = kept[p]
                          \/ stage'[p] = "shake" /\ stage[p] = "race"
                          \/ /\ stage'[p] \in {"register", "hello", "race"} /\ kept'[p] = kept[p]
                             /\ stage[p] \in {"stun", "register", "hello"}
  PROVE  HandInv'
<1>0. First \in Peers /\ Second \in Peers /\ First # Second
  BY OtherIs DEF Second
<1>1. KeptOnce'
  <2> SUFFICES ASSUME NEW p \in Peers
               PROVE  /\ stage'[p] \in {"stun", "register", "hello", "race"} => kept'[p] = NoConn
                      /\ mode' # "lan" => kept'[p] # Stranger
    BY DEF KeptOnce
  <2>1. mode' = mode
    BY DEF setup
  <2>2. /\ stage[p] \in {"stun", "register", "hello", "race"} => kept[p] = NoConn
        /\ mode # "lan" => kept[p] # Stranger
    BY DEF HandInv, KeptOnce
  <2> QED
    BY <2>1, <2>2
<1>2. \A p \in Peers : kept[p] # NoConn => kept'[p] = kept[p]
  BY DEF HandInv, KeptOnce
<1>3. \A p \in Peers : stage'[p] \in {"said_ack", "said_config", "up"} => stage[p] = stage'[p]
  OBVIOUS
<1>4. \A p \in Peers : stage[p] = "up" => stage'[p] = "up"
  OBVIOUS
<1>5. NoConn \notin Conns /\ UNCHANGED odd
  BY ConnsAre DEF setup
<1>6. Agreed /\ kept[First] # NoConn /\ kept[Second] # NoConn => Agreed'
  BY <1>0, <1>2, <1>5 DEF Agreed, VersionOk
<1>7. ClientSpoke'
  BY <1>0, <1>2, <1>5 DEF HandInv, ClientSpoke, Words
<1>8. ServerSpoke'
  <2> SUFFICES ASSUME NEW c \in Conns, <<c, "hello_ack">> \in wire' \/ <<c, "config_ack">> \in wire'
               PROVE  c = kept'[Second] /\ Agreed'
    BY DEF ServerSpoke
  <2>1. c = kept[Second] /\ Agreed
    BY DEF HandInv, ServerSpoke, Words
  <2> QED
    BY <1>0, <1>2, <1>5, <1>6, <2>1 DEF Agreed
<1>9. ServerKnows' /\ ClientKnows'
  <2>1. \A p \in Peers : stage[p] \in {"said_ack", "said_config", "up"} => kept[p] # NoConn
    BY DEF TypeInv, KeptIsThere, Talking
  <2>2. stage[Second] \in {"said_ack", "up"} \/ stage[First] \in {"said_config", "up"} =>
          kept[First] # NoConn /\ kept[Second] # NoConn
    BY <1>0, <2>1 DEF HandInv, ServerKnows, ClientKnows, Agreed
  <2> QED
    BY <1>0, <1>3, <1>6, <2>2 DEF HandInv, ServerKnows, ClientKnows
<1>10. AckMeansUp' /\ UpMeansUp'
  BY <1>0, <1>3, <1>4 DEF HandInv, AckMeansUp, UpMeansUp, Words
<1>11. RolesAreKept'
  BY DEF HandInv, RolesAreKept
<1> QED
  BY <1>1, <1>7, <1>8, <1>9, <1>10, <1>11 DEF HandInv

(* The race says no words, and keeps a connection of the two.                   *)
LEMMA RaceIsSilent ==
  ASSUME TypeInv, HandInv, NEW p \in Peers,
         Dial(p) \/ ConnectDone(p) \/ AcceptDone(p) \/ AcceptStranger(p) \/ \E c \in Conns : Accept(p, c)
  PROVE  HandInv'
<1>0. p \in Conns /\ p # Stranger /\ Other(p) # Stranger
  BY ConnsAre, OtherIs, PeersAreSane
<1>1. CASE ConnectDone(p)
  <2>1. UNCHANGED setup /\ Keep(p, p) /\ stage[p] = "race"
    BY <1>1 DEF ConnectDone
  <2>2. \A c \in Conns, k \in Words : <<c, k>> \in wire' => <<c, k>> \in wire
    BY <1>1 DEF ConnectDone, Words
  <2>3. \A q \in Peers : /\ kept'[q] = IF q = p THEN p ELSE kept[q]
                         /\ stage'[q] = IF q = p THEN "shake" ELSE stage[q]
    BY <2>1 DEF Keep, TypeInv, TypeOK
  <2> QED
    BY <1>0, <2>1, <2>2, <2>3, SilentHand
<1>2. CASE AcceptDone(p)
  <2> DEFINE c == accepts[p]
  <2>1. UNCHANGED setup /\ Keep(p, c) /\ stage[p] = "race" /\ c \in Conns
    BY <1>2 DEF AcceptDone, TypeInv, TypeOK
  <2>2. mode # "lan" => c # Stranger
    BY <1>0, <1>2 DEF AcceptDone, PeerMatches
  <2>3. \A d \in Conns, k \in Words : <<d, k>> \in wire' => <<d, k>> \in wire
    BY <1>2 DEF AcceptDone, Words
  <2>4. \A q \in Peers : /\ kept'[q] = IF q = p THEN c ELSE kept[q]
                         /\ stage'[q] = IF q = p THEN "shake" ELSE stage[q]
    BY <2>1 DEF Keep, TypeInv, TypeOK
  <2> QED
    BY <2>1, <2>2, <2>3, <2>4, SilentHand
<1>3. CASE Dial(p) \/ AcceptStranger(p) \/ \E c \in Conns : Accept(p, c)
  <2>1. UNCHANGED <<setup, stage, kept>>
    BY <1>3 DEF Dial, AcceptStranger, Accept
  <2>2. \A d \in Conns, k \in Words : <<d, k>> \in wire' => <<d, k>> \in wire
    <3>1. CASE Dial(p)
      BY <3>1 DEF Dial, Words
    <3>2. CASE AcceptStranger(p)
      BY <3>2 DEF AcceptStranger, Words
    <3>3. ASSUME NEW c \in Conns, Accept(p, c)
          PROVE  \A d \in Conns, k \in Words : <<d, k>> \in wire' => <<d, k>> \in wire
      BY <3>3 DEF Accept, Words
    <3> QED
      BY <1>3, <3>1, <3>2, <3>3
  <2> QED
    BY <2>1, <2>2, SilentHand
<1> QED
  BY <1>1, <1>2, <1>3

LEMMA OthersAreSilent ==
  ASSUME TypeInv, HandInv,
         \/ Match \/ StrangerAnswers \/ CloseLost
         \/ \E p \in Peers : \/ Fails(p) /\ stage[p] \notin Ends
                             \/ SendHellos(p) \/ \E s \in Servers : StunAnswer(p, s)
  PROVE  HandInv'
<1>1. CASE Match
  <2>1. \A p \in Peers : stage[p] = "register" /\ stage'[p] \in {"failed", "hello", "race"}
    BY <1>1 DEF Match
  <2> QED
    BY <1>1, <2>1, SilentHand DEF Match, links
<1>2. CASE StrangerAnswers
  <2>1. UNCHANGED <<setup, stage, kept>>
    BY <1>2 DEF StrangerAnswers
  <2>2. \A d \in Conns, k \in Words : <<d, k>> \in wire' => <<d, k>> \in wire
    <3>1. PICK go \in {"magic", "close_to_server"} :
            wire' = (wire \ {<<Stranger, "reply">>}) \cup {<<Stranger, go>>}
      BY <1>2 DEF StrangerAnswers
    <3>2. go \notin Words
      BY DEF Words
    <3> QED
      BY <3>1, <3>2
  <2> QED
    BY <2>1, <2>2, SilentHand
<1>5. CASE CloseLost
  <2>1. UNCHANGED <<setup, stage, kept>>
    BY <1>5 DEF CloseLost
  <2>2. \A d \in Conns, k \in Words : <<d, k>> \in wire' => <<d, k>> \in wire
    BY <1>5 DEF CloseLost
  <2> QED
    BY <2>1, <2>2, SilentHand
<1>3. ASSUME NEW p \in Peers, Fails(p), stage[p] \notin Ends PROVE HandInv'
  <2>1. UNCHANGED <<setup, kept>>
    BY <1>3 DEF Fails
  <2>2. \A d \in Conns, k \in Words : <<d, k>> \in wire' => <<d, k>> \in wire
    BY <1>3 DEF Fails, Words
  <2>3. \A q \in Peers : stage'[q] = IF q = p THEN "failed" ELSE stage[q]
    BY <1>3 DEF Fails, TypeInv, TypeOK
  <2> QED
    BY <1>3, <2>1, <2>2, <2>3, SilentHand DEF Ends
<1>4. ASSUME NEW p \in Peers, SendHellos(p) \/ \E s \in Servers : StunAnswer(p, s) PROVE HandInv'
  <2>1. UNCHANGED <<setup, kept, wire>>
    BY <1>4 DEF SendHellos, StunAnswer, links
  <2>2. \A q \in Peers : \/ stage'[q] = stage[q]
                         \/ stage[q] \in {"stun", "hello"} /\ stage'[q] \in {"register", "race"}
    BY <1>4 DEF SendHellos, StunAnswer, TypeInv, TypeOK
  <2> QED
    BY <2>1, <2>2, SilentHand
<1> QED
  BY <1>1, <1>2, <1>3, <1>4, <1>5

(* What the exchange leaves alone, for one message of one side.                 *)
LEMMA StepIs ==
  ASSUME TypeInv, NEW p \in Peers, NEW from, NEW take, NEW give, NEW to \in Talking,
         Step(p, from, take, give, to)
  PROVE  /\ mode' = mode /\ odd' = odd /\ kept' = kept
         /\ stage[p] = from /\ stage'[p] = to
         /\ \A q \in Peers : q # p => stage'[q] = stage[q]
         /\ take # "" => <<kept[p], take>> \in wire
         /\ \A g \in wire' : g \in wire \/ (give # "" /\ g = <<kept[p], give>>)
<1>1. stage \in [Peers -> {"stun", "register", "hello", "race", "shake", "said_hello",
                          "said_ack", "said_config"} \cup Ends]
  BY DEF TypeInv, TypeOK
<1>2. stage' = [stage EXCEPT ![p] = to] /\ stage[p] = from
  BY DEF Step
<1>3. mode' = mode /\ odd' = odd /\ kept' = kept
  BY DEF Step, setup
<1>4. take # "" => <<kept[p], take>> \in wire
  BY DEF Step, Has
<1>5. \A g \in wire' : g \in wire \/ (give # "" /\ g = <<kept[p], give>>)
  BY DEF Step
<1> QED
  BY <1>1, <1>2, <1>3, <1>4, <1>5

LEMMA ExchangeHand ==
  ASSUME TypeInv, HandInv, NEW p \in Peers,
         SendHello(p) \/ OnHello(p) \/ OnHelloAck(p) \/ OnConfig(p) \/ OnConfigAck(p)
  PROVE  HandInv'
<1>0. /\ First \in Peers /\ Second \in Peers /\ First # Second /\ Peers = {First, Second}
      /\ Other(First) = Second /\ Other(Second) = First
  BY OtherIs DEF Second
<1>a. /\ KeptOnce /\ RolesAreKept /\ ClientSpoke /\ ServerSpoke
      /\ ServerKnows /\ ClientKnows /\ AckMeansUp /\ UpMeansUp
  BY DEF HandInv
<1>c. \A q \in Peers : kept[q] \in Conns \cup {NoConn}
  BY DEF TypeInv, TypeOK
<1>1. CASE SendHello(p)
  <2>1. p = First /\ Step(p, "shake", "", "hello", "said_hello")
    BY <1>1 DEF SendHello, IsClient
  <2>0. /\ mode' = mode /\ odd' = odd /\ kept' = kept
        /\ stage[p] = "shake" /\ stage'[p] = "said_hello"
        /\ \A q \in Peers : q # p => stage'[q] = stage[q]
        /\ \A g \in wire' : g \in wire \/ g = <<kept[p], "hello">>
    <3>1. "said_hello" \in Talking
      BY DEF Talking
    <3>2. Step(p, "shake", "", "hello", "said_hello")
      BY <2>1
    <3> QED
      BY <3>1, <3>2, StepIs
  <2>2. /\ UNCHANGED <<mode, odd, kept>> /\ stage[First] = "shake" /\ stage'[First] = "said_hello"
        /\ stage'[Second] = stage[Second]
        /\ \A g \in wire' : g \in wire \/ g = <<kept[First], "hello">>
    BY <1>0, <2>0, <2>1
  <2> QED
    BY <1>0, <1>a, <2>2
    DEF HandInv, KeptOnce, RolesAreKept, ClientSpoke, ServerSpoke, ServerKnows, ClientKnows,
        AckMeansUp, UpMeansUp, Agreed, VersionOk
<1>2. CASE OnHello(p)
  <2>1. p = Second /\ VersionOk(p) /\ kept[p] # NoConn /\ Step(p, "shake", "hello", "hello_ack", "said_ack")
    BY <1>0, <1>2 DEF OnHello, IsClient
  <2>0. /\ mode' = mode /\ odd' = odd /\ kept' = kept
        /\ stage[p] = "shake" /\ stage'[p] = "said_ack" /\ <<kept[p], "hello">> \in wire
        /\ \A q \in Peers : q # p => stage'[q] = stage[q]
        /\ \A g \in wire' : g \in wire \/ g = <<kept[p], "hello_ack">>
    <3>1. "said_ack" \in Talking
      BY DEF Talking
    <3>2. Step(p, "shake", "hello", "hello_ack", "said_ack")
      BY <2>1
    <3> QED
      BY <3>1, <3>2, StepIs
  <2>2. /\ UNCHANGED <<mode, odd, kept>> /\ stage[Second] = "shake" /\ stage'[Second] = "said_ack"
        /\ stage'[First] = stage[First] /\ <<kept[Second], "hello">> \in wire
        /\ \A g \in wire' : g \in wire \/ g = <<kept[Second], "hello_ack">>
    BY <1>0, <2>0, <2>1
  <2>3. kept[Second] = kept[First] /\ VersionOk(First)
    BY <1>0, <1>a, <1>c, <2>1, <2>2 DEF ClientSpoke, VersionOk
  <2> QED
    BY <1>0, <1>a, <2>2, <2>3
    DEF HandInv, KeptOnce, RolesAreKept, ClientSpoke, ServerSpoke, ServerKnows, ClientKnows,
        AckMeansUp, UpMeansUp, Agreed, VersionOk
<1>3. CASE OnHelloAck(p)
  <2>1. p = First /\ VersionOk(p) /\ Step(p, "said_hello", "hello_ack", "config", "said_config")
    BY <1>3, <1>a DEF OnHelloAck, RolesAreKept, Step
  <2>0. /\ mode' = mode /\ odd' = odd /\ kept' = kept
        /\ stage[p] = "said_hello" /\ stage'[p] = "said_config" /\ <<kept[p], "hello_ack">> \in wire
        /\ \A q \in Peers : q # p => stage'[q] = stage[q]
        /\ \A g \in wire' : g \in wire \/ g = <<kept[p], "config">>
    <3>1. "said_config" \in Talking
      BY DEF Talking
    <3>2. Step(p, "said_hello", "hello_ack", "config", "said_config")
      BY <2>1
    <3> QED
      BY <3>1, <3>2, StepIs
  <2>2. /\ UNCHANGED <<mode, odd, kept>> /\ stage[First] = "said_hello" /\ stage'[First] = "said_config"
        /\ stage'[Second] = stage[Second] /\ <<kept[First], "hello_ack">> \in wire
        /\ \A g \in wire' : g \in wire \/ g = <<kept[First], "config">>
    BY <1>0, <2>0, <2>1
  <2>3. kept[First] \in Conns
    BY <1>0, <1>c, <2>2 DEF TypeInv, KeptIsThere, Talking
  <2>4. Agreed
    BY <1>a, <2>2, <2>3 DEF ServerSpoke
  <2> QED
    BY <1>0, <1>a, <2>2, <2>4
    DEF HandInv, KeptOnce, RolesAreKept, ClientSpoke, ServerSpoke, ServerKnows, ClientKnows,
        AckMeansUp, UpMeansUp, Agreed, VersionOk
<1>4. CASE OnConfig(p)
  <2>1. p = Second /\ Step(p, "said_ack", "config", "config_ack", "up")
    BY <1>0, <1>4, <1>a DEF OnConfig, RolesAreKept, Step
  <2>0. /\ mode' = mode /\ odd' = odd /\ kept' = kept
        /\ stage[p] = "said_ack" /\ stage'[p] = "up" /\ <<kept[p], "config">> \in wire
        /\ \A q \in Peers : q # p => stage'[q] = stage[q]
        /\ \A g \in wire' : g \in wire \/ g = <<kept[p], "config_ack">>
    <3>1. "up" \in Talking
      BY DEF Talking
    <3>2. Step(p, "said_ack", "config", "config_ack", "up")
      BY <2>1
    <3> QED
      BY <3>1, <3>2, StepIs
  <2>2. /\ UNCHANGED <<mode, odd, kept>> /\ stage[Second] = "said_ack" /\ stage'[Second] = "up"
        /\ stage'[First] = stage[First]
        /\ \A g \in wire' : g \in wire \/ g = <<kept[Second], "config_ack">>
    BY <1>0, <2>0, <2>1
  <2>3. Agreed
    BY <1>a, <2>2 DEF ServerKnows
  <2> QED
    BY <1>0, <1>a, <2>2, <2>3
    DEF HandInv, KeptOnce, RolesAreKept, ClientSpoke, ServerSpoke, ServerKnows, ClientKnows,
        AckMeansUp, UpMeansUp, Agreed, VersionOk
<1>5. CASE OnConfigAck(p)
  <2>1. p = First /\ Step(p, "said_config", "config_ack", "", "up")
    BY <1>5, <1>a DEF OnConfigAck, RolesAreKept, Step
  <2>0. /\ mode' = mode /\ odd' = odd /\ kept' = kept
        /\ stage[p] = "said_config" /\ stage'[p] = "up" /\ <<kept[p], "config_ack">> \in wire
        /\ \A q \in Peers : q # p => stage'[q] = stage[q]
        /\ \A g \in wire' : g \in wire
    <3>1. "up" \in Talking
      BY DEF Talking
    <3>2. Step(p, "said_config", "config_ack", "", "up")
      BY <2>1
    <3> QED
      BY <3>1, <3>2, StepIs
  <2>2. /\ UNCHANGED <<mode, odd, kept>> /\ stage[First] = "said_config" /\ stage'[First] = "up"
        /\ stage'[Second] = stage[Second] /\ <<kept[First], "config_ack">> \in wire
        /\ \A g \in wire' : g \in wire
    BY <1>0, <2>0, <2>1
  <2>3. kept[First] \in Conns
    BY <1>0, <1>c, <2>2 DEF TypeInv, KeptIsThere, Talking
  <2>4. Agreed /\ stage[Second] = "up"
    BY <1>a, <2>2, <2>3 DEF ClientKnows, AckMeansUp
  <2> QED
    BY <1>0, <1>a, <2>2, <2>4
    DEF HandInv, KeptOnce, RolesAreKept, ClientSpoke, ServerSpoke, ServerKnows, ClientKnows,
        AckMeansUp, UpMeansUp, Agreed, VersionOk
<1> QED
  BY <1>1, <1>2, <1>3, <1>4, <1>5

LEMMA NextHand == TypeInv /\ HandInv /\ [Next]_vars => HandInv'
<1>1. ASSUME TypeInv, HandInv, NEW p \in Peers, PeerStep(p) \/ Timeout(p) PROVE HandInv'
  BY <1>1, PeerSteps, RaceIsSilent, OthersAreSilent, ExchangeHand
<1>2. ASSUME TypeInv, HandInv, UNCHANGED vars PROVE HandInv'
  BY <1>2, SilentHand DEF vars, links
<1> QED
  BY <1>1, <1>2, OthersAreSilent DEF Next

(* A handshake that is complete is complete on one connection, the one both     *)
(* kept, between peers of one version, and never with a third party; the client *)
(* has its session only when the server has.                                    *)
THEOREM SessionIsAlwaysOne == Spec => []OneSession
<1>1. HandInv => OneSession
  <2> SUFFICES ASSUME HandInv, mode # "lan"
               PROVE  /\ \A p \in Peers : kept[p] # Stranger
                      /\ \A p \in Peers : stage[p] = "up" =>
                           /\ kept[Other(p)] = kept[p]
                           /\ (p \in odd) <=> (Other(p) \in odd)
                           /\ IsClient(p) => stage[Other(p)] = "up"
    BY DEF OneSession
  <2>1. Peers = {First, Second} /\ Other(First) = Second /\ Other(Second) = First
    BY OtherIs DEF Second
  <2>2. \A p \in Peers : kept[p] # Stranger
    BY DEF HandInv, KeptOnce
  <2>3. stage[First] = "up" \/ stage[Second] = "up" => Agreed
    BY DEF HandInv, ServerKnows, ClientKnows
  <2>4. stage[First] = "up" => stage[Second] = "up"
    BY DEF HandInv, UpMeansUp
  <2> QED
    BY <2>1, <2>2, <2>3, <2>4 DEF Agreed, VersionOk, IsClient
<1> QED
  BY InitTypes, NextTypes, InitHand, NextHand, <1>1, PTL DEF Spec
===============================================================================
