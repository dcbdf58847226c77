------------------------------- MODULE Establish -------------------------------
(* How two peers get from nothing to a session (core/src/traversal, handshake,  *)
(* session): STUN on the socket QUIC will own, the rendezvous, the hellos to    *)
(* the relay, the hole punch that races connect against accept on both sides,   *)
(* and the application handshake over the connection each side kept.            *)
(* Datagrams come in any order and are retransmitted; a close may be lost.      *)
EXTENDS Naturals

CONSTANTS
  Peers, First,      (* First has the smaller device id                         *)
  Stranger,          (* a third party that opens one connection                 *)
  Servers, ServerA,  (* the two STUN servers, and the one asked first           *)
  Modes,             (* "rendezvous", "loopback", "lan"                         *)
  Odd,               (* sets of peers that may run another protocol version     *)
  Strangers,         (* whether the stranger calls: a subset of BOOLEAN         *)
  NoConn

ASSUME PeersAreSane ==
  /\ First \in Peers /\ \E q \in Peers : q # First /\ Peers = {First, q}
  /\ Stranger \notin Peers /\ NoConn \notin Peers \cup {Stranger}
ASSUME ServersAreSane ==
  ServerA \in Servers /\ \E s \in Servers : s # ServerA /\ Servers = {ServerA, s}

VARIABLES
  mode,    (* how the peers meet                                               *)
  odd,     (* peers that run another version                                   *)
  nat,     (* Peers -> "cone", "symmetric"                                     *)
  stage,   (* where each peer is                                               *)
  asked,   (* the STUN server a peer waits for                                 *)
  ports,   (* mapped port in the answer of each server                         *)
  relay,   (* the peers were matched through the relay                         *)
  joined,  (* peers whose hello reached the relay                              *)
  client,  (* connection -> what the side that dialled it made of it           *)
  server,  (* connection -> what the side it was dialled to made of it         *)
  accepts, (* Peers -> the inbound connection accept works on                  *)
  kept,    (* Peers -> the connection the race returned                        *)
  wire,    (* what is on its way: <<connection, kind>>                         *)
  calm     (* history: no timeout, no loss, nobody else called                 *)
setup == <<mode, odd, nat>>
stun == <<asked, ports>>
match == <<relay, joined>>
links == <<client, server, accepts, kept, wire>>
vars == <<setup, stun, match, links, stage, calm>>

Conns == Peers \cup {Stranger}          (* a connection is named after its dialler *)
Ends == {"up", "failed"}
Other(p) == CHOOSE q \in Peers : q # p
ServerB == CHOOSE s \in Servers : s # ServerA
Kinds == {"initial", "reply", "magic", "hello", "hello_ack", "config", "config_ack",
          "close_to_client", "close_to_server"}

(* Who listens on a connection; the stranger calls First. *)
Callee(c) == IF c = Stranger THEN First ELSE Other(c)

Init ==
  /\ mode \in Modes /\ odd \in Odd /\ nat \in [Peers -> {"cone", "symmetric"}]
  /\ stage = [p \in Peers |-> CASE mode = "lan" -> "race"
                                [] mode = "loopback" -> "register"
                                [] OTHER -> "stun"]
  /\ asked = [p \in Peers |-> ServerA]
  /\ ports = [p \in Peers |-> [s \in Servers |-> "none"]]
  /\ relay = FALSE /\ joined = {}
  /\ \E calls \in Strangers :
       /\ client = [c \in Conns |-> IF c = Stranger /\ calls THEN "dialled" ELSE "none"]
       /\ wire = IF calls THEN {<<Stranger, "initial">>} ELSE {}
       /\ calm = ~calls
  /\ server = [c \in Conns |-> "none"]
  /\ accepts = [p \in Peers |-> NoConn]
  /\ kept = [p \in Peers |-> NoConn]

-------------------------------------------------------------------------------
(* Ending. *)

(* The connections a peer holds an end of, and the closes their drop sends.    *)
Dials(p) == client[p] \in {"dialled", "open"}
Holds(p) == {c \in Conns : Callee(c) = p /\ server[c] \in {"accepting", "open"}}

(* p drops its connections: the other ends are told. *)
Fails(p) ==
  /\ stage' = [stage EXCEPT ![p] = "failed"]
  /\ accepts' = [accepts EXCEPT ![p] = NoConn]
  /\ client' = IF Dials(p) THEN [client EXCEPT ![p] = "closed"] ELSE client
  /\ server' = [c \in Conns |-> IF c \in Holds(p) THEN "closed" ELSE server[c]]
  /\ wire' = wire \cup {<<c, "close_to_client">> : c \in Holds(p)}
                  \cup {<<c, "close_to_server">> : c \in {d \in {p} : Dials(d)}}
  /\ UNCHANGED <<setup, stun, match, kept>>

CloseLost ==
  /\ \E g \in wire : g[2] \in {"close_to_client", "close_to_server"} /\ wire' = wire \ {g}
  /\ calm' = FALSE
  /\ UNCHANGED <<setup, stun, match, stage, client, server, accepts, kept>>

(* PUNCH_TIMEOUT, HANDSHAKE_TIMEOUT, QUERY_TIMEOUT: each is shorter than QUIC's *)
(* own.  Nothing bounds the wait of a LAN receiver for its first caller.       *)
NoTimeout(p) == FALSE
HasTimeout(p) ==
  \/ stage[p] \in {"stun", "shake"} \cup (IF mode = "lan" THEN {} ELSE {"race"})
  \/ stage[p] \in {"said_hello", "said_ack", "said_config"}
  \/ mode = "lan" /\ stage[p] = "race" /\ client[p] = "dialled"

Timeout(p) ==
  /\ HasTimeout(p)
  /\ calm' = FALSE
  /\ Fails(p)

-------------------------------------------------------------------------------
(* STUN and the rendezvous. *)

MappedUnparsed(p, s) == "0.0.0.0"
Mapped(p, s) == IF nat[p] = "cone" THEN ServerA ELSE s

TakesAnyAnswer(p, s) == TRUE

(* Only the answer to the query in flight counts; one of the other server, or  *)
(* a duplicate, is skipped.                                                    *)
Answers(p, s) == s = asked[p]

(* classify_nat: ask one, then the other; a query that is not answered ends it. *)
StunAnswer(p, s) ==
  /\ stage[p] = "stun" /\ Answers(p, s)
  /\ s = asked[p] \/ s = ServerA        (* an answer needs its query *)
  /\ ports' = [ports EXCEPT ![p][asked[p]] = Mapped(p, s)]
  /\ IF asked[p] = ServerA
       THEN asked' = [asked EXCEPT ![p] = ServerB] /\ UNCHANGED stage
       ELSE stage' = [stage EXCEPT ![p] = "register"] /\ UNCHANGED asked
  /\ UNCHANGED <<setup, match, links, calm>>

WantRelay(p) == mode # "loopback" /\ ports[p][ServerA] # ports[p][ServerB]

(* The rendezvous answers both, or lets one go that it has told the other of   *)
(* (Rendezvous has the details); one that waits alone expires.                 *)
Match ==
  /\ \A p \in Peers : stage[p] = "register"
  /\ relay' = (\E p \in Peers : WantRelay(p))
  /\ \E told \in SUBSET Peers :
       /\ stage' = [p \in Peers |-> IF p \notin told THEN "failed"
                                    ELSE IF relay' THEN "hello" ELSE "race"]
       /\ calm' = (calm /\ told = Peers)
  /\ UNCHANGED <<setup, stun, joined, links>>

Unmatched(p) ==
  /\ stage[p] = "register" /\ stage[Other(p)] \in Ends
  /\ Fails(p) /\ UNCHANGED calm

(* Three hellos, then the race, whether or not one of them arrived. *)
SendHellos(p) ==
  /\ stage[p] = "hello"
  /\ \E got \in BOOLEAN :
       /\ joined' = IF got THEN joined \cup {p} ELSE joined
       /\ calm' = (calm /\ got)
  /\ stage' = [stage EXCEPT ![p] = "race"]
  /\ UNCHANGED <<setup, stun, relay, links>>

-------------------------------------------------------------------------------
(* The race. *)

Reaches(c) == ~relay \/ (joined = Peers /\ c # Stranger)

(* On the LAN the sender dials and the receiver accepts. *)
MayDial(p) == mode # "lan" \/ p = First
MayAccept(p) == mode # "lan" \/ p # First

(* The connection the race of p returns; the future that lost is dropped.      *)
Keep(p, c) ==
  /\ kept' = [kept EXCEPT ![p] = c]
  /\ stage' = [stage EXCEPT ![p] = "shake"]
  /\ accepts' = [accepts EXCEPT ![p] = NoConn]

Dial(p) ==
  /\ stage[p] = "race" /\ client[p] = "none" /\ MayDial(p)
  /\ client' = [client EXCEPT ![p] = "dialled"]
  /\ wire' = wire \cup {<<p, "initial">>}
  /\ UNCHANGED <<setup, stun, match, stage, server, accepts, kept, calm>>

(* accept takes the next inbound connection and waits for its handshake. *)
Accept(p, c) ==
  /\ stage[p] = "race" /\ accepts[p] = NoConn /\ MayAccept(p)
  /\ Callee(c) = p /\ <<c, "initial">> \in wire /\ Reaches(c)
  /\ accepts' = [accepts EXCEPT ![p] = c]
  /\ server' = [server EXCEPT ![c] = "accepting"]
  /\ wire' = (wire \ {<<c, "initial">>}) \cup {<<c, "reply">>}
  /\ UNCHANGED <<setup, stun, match, stage, client, kept, calm>>

(* The dialler has its connection after one round trip, and primes the control *)
(* stream.                                                                     *)
ConnectDone(p) ==
  /\ stage[p] = "race" /\ client[p] = "dialled" /\ <<p, "reply">> \in wire
  /\ Keep(p, p)
  /\ client' = [client EXCEPT ![p] = "open"]
  /\ server' = [c \in Conns |-> IF c \in Holds(p) THEN "closed" ELSE server[c]]
  /\ wire' = (wire \ {<<p, "reply">>}) \cup {<<p, "magic">>}
                \cup {<<c, "close_to_client">> : c \in Holds(p)}
  /\ UNCHANGED <<setup, stun, match, calm>>

AnyPeerMatches(p, c) == TRUE

(* The address is the one the rendezvous gave; on the LAN anybody may call.    *)
PeerMatches(p, c) == mode = "lan" \/ c = Other(p)

AcceptDone(p) ==
  LET c == accepts[p] IN
  /\ stage[p] = "race" /\ c # NoConn /\ <<c, "magic">> \in wire
  /\ PeerMatches(p, c)
  /\ Keep(p, c)
  /\ client' = IF Dials(p) THEN [client EXCEPT ![p] = "closed"] ELSE client
  /\ server' = [server EXCEPT ![c] = "open"]
  /\ wire' = (wire \ {<<c, "magic">>})
               \cup {<<d, "close_to_server">> : d \in {e \in {p} : Dials(e)}}
  /\ UNCHANGED <<setup, stun, match, calm>>

(* A third party is dropped, and accept waits for the next. *)
AcceptStranger(p) ==
  LET c == accepts[p] IN
  /\ stage[p] = "race" /\ c # NoConn /\ <<c, "magic">> \in wire
  /\ ~PeerMatches(p, c)
  /\ accepts' = [accepts EXCEPT ![p] = NoConn]
  /\ server' = [server EXCEPT ![c] = "closed"]
  /\ wire' = (wire \ {<<c, "magic">>}) \cup {<<c, "close_to_client">>}
  /\ UNCHANGED <<setup, stun, match, stage, client, kept, calm>>

(* The stranger's own side of its connection. *)
StrangerAnswers ==
  /\ client[Stranger] = "dialled" /\ <<Stranger, "reply">> \in wire
  /\ client' = [client EXCEPT ![Stranger] = "open"]
  /\ \E go \in {"magic", "close_to_server"} :
       wire' = (wire \ {<<Stranger, "reply">>}) \cup {<<Stranger, go>>}
  /\ UNCHANGED <<setup, stun, match, stage, server, accepts, kept, calm>>

(* A close arrives.  Whoever waits on that connection -- in connect, in accept *)
(* or in the handshake -- has an error, and an error ends the race as well.    *)
ClosedTo(p) ==
  {c \in {p} : Dials(c) /\ <<c, "close_to_client">> \in wire}
  \cup {c \in Holds(p) : <<c, "close_to_server">> \in wire}

CloseArrives(p) ==
  /\ stage[p] \notin Ends /\ ClosedTo(p) # {}
  /\ Fails(p) /\ UNCHANGED calm

-------------------------------------------------------------------------------
(* The handshake, on the connection each side kept.  The smaller device id is  *)
(* the client, whoever dialled.                                                *)

VersionOk(p) == (p \in odd) <=> (Other(p) \in odd)

IsClient(p) == p = First
Has(p, kind) == <<kept[p], kind>> \in wire

(* p takes one message of the exchange and, unless it errs, sends the next.    *)
Step(p, from, take, give, to) ==
  /\ stage[p] = from
  /\ take # "" => Has(p, take)
  /\ stage' = [stage EXCEPT ![p] = to]
  /\ wire' = (wire \ {<<kept[p], take>>}) \cup (IF give = "" THEN {} ELSE {<<kept[p], give>>})
  /\ UNCHANGED <<setup, stun, match, client, server, accepts, kept, calm>>

SendHello(p) == IsClient(p) /\ Step(p, "shake", "", "hello", "said_hello")
OnHello(p) ==
  /\ ~IsClient(p) /\ kept[p] # NoConn /\ VersionOk(p)
  /\ Step(p, "shake", "hello", "hello_ack", "said_ack")
OnHelloAck(p) == VersionOk(p) /\ Step(p, "said_hello", "hello_ack", "config", "said_config")
OnConfig(p) == Step(p, "said_ack", "config", "config_ack", "up")
OnConfigAck(p) == Step(p, "said_config", "config_ack", "", "up")

(* The other side's version: the connection is dropped without a word. *)
OddVersion(p) ==
  /\ ~VersionOk(p)
  /\ \/ stage[p] = "shake" /\ ~IsClient(p) /\ Has(p, "hello")
     \/ stage[p] = "said_hello" /\ Has(p, "hello_ack")
  /\ Fails(p) /\ UNCHANGED calm

-------------------------------------------------------------------------------
PeerStep(p) ==
  \/ \E s \in Servers : StunAnswer(p, s)
  \/ Unmatched(p) \/ SendHellos(p)
  \/ Dial(p) \/ ConnectDone(p) \/ AcceptDone(p) \/ AcceptStranger(p) \/ CloseArrives(p)
  \/ \E c \in Conns : Accept(p, c)
  \/ SendHello(p) \/ OnHello(p) \/ OnHelloAck(p) \/ OnConfig(p) \/ OnConfigAck(p) \/ OddVersion(p)

Next ==
  \/ Match \/ StrangerAnswers \/ CloseLost
  \/ \E p \in Peers : PeerStep(p) \/ Timeout(p)

Spec == Init /\ [][Next]_vars

(* Tasks run, what is not lost arrives, the server answers and timers fire. *)
FairSpec ==
  /\ Spec
  /\ WF_vars(Match \/ StrangerAnswers)
  /\ \A p \in Peers : WF_vars(PeerStep(p)) /\ WF_vars(Timeout(p))

-------------------------------------------------------------------------------
(* Properties. *)

TypeOK ==
  /\ mode \in Modes /\ odd \in Odd /\ nat \in [Peers -> {"cone", "symmetric"}]
  /\ stage \in [Peers -> {"stun", "register", "hello", "race", "shake", "said_hello",
                          "said_ack", "said_config"} \cup Ends]
  /\ asked \in [Peers -> Servers]
  /\ ports \in [Peers -> [Servers -> Servers \cup {"none"}]]
  /\ relay \in BOOLEAN /\ joined \subseteq Peers
  /\ client \in [Conns -> {"none", "dialled", "open", "closed"}]
  /\ server \in [Conns -> {"none", "accepting", "open", "closed"}]
  /\ accepts \in [Peers -> Conns \cup {NoConn}]
  /\ kept \in [Peers -> Conns \cup {NoConn}]
  /\ wire \subseteq Conns \X Kinds
  /\ calm \in BOOLEAN

(* A peer behind a symmetric NAT is never punched at: both go by the relay,    *)
(* whatever stray or repeated STUN answers its socket gets.                    *)
SymmetricIsNotPunched ==
  mode = "rendezvous" /\ (\E p \in Peers : nat[p] = "symmetric") =>
    \A p \in Peers : client[p] # "none" => relay

(* A session is one: the race never returns a third party's connection; when a *)
(* peer's handshake is complete, the other peer kept the same connection of    *)
(* the two, runs the same version, and, if the peer is the client, has its     *)
(* session too.                                                                *)
OneSession == mode # "lan" =>
  /\ \A p \in Peers : kept[p] # Stranger
  /\ \A p \in Peers : stage[p] = "up" =>
    /\ kept[Other(p)] = kept[p]
    /\ (p \in odd) <=> (Other(p) \in odd)
    /\ IsClient(p) => stage[Other(p)] = "up"

(* Establishing ends, with a session or an error, whatever is lost and         *)
(* whichever connections the two sides keep.                                   *)
EstablishEnds ==
  mode # "lan" => <>(\A p \in Peers : stage[p] \in Ends)

(* "Whichever direction's handshake completes first is the connection we keep": *)
(* with nothing lost or late and no third party, two races that both return a  *)
(* connection return the same one.                                             *)
BothKeepTheFirst ==
  calm /\ mode # "lan" /\ (\A p \in Peers : kept[p] # NoConn) =>
    \A p \in Peers : kept[p] = kept[Other(p)]
===============================================================================
