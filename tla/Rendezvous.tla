------------------------------ MODULE Rendezvous ------------------------------
(***************************************************************************)
(* The pairing server of hyx-rendezvous: one handler task per accepted     *)
(* connection, as many as the semaphore has permits.  The first peer of a  *)
(* code puts a waiter into the map and waits for its oneshot; the second   *)
(* takes the waiter out, answers its own client and then notifies.  Every  *)
(* step between two awaits is an action.                                   *)
(*                                                                         *)
(* A handler has the name of its connection.  A device stands for its      *)
(* device_id and its certificate's fingerprint.  A waiter in the map is    *)
(* the connection whose oneshot it holds, and mail[c] is what the oneshot  *)
(* of c received: dropping the sender is a message, too.                   *)
(***************************************************************************)
EXTENDS Integers, FiniteSets

CONSTANTS
  Conns, Devices, Codes, Tokens,
  NoConn, NoToken, NoSession, NoRequest,
  HasRelay,            (* attach_relay was called                           *)
  MaxConcurrent        (* permits of the semaphore                          *)

ASSUME ConstantsAssumption ==
  /\ NoConn \notin Conns
  /\ NoToken \notin Tokens
  /\ HasRelay \in BOOLEAN
  /\ MaxConcurrent \in Nat \ {0}

VARIABLES
  pc,          (* where the handler of a connection is                      *)
  req,         (* its RegisterRequest                                       *)
  waiting,     (* code -> the connection whose waiter is in the map         *)
  taken,       (* the waiter a second peer's handler took out               *)
  token,       (* the session token it drew                                 *)
  reserved,    (* token -> the devices the relay reserved it for            *)
  mail,        (* what the oneshot of a first peer received                 *)
  expired,     (* the waiters whose expires_at is past                      *)
  answer       (* the last frame written to the client                      *)

vars == <<pc, req, waiting, taken, token, reserved, mail, expired, answer>>

Request == [device : Devices, code : Codes, relay : BOOLEAN]

Session == [a : Devices, b : Devices]

ASSUME NoSessionAssumption == NoSession \notin Session
ASSUME NoRequestAssumption == NoRequest \notin Request

(* A message to a handler or to a client.  A Match without a token is       *)
(* direct, one with a token is a RelayMatch.                                *)
Message(kinds) == [kind : {"none", "match"} \cup kinds,
                   peer : Conns \cup {NoConn}, token : Tokens \cup {NoToken}]

Plain(kind) == [kind |-> kind, peer |-> NoConn, token |-> NoToken]
About(kind, peer) == [kind |-> kind, peer |-> peer, token |-> NoToken]
Match(peer, t) == [kind |-> "match", peer |-> peer, token |-> t]

Handlers == {c \in Conns : pc[c] \notin {"idle", "queued", "done"}}

(* A handler listens to its oneshot until it was woken or timed out.  Its   *)
(* mail changes once, when its waiter is used or dropped.                   *)
Deliver(message, S) ==
  mail' = [c \in Conns |-> IF c \in S /\ pc[c] = "wait" /\ mail[c].kind = "none"
                           THEN message ELSE mail[c]]

(* The waiters a retain or a removal drops from the map.                    *)
Lapsed == {waiting[code] : code \in Codes} \cap expired

Done == \A c \in Conns : pc[c] = "done"

Finish(c, message) ==
  /\ pc' = [pc EXCEPT ![c] = "done"]
  /\ answer' = [answer EXCEPT ![c] = message]

-----------------------------------------------------------------------------
Connect(c) ==
  /\ pc[c] = "idle"
  /\ pc' = [pc EXCEPT ![c] = "queued"]
  /\ UNCHANGED <<req, waiting, taken, token, reserved, mail, expired, answer>>

(* The permit is taken before accept(), here a success, and held until the  *)
(* handler ends.                                                            *)
Accept(c) ==
  /\ pc[c] = "queued"
  /\ Cardinality(Handlers) < MaxConcurrent
  /\ pc' = [pc EXCEPT ![c] = "accepted"]
  /\ UNCHANGED <<req, waiting, taken, token, reserved, mail, expired, answer>>

(* accept() fails while the loop holds a permit: run() returns the error,   *)
(* and the process ends with it.  Handlers are dropped where they are, open *)
(* connections are closed and whoever comes later is not let in; a client   *)
(* that was told its match before keeps it.                                 *)
AcceptFails ==
  /\ ~Done
  /\ Cardinality(Handlers) < MaxConcurrent
  /\ pc' = [c \in Conns |-> "done"]
  /\ answer' = [c \in Conns |-> IF answer[c].kind = "none" THEN Plain("closed") ELSE answer[c]]
  /\ UNCHANGED <<req, waiting, taken, token, reserved, mail, expired>>

(* No frame in time, a frame that is no Register, another protocol version  *)
(* or a code that is not valid.                                             *)
Refuse(c) ==
  /\ pc[c] = "accepted"
  /\ \E kind \in {"closed", "rejected"} : Finish(c, Plain(kind))
  /\ UNCHANGED <<req, waiting, taken, token, reserved, mail, expired>>

(* Mutant: the waiter stays in the map while it is being matched.           *)
LookupLeaves(c, r) ==
  /\ pc[c] = "accepted"
  /\ req' = [req EXCEPT ![c] = r]
  /\ waiting' = [code \in Codes |-> IF waiting[code] \in Lapsed THEN NoConn ELSE waiting[code]]
  /\ Deliver(Plain("dropped"), Lapsed)
  /\ LET w == waiting[r.code] IN
       IF w \in Conns \ Lapsed
       THEN pc' = [pc EXCEPT ![c] = "second"] /\ taken' = [taken EXCEPT ![c] = w]
       ELSE pc' = [pc EXCEPT ![c] = "first"] /\ UNCHANGED taken
  /\ UNCHANGED <<token, reserved, expired, answer>>

(* The first critical section: drop what is expired, take the waiter of     *)
(* the code.                                                                *)
Lookup(c, r) ==
  /\ pc[c] = "accepted"
  /\ req' = [req EXCEPT ![c] = r]
  /\ waiting' = [code \in Codes |->
                  IF waiting[code] \in Lapsed \/ code = r.code THEN NoConn ELSE waiting[code]]
  /\ Deliver(Plain("dropped"), Lapsed)
  /\ LET w == waiting[r.code] IN
       IF w \in Conns \ Lapsed
       THEN pc' = [pc EXCEPT ![c] = "second"] /\ taken' = [taken EXCEPT ![c] = w]
       ELSE pc' = [pc EXCEPT ![c] = "first"] /\ UNCHANGED taken
  /\ UNCHANGED <<token, reserved, expired, answer>>

-----------------------------------------------------------------------------
(* The second peer.                                                         *)

NeedsRelay(c) == HasRelay /\ (req[c].relay \/ req[taken[c]].relay)

(* The relay reserves a session for a token drawn at random, or refuses:    *)
(* equal fingerprints, or a token in use.                                   *)
ReserveSession(c) ==
  /\ pc[c] = "second"
  /\ NeedsRelay(c)
  /\ \E t \in Tokens :
       LET first == req[taken[c]].device IN
       IF first # req[c].device /\ reserved[t] = NoSession
       THEN /\ reserved' = [reserved EXCEPT ![t] = [a |-> first, b |-> req[c].device]]
            /\ token' = [token EXCEPT ![c] = t]
            /\ pc' = [pc EXCEPT ![c] = "write"]
       ELSE /\ pc' = [pc EXCEPT ![c] = "refused"]
            /\ UNCHANGED <<reserved, token>>
  /\ UNCHANGED <<req, waiting, taken, mail, expired, answer>>

GoDirect(c) ==
  /\ pc[c] = "second"
  /\ ~NeedsRelay(c)
  /\ pc' = [pc EXCEPT ![c] = "write"]
  /\ UNCHANGED <<req, waiting, taken, token, reserved, mail, expired, answer>>

(* Mutant: the waiter is put back over whatever has come since.             *)
PutBackOver(c) ==
  /\ pc[c] = "refused"
  /\ waiting' = [waiting EXCEPT ![req[c].code] = taken[c]]
  /\ Finish(c, Plain("rejected"))
  /\ Deliver(Plain("dropped"), {waiting[req[c].code]})
  /\ UNCHANGED <<req, taken, token, reserved, expired>>

(* The relay refused: the waiter goes back if its slot is still empty, and  *)
(* is dropped if not.                                                       *)
PutBack(c) ==
  /\ pc[c] = "refused"
  /\ \/ /\ waiting[req[c].code] = NoConn
        /\ waiting' = [waiting EXCEPT ![req[c].code] = taken[c]]
        /\ Finish(c, Plain("rejected"))
        /\ UNCHANGED mail
     \/ /\ waiting[req[c].code] # NoConn
        /\ Finish(c, About("rejected", taken[c]))
        /\ Deliver(Plain("dropped"), {taken[c]})
        /\ UNCHANGED waiting
  /\ UNCHANGED <<req, taken, token, reserved, expired>>

(* The match for our own client.  If the write fails the handler ends, and  *)
(* the waiter with it.                                                      *)
WriteMatch(c) ==
  /\ pc[c] = "write"
  /\ \/ /\ answer' = [answer EXCEPT ![c] = Match(taken[c], token[c])]
        /\ pc' = [pc EXCEPT ![c] = "notify"]
        /\ UNCHANGED mail
     \/ /\ Finish(c, About("closed", taken[c]))
        /\ Deliver(Plain("dropped"), {taken[c]})
  /\ UNCHANGED <<req, waiting, taken, token, reserved, expired>>

(* The match for the first peer, who may have stopped listening.            *)
Notify(c) ==
  /\ pc[c] = "notify"
  /\ pc' = [pc EXCEPT ![c] = "done"]
  /\ Deliver(Match(c, token[c]), {taken[c]})
  /\ UNCHANGED <<req, waiting, taken, token, reserved, expired, answer>>

-----------------------------------------------------------------------------
(* The first peer.                                                          *)

(* The second critical section.  Whoever has taken the code meanwhile keeps *)
(* it, unless it is expired.                                                *)
Insert(c) ==
  /\ pc[c] = "first"
  /\ LET w == waiting[req[c].code]
         kept == [code \in Codes |-> IF waiting[code] \in Lapsed THEN NoConn ELSE waiting[code]]
     IN IF w \in Conns \ Lapsed
        THEN waiting' = kept /\ Finish(c, Plain("rejected"))
        ELSE /\ waiting' = [kept EXCEPT ![req[c].code] = c]
             /\ pc' = [pc EXCEPT ![c] = "wait"]
             /\ UNCHANGED answer
  /\ Deliver(Plain("dropped"), Lapsed)
  /\ UNCHANGED <<req, taken, token, reserved, expired>>

(* The TTL of a waiter passes, wherever the waiter is.                      *)
Expire(c) ==
  /\ pc[c] = "wait"
  /\ c \notin expired
  /\ expired' = expired \cup {c}
  /\ UNCHANGED <<pc, req, waiting, taken, token, reserved, mail, answer>>

(* Mutant: no timeout around the oneshot.                                   *)
WakesByMailOnly(c) ==
  /\ pc[c] = "wait"
  /\ mail[c].kind # "none"
  /\ pc' = [pc EXCEPT ![c] = "cleanup"]
  /\ UNCHANGED <<req, waiting, taken, token, reserved, mail, expired, answer>>

(* timeout(ttl, rx) ends: by what the oneshot received, which is looked at  *)
(* first, or by the timer.                                                  *)
Wakes(c) ==
  /\ pc[c] = "wait"
  /\ mail[c].kind # "none" \/ c \in expired
  /\ pc' = [pc EXCEPT ![c] = "cleanup"]
  /\ UNCHANGED <<req, waiting, taken, token, reserved, mail, expired, answer>>

(* The third critical section: whatever waiter of this device is in the map *)
(* under this code goes.                                                    *)
Cleanup(c) ==
  /\ pc[c] = "cleanup"
  /\ pc' = [pc EXCEPT ![c] = "reply"]
  /\ LET w == waiting[req[c].code] IN
       IF w \in Conns /\ req[w].device = req[c].device
       THEN /\ waiting' = [waiting EXCEPT ![req[c].code] = NoConn]
            /\ Deliver(Plain("dropped"), {w})
       ELSE UNCHANGED <<waiting, mail>>
  /\ UNCHANGED <<req, taken, token, reserved, expired, answer>>

(* Mutant: a dropped oneshot is passed on like a match.                     *)
ReplyAnyMail(c) ==
  /\ pc[c] = "reply"
  /\ \/ Finish(c, IF mail[c].kind # "none" THEN mail[c] ELSE Plain("expired"))
     \/ Finish(c, Plain("closed"))
  /\ UNCHANGED <<req, waiting, taken, token, reserved, mail, expired>>

(* Match, RelayMatch or Expired; the write may fail.                        *)
Reply(c) ==
  /\ pc[c] = "reply"
  /\ \/ Finish(c, IF mail[c].kind = "match" THEN mail[c] ELSE Plain("expired"))
     \/ Finish(c, Plain("closed"))
  /\ UNCHANGED <<req, waiting, taken, token, reserved, mail, expired>>

-----------------------------------------------------------------------------
Init ==
  /\ pc = [c \in Conns |-> "idle"]
  /\ req = [c \in Conns |-> NoRequest]
  /\ waiting = [code \in Codes |-> NoConn]
  /\ taken = [c \in Conns |-> NoConn]
  /\ token = [c \in Conns |-> NoToken]
  /\ reserved = [t \in Tokens |-> NoSession]
  /\ mail = [c \in Conns |-> Plain("none")]
  /\ expired = {}
  /\ answer = [c \in Conns |-> Plain("none")]

Handle(c) ==
  \/ Refuse(c)
  \/ \E r \in Request : Lookup(c, r)
  \/ ReserveSession(c) \/ GoDirect(c) \/ PutBack(c) \/ WriteMatch(c) \/ Notify(c)
  \/ Insert(c) \/ Wakes(c) \/ Cleanup(c) \/ Reply(c)

Next ==
  \/ \E c \in Conns : Connect(c) \/ Accept(c) \/ Handle(c) \/ Expire(c)
  \/ AcceptFails
  \/ Done /\ UNCHANGED vars

Spec == Init /\ [][Next]_vars

(* Handlers are scheduled, timers fire, and the accept loop serves the      *)
(* kernel's queue for as long as accept() does not fail, which it may.      *)
FairSpec ==
  Spec /\ \A c \in Conns : WF_vars(Accept(c)) /\ WF_vars(Handle(c)) /\ WF_vars(Expire(c))

-----------------------------------------------------------------------------
(* Properties.                                                              *)

TypeOK ==
  /\ pc \in [Conns -> {"idle", "queued", "accepted", "second", "refused", "write", "notify",
                       "first", "wait", "cleanup", "reply", "done"}]
  /\ req \in [Conns -> Request \cup {NoRequest}]
  /\ waiting \in [Codes -> Conns \cup {NoConn}]
  /\ taken \in [Conns -> Conns \cup {NoConn}]
  /\ token \in [Conns -> Tokens \cup {NoToken}]
  /\ reserved \in [Tokens -> Session \cup {NoSession}]
  /\ mail \in [Conns -> Message({"dropped"})]
  /\ expired \in SUBSET Conns
  /\ answer \in [Conns -> Message({"rejected", "expired", "closed"})]

Matched == {c \in Conns : answer[c].kind = "match"}

(* Nobody is matched twice, with itself or across codes: of all clients     *)
(* told a peer, no two are told the same one, and two that are told each    *)
(* other are told the same way, over a session the relay reserved for them. *)
PairsAreExclusive ==
  \A c \in Matched :
    LET d == answer[c].peer IN
      /\ d # c
      /\ req[d].code = req[c].code
      /\ \A e \in Matched \ {c} : answer[e].peer # d
      /\ d \in Matched => answer[d].peer = c /\ answer[d].token = answer[c].token
      /\ answer[c].token # NoToken =>
           /\ reserved[answer[c].token] # NoSession
           /\ {reserved[answer[c].token].a, reserved[answer[c].token].b}
                = {req[c].device, req[d].device}

(* A client is told Expired before its time only if the peer that came for  *)
(* it could not be answered or its slot was taken meanwhile, or if the same *)
(* device registered the code twice.  A waiter put back after the relay's   *)
(* refusal never displaces another one.                                     *)
ExpiredHasReason ==
  \A c \in Conns \ expired : answer[c].kind = "expired" =>
    \E d \in Conns \ {c} :
      \/ answer[d].kind \in {"closed", "rejected"} /\ answer[d].peer = c
      \/ /\ req[d] # NoRequest
         /\ req[d].device = req[c].device
         /\ req[d].code = req[c].code

(* With all permits taken by waiters, with failed writes and lost races,    *)
(* every client that connects is served and let go; if the listener fails,  *)
(* the connections that are open or queued end with the server.             *)
EveryClientIsServed == \A c \in Conns : pc[c] = "queued" ~> pc[c] = "done"

(* "Same generation only - don't drop a fresher one a retry installed under *)
(* the same code": a waiter whose time is not over leaves the map only into *)
(* the hands of a second peer.                                              *)
FresherWaiterStays ==
  [][\A code \in Codes :
       LET w == waiting[code] IN
         w \in Conns \ expired /\ pc[w] = "wait" /\ waiting'[code] # w
           => \E d \in Conns : taken'[d] = w /\ pc'[d] = "second"]_vars
=============================================================================
