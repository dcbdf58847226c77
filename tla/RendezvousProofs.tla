--------------------------- MODULE RendezvousProofs ---------------------------
(* Proofs about the pairing server, for any number of clients, codes, tokens   *)
(* and permits, without fairness.                                              *)
EXTENDS Rendezvous, TLAPS

USE ConstantsAssumption, NoSessionAssumption, NoRequestAssumption

Answers == Message({"rejected", "expired", "closed"})
Mails == Message({"dropped"})

LEMMA MessagesAreTyped ==
  /\ \A k \in {"none", "match", "rejected", "expired", "closed"} : \A p \in Conns \cup {NoConn} :
       \A t \in Tokens \cup {NoToken} : [kind |-> k, peer |-> p, token |-> t] \in Answers
  /\ \A k \in {"none", "match", "dropped"} : \A p \in Conns \cup {NoConn} :
       \A t \in Tokens \cup {NoToken} : [kind |-> k, peer |-> p, token |-> t] \in Mails
  /\ \A m \in Mails : m.kind = "match" => m \in Answers
  BY DEF Answers, Mails, Message

(* A oneshot that is dropped: those it reaches had nothing yet. *)
Dropping ==
  /\ mail' \in [Conns -> Mails]
  /\ \A c \in Conns : mail'[c] = mail[c] \/ (mail[c].kind = "none" /\ mail'[c].kind = "dropped")

LEMMA DeliverDrops ==
  ASSUME TypeOK, NEW S, Deliver(Plain("dropped"), S)
  PROVE  Dropping
<1>1. Plain("dropped") \in Mails /\ Plain("dropped").kind = "dropped"
  BY MessagesAreTyped DEF Plain
<1> QED
  BY <1>1 DEF Deliver, Dropping, TypeOK, Mails

LEMMA SameMailDrops == TypeOK /\ UNCHANGED mail => Dropping
  BY DEF TypeOK, Dropping, Mails

-------------------------------------------------------------------------------
(* The invariant. *)

Before == {"idle", "queued", "accepted", "first", "wait", "cleanup", "reply"}
Taking == {"second", "refused", "write", "notify"}
Waits == {"wait", "cleanup", "reply", "done"}
Asked == Taking \cup {"first", "wait", "cleanup", "reply"}

(* A first peer: its handler waits, or is past that, and took nobody itself.   *)
Partner(w, code) ==
  w \in Conns /\ req[w] \in Request /\ req[w].code = code /\ pc[w] \in Waits /\ taken[w] = NoConn

(* What the handler of c knows of itself. *)
Role(c) ==
  /\ pc[c] \in Before => taken[c] = NoConn /\ answer[c].kind # "match"
  /\ IF pc[c] \in {"idle", "queued", "accepted"} THEN req[c] = NoRequest
     ELSE pc[c] \in Asked => req[c] \in Request
  /\ pc[c] \in Taking => taken[c] # NoConn
  /\ pc[c] \in {"second", "refused", "write"} => answer[c].kind # "match"
  /\ pc[c] = "notify" => answer[c].kind = "match"
  /\ pc[c] \in {"second", "refused"} => token[c] = NoToken
  /\ taken[c] # NoConn => req[c] \in Request /\ Partner(taken[c], req[c].code)

(* A token was reserved for c and the peer it took. *)
Reserved(c) ==
  token[c] # NoToken =>
    taken[c] # NoConn /\ reserved[token[c]] = [a |-> req[taken[c]].device, b |-> req[c].device]

(* A second peer is told the one it took, a first one what its oneshot got.    *)
Answered(c) ==
  answer[c].kind = "match" =>
    answer[c] = IF taken[c] # NoConn THEN Match(taken[c], token[c]) ELSE mail[c]

(* A oneshot gets a match from the one who took its waiter, who was told first. *)
Woken(w) ==
  mail[w].kind = "match" =>
    LET d == mail[w].peer IN
      d \in Conns /\ taken[d] = w /\ answer[d].kind = "match" /\ mail[w].token = token[d]

Took(c) == taken[c] # NoConn /\ (pc[c] \in Taking \/ answer[c].kind = "match")

(* A waiter is in the map under its own code, and nobody who still holds it,   *)
(* or was matched with it, shares it with another or with the map.             *)
Queue == \A code \in Codes : waiting[code] # NoConn => Partner(waiting[code], code)
Sole ==
  \A c \in Conns : Took(c) =>
    /\ \A e \in Conns : Took(e) /\ taken[e] = taken[c] => e = c
    /\ \A code \in Codes : waiting[code] # taken[c]

IInv ==
  /\ TypeOK
  /\ \A c \in Conns : Role(c) /\ Reserved(c) /\ Answered(c) /\ Woken(c)
  /\ Queue /\ Sole

-------------------------------------------------------------------------------
(* The invariant is what the property needs. *)

LEMMA IInvImpliesExclusive == IInv => PairsAreExclusive
<1> SUFFICES ASSUME IInv, NEW c \in Matched
             PROVE  LET d == answer[c].peer IN
                      /\ d # c
                      /\ req[d].code = req[c].code
                      /\ \A e \in Matched \ {c} : answer[e].peer # d
                      /\ d \in Matched => answer[d].peer = c /\ answer[d].token = answer[c].token
                      /\ answer[c].token # NoToken =>
                           /\ reserved[answer[c].token] # NoSession
                           /\ {reserved[answer[c].token].a, reserved[answer[c].token].b}
                                = {req[c].device, req[d].device}
  BY DEF PairsAreExclusive
<1> DEFINE d == answer[c].peer
<1>1. c \in Conns /\ answer[c].kind = "match"
  BY DEF Matched
<1>2. \A e \in Conns : Role(e) /\ Reserved(e) /\ Answered(e) /\ Woken(e)
  BY DEF IInv
<1>3. \A e \in Conns : taken[e] \in Conns \cup {NoConn}
  BY DEF IInv, TypeOK
(* Of two that a match relates, one took the other, and no one took the taker. *)
<1>4. \A e \in Matched :
        \/ taken[e] \in Conns /\ answer[e].peer = taken[e] /\ answer[e].token = token[e] /\ Took(e)
        \/ /\ taken[e] = NoConn /\ answer[e].peer \in Conns
           /\ taken[answer[e].peer] = e /\ Took(answer[e].peer)
           /\ answer[e].token = token[answer[e].peer]
           /\ answer[e].peer \in Matched
  <2> TAKE e \in Matched
  <2>1. e \in Conns /\ answer[e].kind = "match"
    BY DEF Matched
  <2>2. CASE taken[e] # NoConn
    <3>1. answer[e] = Match(taken[e], token[e])
      BY <1>2, <2>1, <2>2 DEF Answered
    <3> QED
      BY <1>3, <2>1, <2>2, <3>1 DEF Match, Took
  <2>3. CASE taken[e] = NoConn
    <3>1. answer[e] = mail[e] /\ mail[e].kind = "match"
      BY <1>2, <2>1, <2>3 DEF Answered
    <3>2. /\ mail[e].peer \in Conns /\ taken[mail[e].peer] = e /\ answer[mail[e].peer].kind = "match"
          /\ mail[e].token = token[mail[e].peer]
      BY <1>2, <2>1, <3>1 DEF Woken
    <3> QED
      BY <2>1, <2>3, <3>1, <3>2 DEF Took, Matched
  <2> QED
    BY <2>2, <2>3
<1>5. \A e \in Conns : taken[e] \in Conns =>
        /\ taken[taken[e]] = NoConn /\ taken[e] # e
        /\ req[taken[e]] \in Request /\ req[e] \in Request /\ req[taken[e]].code = req[e].code
  BY <1>2 DEF Role, Partner
<1>6. \A e, f \in Conns : Took(e) /\ Took(f) /\ taken[e] = taken[f] => e = f
  BY DEF IInv, Sole
<1>7. d \in Conns /\ d # c /\ req[d].code = req[c].code
  BY <1>1, <1>4, <1>5
<1>8. ASSUME NEW e \in Matched \ {c} PROVE answer[e].peer # d
  <2>1. e \in Conns
    BY DEF Matched
  <2> QED
    BY <1>1, <1>3, <1>4, <1>5, <1>6, <2>1
<1>9. ASSUME d \in Matched PROVE answer[d].peer = c /\ answer[d].token = answer[c].token
  <2>1. CASE taken[c] \in Conns
    BY <1>1, <1>4, <1>5, <1>6, <1>9, <2>1
  <2>2. CASE taken[c] = NoConn
    BY <1>1, <1>4, <1>5, <1>6, <1>9, <2>2
  <2> QED
    BY <1>1, <1>3, <2>1, <2>2
<1>10. ASSUME answer[c].token # NoToken
       PROVE  /\ reserved[answer[c].token] # NoSession
              /\ {reserved[answer[c].token].a, reserved[answer[c].token].b} = {req[c].device, req[d].device}
  <2>1. PICK e \in Conns : /\ taken[e] \in Conns /\ answer[c].token = token[e]
                           /\ {c, d} = {e, taken[e]}
    BY <1>1, <1>4
  <2>2. reserved[token[e]] = [a |-> req[taken[e]].device, b |-> req[e].device]
    BY <1>2, <1>10, <2>1 DEF Reserved
  <2>3. req[taken[e]].device \in Devices /\ req[e].device \in Devices
    BY <1>5, <2>1 DEF Request
  <2>4. reserved[token[e]] \in Session
    BY <2>2, <2>3 DEF Session
  <2>5. {req[taken[e]].device, req[e].device} = {req[c].device, req[d].device}
    BY <2>1
  <2> QED
    BY <2>1, <2>2, <2>4, <2>5
<1> QED
  BY <1>7, <1>8, <1>9, <1>10

-------------------------------------------------------------------------------
(* What a step of one handler leaves to the others. *)

StepOf(c) ==
  /\ TypeOK' /\ Dropping
  /\ \A e \in Conns \ {c} :
       /\ pc'[e] = pc[e] /\ req'[e] = req[e] /\ taken'[e] = taken[e]
       /\ token'[e] = token[e] /\ answer'[e] = answer[e]
  /\ \A t \in Tokens : reserved[t] # NoSession => reserved'[t] = reserved[t]
  /\ req[c] # NoRequest => req'[c] = req[c]
  /\ pc[c] \in Waits /\ taken[c] = NoConn => pc'[c] \in Waits /\ taken'[c] = NoConn
  /\ answer[c].kind = "match" =>
       answer'[c] = answer[c] /\ taken'[c] = taken[c] /\ token'[c] = token[c]

LEMMA PartnersStay ==
  ASSUME IInv, NEW c \in Conns, StepOf(c), NEW w, NEW code, Partner(w, code)
  PROVE  Partner(w, code)' /\ req'[w] = req[w]
  BY DEF StepOf, Partner

LEMMA OthersStay ==
  ASSUME IInv, NEW c \in Conns, StepOf(c)
  PROVE  /\ \A e \in Conns \ {c} : Role(e)' /\ Reserved(e)' /\ Answered(e)'
         /\ \A e \in Conns : Woken(e)'
<1>1. \A e \in Conns : Role(e) /\ Reserved(e) /\ Answered(e) /\ Woken(e)
  BY DEF IInv
<1>2. \A e \in Conns : mail[e].kind = "match" => mail'[e] = mail[e]
  BY DEF StepOf, Dropping
<1>3. \A e \in Conns : mail'[e].kind = "match" => mail'[e] = mail[e]
  BY DEF StepOf, Dropping
<1>4. \A e \in Conns : token[e] \in Tokens \cup {NoToken} /\ taken[e] \in Conns \cup {NoConn}
  BY DEF IInv, TypeOK
<1>5. ASSUME NEW e \in Conns \ {c} PROVE Role(e)' /\ Reserved(e)' /\ Answered(e)'
  <2>1. /\ pc'[e] = pc[e] /\ req'[e] = req[e] /\ taken'[e] = taken[e]
        /\ token'[e] = token[e] /\ answer'[e] = answer[e]
    BY DEF StepOf
  <2>2. taken[e] # NoConn => Partner(taken[e], req[e].code)' /\ req'[taken[e]] = req[taken[e]]
    <3>1. \A w, code : Partner(w, code) => Partner(w, code)' /\ req'[w] = req[w]
      BY PartnersStay
    <3> QED
      BY <1>1, <2>1, <3>1 DEF Role
  <2>3. Role(e)'
    <3>1. Role(e)
      BY <1>1
    <3>2. taken'[e] # NoConn => req'[e] \in Request /\ Partner(taken[e], req[e].code)'
      BY <2>1, <2>2, <3>1 DEF Role
    <3> QED
      BY <2>1, <3>1, <3>2 DEF Role
  <2>4. Reserved(e)'
    <3> SUFFICES ASSUME token[e] # NoToken
                 PROVE  taken'[e] # NoConn /\ reserved'[token[e]] = [a |-> req'[taken'[e]].device, b |-> req'[e].device]
      BY <2>1 DEF Reserved
    <3>1. /\ token[e] \in Tokens /\ taken[e] # NoConn
          /\ reserved[token[e]] = [a |-> req[taken[e]].device, b |-> req[e].device]
      BY <1>1, <1>4 DEF Reserved
    <3>2. req[taken[e]] \in Request /\ req[e] \in Request
      BY <1>1, <3>1 DEF Role, Partner
    <3>3. reserved[token[e]] \in Session
      BY <3>1, <3>2 DEF Session, Request
    <3> QED
      BY <2>1, <2>2, <3>1, <3>3 DEF StepOf
  <2>5. Answered(e)'
    BY <1>1, <1>2, <2>1 DEF Answered
  <2> QED
    BY <2>3, <2>4, <2>5
<1>6. ASSUME NEW e \in Conns PROVE Woken(e)'
  <2> SUFFICES ASSUME mail'[e].kind = "match"
               PROVE  LET d == mail[e].peer IN
                        d \in Conns /\ taken'[d] = e /\ answer'[d].kind = "match" /\ mail[e].token = token'[d]
    BY <1>3 DEF Woken
  <2>1. mail[e].kind = "match"
    BY <1>3
  <2> QED
    BY <1>1, <2>1 DEF Woken, StepOf
<1> QED
  BY <1>5, <1>6

(* The map and what is held of it, when the step takes out no waiter and puts  *)
(* none in.                                                                    *)
LEMMA NobodyIsTaken ==
  ASSUME IInv, NEW c \in Conns, StepOf(c),
         \A code \in Codes : waiting'[code] \in {waiting[code], NoConn},
         Took(c)' => Took(c) /\ taken'[c] = taken[c]
  PROVE  Queue' /\ Sole'
<1>1. Queue'
  BY PartnersStay DEF IInv, Queue
<1>2. \A e \in Conns : Took(e)' => Took(e) /\ taken'[e] = taken[e]
  BY DEF StepOf, Took
<1>3. Sole'
  <2> SUFFICES ASSUME NEW e \in Conns, Took(e)'
               PROVE  /\ \A f \in Conns : Took(f)' /\ taken'[f] = taken'[e] => f = e
                      /\ \A code \in Codes : waiting'[code] # taken'[e]
    BY DEF Sole
  <2>1. Took(e) /\ taken'[e] = taken[e] /\ taken[e] # NoConn
    BY <1>2 DEF Took
  <2> QED
    BY <1>2, <2>1 DEF IInv, Sole
<1> QED
  BY <1>1, <1>3

(* A step that changes neither what c asked nor whom it took, and that does    *)
(* not make it a match.                                                        *)
LEMMA Quiet ==
  ASSUME IInv, NEW c \in Conns, TypeOK', Dropping,
         NEW to, pc' = [pc EXCEPT ![c] = to], UNCHANGED <<req, taken, token, reserved>>,
         \A code \in Codes : waiting'[code] \in {waiting[code], NoConn},
         \A e \in Conns \ {c} : answer'[e] = answer[e],
         answer'[c] = answer[c] \/ (answer[c].kind # "match" /\ answer'[c].kind # "match"),
         to \in Before => pc[c] \in Before, to \in Taking => to = "write" /\ pc[c] = "second",
         to \in {"queued", "accepted"} \/ pc[c] \notin {"idle", "queued", "accepted"} \/ to = "done",
         to \in {"queued", "accepted"} => pc[c] \in {"idle", "queued", "accepted"},
         to # "idle", pc[c] \in Waits => to \in Waits
  PROVE  IInv'
<1>1. StepOf(c)
  BY DEF StepOf, IInv, TypeOK
<1>2. pc'[c] = to
  BY DEF IInv, TypeOK
<1>3. Role(c) /\ Reserved(c) /\ Answered(c)
  BY DEF IInv
<1>4. taken[c] # NoConn => Partner(taken[c], req[c].code)' /\ req'[taken[c]] = req[taken[c]]
  BY <1>1, <1>3, PartnersStay DEF Role
<1>5. Role(c)'
  BY <1>2, <1>3, <1>4 DEF Role, Before, Asked, Taking
<1>6. Reserved(c)'
  BY <1>3 DEF Reserved
<1>7. Answered(c)'
  BY <1>3 DEF Answered, Dropping
<1>8. Took(c)' => Took(c) /\ taken'[c] = taken[c]
  BY <1>2 DEF Took, Taking
<1>9. Queue' /\ Sole'
  BY <1>1, <1>8, NobodyIsTaken
<1> QED
  BY <1>1, <1>5, <1>6, <1>7, <1>9, OthersStay DEF IInv

-------------------------------------------------------------------------------
(* Types. *)

LEMMA FinishTyped ==
  ASSUME TypeOK, NEW c \in Conns, NEW m \in Answers, Finish(c, m)
  PROVE  /\ pc' = [pc EXCEPT ![c] = "done"] /\ answer' \in [Conns -> Answers]
         /\ answer'[c] = m /\ \A e \in Conns \ {c} : answer'[e] = answer[e]
  BY DEF Finish, TypeOK, Answers

(* The text of a message that is no match. *)
LEMMA SaidAreTyped ==
  /\ \A k \in {"rejected", "closed", "expired"} : Plain(k) \in Answers /\ Plain(k).kind # "match"
  /\ \A k \in {"rejected", "closed"}, w \in Conns \cup {NoConn} :
       About(k, w) \in Answers /\ About(k, w).kind # "match"
  /\ \A w \in Conns \cup {NoConn}, t \in Tokens \cup {NoToken} :
       Match(w, t) \in Answers /\ Match(w, t) \in Mails /\ Match(w, t).kind = "match"
  BY MessagesAreTyped DEF Plain, About, Match

Places == {"idle", "queued", "accepted", "second", "refused", "write", "notify",
           "first", "wait", "cleanup", "reply", "done"}

LEMMA TypedStep ==
  ASSUME TypeOK, NEW c \in Conns, NEW to \in Places, pc' = [pc EXCEPT ![c] = to],
         UNCHANGED <<req, taken, token, reserved>>, Dropping,
         \A code \in Codes : waiting'[code] \in Conns \cup {NoConn},
         \E f : waiting' = [code \in Codes |-> f[code]],
         answer' \in [Conns -> Answers], expired' \subseteq Conns
  PROVE  TypeOK'
  BY DEF TypeOK, Places, Dropping, Answers, Mails

-------------------------------------------------------------------------------
(* The steps. *)

LEMMA NoMessageStep ==
  ASSUME IInv, NEW c \in Conns,
         Connect(c) \/ Accept(c) \/ GoDirect(c) \/ Expire(c) \/ Wakes(c)
  PROVE  IInv'
<1>1. TypeOK
  BY DEF IInv
<1>2. Dropping
  BY <1>1, SameMailDrops DEF Connect, Accept, GoDirect, Expire, Wakes
<1>3. UNCHANGED <<req, waiting, taken, token, reserved, mail, answer>>
  BY DEF Connect, Accept, GoDirect, Expire, Wakes
<1>4. /\ waiting' = [code \in Codes |-> waiting[code]] /\ answer' \in [Conns -> Answers]
      /\ \A code \in Codes : waiting[code] \in Conns \cup {NoConn}
  BY <1>1, <1>3 DEF TypeOK, Answers
<1>5. PICK to \in Places :
        /\ pc' = [pc EXCEPT ![c] = to]
        /\ <<pc[c], to>> \in {<<"idle", "queued">>, <<"queued", "accepted">>, <<"second", "write">>,
                              <<"wait", "wait">>, <<"wait", "cleanup">>}
        /\ expired' \subseteq Conns
  <2>1. CASE Expire(c)
    BY <1>1, <2>1 DEF Expire, TypeOK, Places
  <2>2. CASE Connect(c) \/ Accept(c) \/ GoDirect(c) \/ Wakes(c)
    BY <1>1, <2>2 DEF Connect, Accept, GoDirect, Wakes, TypeOK, Places
  <2> QED
    BY <2>1, <2>2
<1>6. TypeOK'
  BY <1>1, <1>2, <1>3, <1>4, <1>5, TypedStep
<1> QED
  BY <1>2, <1>3, <1>5, <1>6, Quiet DEF Before, Taking, Waits

(* A handler that ends with another word than a match. *)
LEMMA EndsUnmatched ==
  ASSUME IInv, NEW c \in Conns, NEW m \in Answers, m.kind # "match", Finish(c, m), Dropping,
         pc[c] \in {"accepted", "refused", "write", "first", "reply"},
         UNCHANGED <<req, taken, token, reserved, expired>>,
         \A code \in Codes : waiting'[code] \in {waiting[code], NoConn},
         \E f : waiting' = [code \in Codes |-> f[code]]
  PROVE  IInv'
<1>1. TypeOK
  BY DEF IInv
<1>2. /\ pc' = [pc EXCEPT ![c] = "done"] /\ answer' \in [Conns -> Answers]
      /\ answer'[c] = m /\ \A e \in Conns \ {c} : answer'[e] = answer[e]
  BY <1>1, FinishTyped
<1>3. expired' \subseteq Conns /\ (\A code \in Codes : waiting'[code] \in Conns \cup {NoConn})
  BY <1>1 DEF TypeOK
<1>4. TypeOK'
  BY <1>1, <1>2, <1>3, TypedStep DEF Places
<1>5. answer[c].kind # "match"
  BY DEF IInv, Role, Before
<1> QED
  BY <1>2, <1>4, <1>5, Quiet DEF Before, Taking, Waits

LEMMA SameMap ==
  ASSUME TypeOK, UNCHANGED waiting
  PROVE  /\ \A code \in Codes : waiting'[code] \in {waiting[code], NoConn}
         /\ \E f : waiting' = [code \in Codes |-> f[code]]
  BY DEF TypeOK

LEMMA RefuseStep ==
  ASSUME IInv, NEW c \in Conns, Refuse(c)
  PROVE  IInv'
<1>1. TypeOK /\ pc[c] = "accepted" /\ UNCHANGED <<req, waiting, taken, token, reserved, mail, expired>>
  BY DEF Refuse, IInv
<1>2. PICK kind \in {"closed", "rejected"} : Finish(c, Plain(kind))
  BY DEF Refuse
<1>3. Dropping
  BY <1>1, SameMailDrops
<1> QED
  BY <1>1, <1>2, <1>3, SaidAreTyped, SameMap, EndsUnmatched

LEMMA CleanupStep ==
  ASSUME IInv, NEW c \in Conns, Cleanup(c)
  PROVE  IInv'
<1>1. /\ TypeOK /\ pc[c] = "cleanup" /\ pc' = [pc EXCEPT ![c] = "reply"]
      /\ UNCHANGED <<req, taken, token, reserved, expired, answer>>
  BY DEF Cleanup, IInv
<1>2. Dropping
  <2>1. CASE UNCHANGED mail
    BY <1>1, <2>1, SameMailDrops
  <2>2. CASE Deliver(Plain("dropped"), {waiting[req[c].code]})
    BY <1>1, <2>2, DeliverDrops
  <2> QED
    BY <2>1, <2>2 DEF Cleanup
<1>3. /\ \A code \in Codes : waiting'[code] \in {waiting[code], NoConn}
      /\ \E f : waiting' = [code \in Codes |-> f[code]]
  <2>1. CASE UNCHANGED waiting
    BY <1>1, <2>1, SameMap
  <2>2. CASE waiting' = [waiting EXCEPT ![req[c].code] = NoConn]
    <3>1. waiting' = [code \in Codes |-> IF code = req[c].code THEN NoConn ELSE waiting[code]]
      BY <1>1, <2>2 DEF TypeOK
    <3>2. \A code \in Codes : waiting'[code] \in {waiting[code], NoConn}
      BY <3>1
    <3>3. waiting' = [code \in Codes |-> waiting'[code]]
      BY <3>1
    <3> QED
      BY <3>2, <3>3
  <2> QED
    BY <2>1, <2>2 DEF Cleanup
<1>4. answer' \in [Conns -> Answers] /\ expired' \subseteq Conns
      /\ \A code \in Codes : waiting'[code] \in Conns \cup {NoConn}
  BY <1>1, <1>3 DEF TypeOK, Answers
<1>5. TypeOK'
  BY <1>1, <1>2, <1>3, <1>4, TypedStep DEF Places
<1> QED
  BY <1>1, <1>2, <1>3, <1>5, Quiet DEF Before, Taking, Waits

LEMMA ReserveStep ==
  ASSUME IInv, NEW c \in Conns, ReserveSession(c)
  PROVE  IInv'
<1>1. /\ TypeOK /\ pc[c] = "second" /\ UNCHANGED <<req, waiting, taken, mail, expired, answer>>
  BY DEF ReserveSession, IInv
<1>2. Dropping
  BY <1>1, SameMailDrops
<1>3. /\ Role(c) /\ taken[c] # NoConn /\ token[c] = NoToken /\ answer[c].kind # "match"
      /\ Partner(taken[c], req[c].code) /\ req[c] \in Request /\ req[taken[c]] \in Request
  BY <1>1 DEF IInv, Role, Taking, Partner
<1>4. PICK t \in Tokens :
        IF req[taken[c]].device # req[c].device /\ reserved[t] = NoSession
        THEN /\ reserved' = [reserved EXCEPT ![t] = [a |-> req[taken[c]].device, b |-> req[c].device]]
             /\ token' = [token EXCEPT ![c] = t]
             /\ pc' = [pc EXCEPT ![c] = "write"]
        ELSE pc' = [pc EXCEPT ![c] = "refused"] /\ UNCHANGED <<reserved, token>>
  BY DEF ReserveSession
<1>5. [a |-> req[taken[c]].device, b |-> req[c].device] \in Session
  BY <1>3 DEF Session, Request
<1>6. TypeOK'
  BY <1>1, <1>4, <1>5 DEF TypeOK
<1>7. /\ StepOf(c) /\ pc'[c] \in {"write", "refused"}
      /\ pc'[c] = "refused" => token'[c] = NoToken
      /\ token'[c] # NoToken => reserved'[token'[c]] = [a |-> req[taken[c]].device, b |-> req[c].device]
  <2>1. CASE req[taken[c]].device # req[c].device /\ reserved[t] = NoSession
    BY <1>1, <1>2, <1>3, <1>4, <1>6, <2>1 DEF StepOf, TypeOK, Waits
  <2>2. CASE ~(req[taken[c]].device # req[c].device /\ reserved[t] = NoSession)
    BY <1>1, <1>2, <1>3, <1>4, <1>6, <2>2 DEF StepOf, TypeOK, Waits
  <2> QED
    BY <2>1, <2>2
<1>8. Partner(taken[c], req[c].code)'
  BY <1>1, <1>3, <1>7, PartnersStay
<1>9. Role(c)' /\ Reserved(c)' /\ Answered(c)'
  BY <1>1, <1>3, <1>7, <1>8 DEF Role, Reserved, Answered, Before, Asked, Taking
<1>10. Queue' /\ Sole'
  <2>1. Took(c)
    BY <1>1, <1>3 DEF Took, Taking
  <2> QED
    BY <1>1, <1>7, <2>1, NobodyIsTaken
<1> QED
  BY <1>6, <1>7, <1>9, <1>10, OthersStay DEF IInv

LEMMA PutBackStep ==
  ASSUME IInv, NEW c \in Conns, PutBack(c)
  PROVE  IInv'
<1>1. /\ TypeOK /\ pc[c] = "refused" /\ UNCHANGED <<req, taken, token, reserved, expired>>
  BY DEF PutBack, IInv
<1>2. /\ Role(c) /\ taken[c] \in Conns /\ token[c] = NoToken /\ answer[c].kind # "match"
      /\ Partner(taken[c], req[c].code) /\ req[c] \in Request /\ req[c].code \in Codes
  BY <1>1 DEF IInv, Role, Taking, Partner, TypeOK, Request
<1>3. CASE waiting[req[c].code] # NoConn
  <2>1. /\ Finish(c, About("rejected", taken[c])) /\ Deliver(Plain("dropped"), {taken[c]})
        /\ UNCHANGED waiting
    BY <1>3 DEF PutBack
  <2>2. Dropping
    BY <1>1, <2>1, DeliverDrops
  <2> QED
    BY <1>1, <1>2, <2>1, <2>2, SaidAreTyped, SameMap, EndsUnmatched
<1>4. CASE waiting[req[c].code] = NoConn
  <2>1. /\ waiting' = [waiting EXCEPT ![req[c].code] = taken[c]]
        /\ Finish(c, Plain("rejected")) /\ UNCHANGED mail
    BY <1>4 DEF PutBack
  <2>2. /\ pc' = [pc EXCEPT ![c] = "done"] /\ answer' \in [Conns -> Answers]
        /\ answer'[c].kind # "match" /\ \A e \in Conns \ {c} : answer'[e] = answer[e]
    BY <1>1, <2>1, SaidAreTyped, FinishTyped
  <2>3. TypeOK' /\ Dropping
    BY <1>1, <1>2, <2>1, <2>2, SameMailDrops DEF TypeOK, Answers
  <2>4. StepOf(c) /\ pc'[c] = "done"
    BY <1>1, <1>2, <2>2, <2>3 DEF StepOf, TypeOK, Waits
  <2>5. Partner(taken[c], req[c].code)'
    BY <1>1, <1>2, <2>4, PartnersStay
  <2>6. Role(c)' /\ Reserved(c)' /\ Answered(c)'
    BY <1>1, <1>2, <2>2, <2>4, <2>5 DEF Role, Reserved, Answered, Before, Asked, Taking
  <2>7. \A code \in Codes : waiting'[code] = IF code = req[c].code THEN taken[c] ELSE waiting[code]
    BY <1>1, <2>1 DEF TypeOK
  <2>8. \A w, code : Partner(w, code) => Partner(w, code)'
    BY <2>4, PartnersStay
  <2>9. Queue'
    BY <1>1, <1>2, <2>7, <2>8 DEF IInv, Queue
  <2>10. ~Took(c)' /\ Took(c)
    BY <1>1, <1>2, <2>2, <2>4 DEF Took, Taking
  <2>11. \A e \in Conns : Took(e)' => e # c /\ Took(e) /\ taken'[e] = taken[e]
    BY <1>1, <2>4, <2>10 DEF StepOf, Took
  <2>12. Sole'
    BY <1>1, <2>7, <2>10, <2>11 DEF IInv, Sole
  <2> QED
    BY <2>3, <2>4, <2>6, <2>9, <2>12, OthersStay DEF IInv
<1> QED
  BY <1>3, <1>4

LEMMA WriteStep ==
  ASSUME IInv, NEW c \in Conns, WriteMatch(c)
  PROVE  IInv'
<1>1. /\ TypeOK /\ pc[c] = "write" /\ UNCHANGED <<req, waiting, taken, token, reserved, expired>>
  BY DEF WriteMatch, IInv
<1>2. /\ Role(c) /\ Reserved(c) /\ taken[c] \in Conns /\ answer[c].kind # "match"
      /\ Partner(taken[c], req[c].code) /\ req[c] \in Request
      /\ token[c] \in Tokens \cup {NoToken}
  BY <1>1 DEF IInv, Role, Taking, Partner, TypeOK
<1>3. CASE Finish(c, About("closed", taken[c])) /\ Deliver(Plain("dropped"), {taken[c]})
  <2>1. Dropping
    BY <1>1, <1>3, DeliverDrops
  <2> QED
    BY <1>1, <1>2, <1>3, <2>1, SaidAreTyped, SameMap, EndsUnmatched
<1>4. CASE /\ answer' = [answer EXCEPT ![c] = Match(taken[c], token[c])]
           /\ pc' = [pc EXCEPT ![c] = "notify"] /\ UNCHANGED mail
  <2>1. Match(taken[c], token[c]) \in Answers /\ Match(taken[c], token[c]).kind = "match"
    BY <1>2, SaidAreTyped
  <2>2. TypeOK' /\ Dropping
    BY <1>1, <1>4, <2>1, SameMailDrops DEF TypeOK, Answers
  <2>3. StepOf(c) /\ pc'[c] = "notify" /\ answer'[c] = Match(taken[c], token[c])
    BY <1>1, <1>2, <1>4, <2>2 DEF StepOf, TypeOK, Waits
  <2>4. Partner(taken[c], req[c].code)'
    BY <1>1, <1>2, <2>3, PartnersStay
  <2>5. Role(c)'
    BY <1>1, <1>2, <2>1, <2>3, <2>4 DEF Role, Before, Asked, Taking
  <2>6. Reserved(c)' /\ Answered(c)'
    BY <1>1, <1>2, <2>3 DEF Reserved, Answered
  <2>7. Queue' /\ Sole'
    <3>1. Took(c)
      BY <1>1, <1>2 DEF Took, Taking
    <3> QED
      BY <1>1, <2>3, <3>1, NobodyIsTaken
  <2> QED
    BY <2>2, <2>3, <2>5, <2>6, <2>7, OthersStay DEF IInv
<1> QED
  BY <1>3, <1>4 DEF WriteMatch

LEMMA ReplyStep ==
  ASSUME IInv, NEW c \in Conns, Reply(c)
  PROVE  IInv'
<1>1. /\ TypeOK /\ pc[c] = "reply" /\ UNCHANGED <<req, waiting, taken, token, reserved, mail, expired>>
  BY DEF Reply, IInv
<1>2. Dropping
  BY <1>1, SameMailDrops
<1>3. CASE \E kind \in {"closed", "expired"} : Finish(c, Plain(kind))
  BY <1>1, <1>2, <1>3, SaidAreTyped, SameMap, EndsUnmatched
<1>4. CASE mail[c].kind = "match" /\ Finish(c, mail[c])
  <2>1. mail[c] \in Answers
    BY <1>1, <1>4, MessagesAreTyped DEF TypeOK, Mails
  <2>2. /\ pc' = [pc EXCEPT ![c] = "done"] /\ answer' \in [Conns -> Answers]
        /\ answer'[c] = mail[c] /\ \A e \in Conns \ {c} : answer'[e] = answer[e]
    BY <1>1, <1>4, <2>1, FinishTyped
  <2>3. TypeOK'
    BY <1>1, <2>2 DEF TypeOK, Answers
  <2>4. Role(c) /\ Reserved(c) /\ taken[c] = NoConn /\ answer[c].kind # "match"
    BY <1>1 DEF IInv, Role, Before
  <2>5. StepOf(c) /\ pc'[c] = "done"
    BY <1>1, <1>2, <2>2, <2>3, <2>4 DEF StepOf, TypeOK, Waits
  <2>6. Role(c)' /\ Reserved(c)' /\ Answered(c)'
    BY <1>1, <2>2, <2>4, <2>5 DEF Role, Reserved, Answered, Before, Asked, Taking
  <2>7. Queue' /\ Sole'
    <3>1. ~Took(c)'
      BY <1>1, <2>4 DEF Took
    <3> QED
      BY <1>1, <2>5, <3>1, NobodyIsTaken
  <2> QED
    BY <2>3, <2>5, <2>6, <2>7, OthersStay DEF IInv
<1> QED
  BY <1>3, <1>4 DEF Reply

(* The only step that puts a match into a oneshot: of the peer that c took.    *)
LEMMA NotifyStep ==
  ASSUME IInv, NEW c \in Conns, Notify(c)
  PROVE  IInv'
<1>1. /\ TypeOK /\ pc[c] = "notify" /\ pc' = [pc EXCEPT ![c] = "done"]
      /\ UNCHANGED <<req, waiting, taken, token, reserved, expired, answer>>
  BY DEF Notify, IInv
<1>2. /\ pc'[c] = "done" /\ \A e \in Conns \ {c} : pc'[e] = pc[e]
  BY <1>1 DEF TypeOK
<1>3. \A e \in Conns : Role(e) /\ Reserved(e) /\ Answered(e) /\ Woken(e)
  BY DEF IInv
<1>4. taken[c] \in Conns /\ answer[c].kind = "match" /\ token[c] \in Tokens \cup {NoToken}
  BY <1>1, <1>3 DEF Role, Taking, TypeOK
<1>5. Match(c, token[c]) \in Mails /\ Match(c, token[c]).kind = "match"
  BY <1>4, SaidAreTyped
<1>6. \A e \in Conns :
        \/ mail'[e] = mail[e]
        \/ e = taken[c] /\ mail[e].kind = "none" /\ mail'[e] = Match(c, token[c])
  BY DEF Notify, Deliver
<1>7. TypeOK'
  <2>1. mail' \in [Conns -> Mails]
    BY <1>1, <1>5 DEF Notify, Deliver, TypeOK, Mails
  <2> QED
    BY <1>1, <2>1 DEF TypeOK, Mails
<1>8. \A w, code : Partner(w, code) => Partner(w, code)'
  BY <1>1, <1>2 DEF Partner, Waits
<1>9. ASSUME NEW e \in Conns PROVE Role(e)'
  <2>1. taken[e] # NoConn => req[e] \in Request /\ Partner(taken[e], req[e].code)'
    BY <1>1, <1>3, <1>8 DEF Role
  <2> QED
    BY <1>1, <1>2, <1>3, <1>4, <2>1 DEF Role, Before, Asked, Taking
<1>10. ASSUME NEW e \in Conns PROVE Reserved(e)' /\ Answered(e)'
  BY <1>1, <1>3, <1>6 DEF Reserved, Answered
<1>11. ASSUME NEW e \in Conns PROVE Woken(e)'
  <2>1. CASE mail'[e] = mail[e]
    BY <1>1, <1>3, <2>1 DEF Woken
  <2>2. CASE e = taken[c] /\ mail'[e] = Match(c, token[c])
    BY <1>1, <1>4, <2>2 DEF Woken, Match
  <2> QED
    BY <1>6, <2>1, <2>2
<1>12. Queue'
  BY <1>1, <1>8 DEF IInv, Queue
<1>13. \A e \in Conns : Took(e)' => Took(e) /\ taken'[e] = taken[e]
  BY <1>1, <1>2 DEF Took, Taking
<1>14. Sole'
  BY <1>1, <1>13 DEF IInv, Sole
<1> QED
  BY <1>7, <1>9, <1>10, <1>11, <1>12, <1>14 DEF IInv

LEMMA InsertStep ==
  ASSUME IInv, NEW c \in Conns, Insert(c)
  PROVE  IInv'
<1> DEFINE kept == [code \in Codes |-> IF waiting[code] \in Lapsed THEN NoConn ELSE waiting[code]]
<1>1. /\ TypeOK /\ pc[c] = "first" /\ UNCHANGED <<req, taken, token, reserved, expired>>
      /\ Deliver(Plain("dropped"), Lapsed)
  BY DEF Insert, IInv
<1>2. Dropping
  BY <1>1, DeliverDrops
<1>3. /\ Role(c) /\ Reserved(c) /\ taken[c] = NoConn /\ answer[c].kind # "match"
      /\ req[c] \in Request /\ req[c].code \in Codes
  BY <1>1 DEF IInv, Role, Before, Asked, Request
<1>4. \A code \in Codes : kept[code] \in {waiting[code], NoConn}
  OBVIOUS
<1>5. CASE waiting' = kept /\ Finish(c, Plain("rejected"))
  <2>1. \E f : waiting' = [code \in Codes |-> f[code]]
    <3>1. waiting' = [code \in Codes |-> kept[code]]
      BY <1>5
    <3> QED
      BY <3>1
  <2>2. \A code \in Codes : waiting'[code] \in {waiting[code], NoConn}
    BY <1>4, <1>5
  <2> QED
    BY <1>1, <1>2, <1>5, <2>1, <2>2, SaidAreTyped, EndsUnmatched
<1>6. CASE waiting' = [kept EXCEPT ![req[c].code] = c] /\ pc' = [pc EXCEPT ![c] = "wait"] /\ UNCHANGED answer
  <2>1. \A code \in Codes : waiting'[code] = IF code = req[c].code THEN c ELSE kept[code]
    BY <1>6
  <2>2. TypeOK'
    <3>1. waiting' \in [Codes -> Conns \cup {NoConn}]
      BY <1>1, <1>6 DEF TypeOK
    <3>2. mail' \in [Conns -> Message({"dropped"})]
      BY <1>2 DEF Dropping, Mails
    <3>3. pc' \in [Conns -> Places]
      BY <1>1, <1>6 DEF TypeOK, Places
    <3> QED
      BY <1>1, <1>6, <3>1, <3>2, <3>3 DEF TypeOK, Places
  <2>3. StepOf(c) /\ pc'[c] = "wait"
    BY <1>1, <1>2, <1>3, <1>6, <2>2 DEF StepOf, TypeOK, Waits
  <2>4. Role(c)' /\ Reserved(c)' /\ Answered(c)'
    BY <1>1, <1>3, <1>6, <2>3 DEF Role, Reserved, Answered, Before, Asked, Taking
  <2>5. \A w, code : Partner(w, code) => Partner(w, code)'
    BY <2>3, PartnersStay
  <2>6. Partner(c, req[c].code)'
    BY <1>1, <1>3, <2>3 DEF Partner, Waits
  <2>7. Queue'
    BY <1>1, <1>3, <1>4, <2>1, <2>5, <2>6 DEF IInv, Queue
  <2>8. \A e \in Conns : Took(e)' => e # c /\ Took(e) /\ taken'[e] = taken[e]
    BY <1>1, <1>3, <1>6, <2>3 DEF StepOf, Took
(* The waiter of a handler that had not inserted one was not taken. *)
  <2>9. \A e \in Conns : Took(e) => taken[e] # c
    BY <1>1 DEF IInv, Role, Partner, Took, Waits
  <2>10. Sole'
    <3> SUFFICES ASSUME NEW e \in Conns, Took(e)'
                 PROVE  /\ \A f \in Conns : Took(f)' /\ taken'[f] = taken'[e] => f = e
                        /\ \A code \in Codes : waiting'[code] # taken'[e]
      BY DEF Sole
    <3>1. Took(e) /\ taken'[e] = taken[e] /\ taken[e] # NoConn /\ taken[e] # c
      BY <2>8, <2>9 DEF Took
    <3>2. \A f \in Conns : Took(f)' /\ taken'[f] = taken'[e] => f = e
      BY <2>8, <3>1 DEF IInv, Sole
    <3>3. \A code \in Codes : waiting[code] # taken[e]
      BY <3>1 DEF IInv, Sole
    <3> QED
      BY <1>4, <2>1, <3>1, <3>2, <3>3
  <2> QED
    BY <2>2, <2>3, <2>4, <2>7, <2>10, OthersStay DEF IInv
<1> QED
  BY <1>5, <1>6 DEF Insert

LEMMA LookupStep ==
  ASSUME IInv, NEW c \in Conns, NEW r \in Request, Lookup(c, r)
  PROVE  IInv'
<1> DEFINE w == waiting[r.code]
<1>1. /\ TypeOK /\ pc[c] = "accepted" /\ req' = [req EXCEPT ![c] = r]
      /\ UNCHANGED <<token, reserved, expired, answer>>
      /\ waiting' = [code \in Codes |->
                       IF waiting[code] \in Lapsed \/ code = r.code THEN NoConn ELSE waiting[code]]
      /\ Deliver(Plain("dropped"), Lapsed)
      /\ \/ w \in Conns /\ pc' = [pc EXCEPT ![c] = "second"] /\ taken' = [taken EXCEPT ![c] = w]
         \/ pc' = [pc EXCEPT ![c] = "first"] /\ UNCHANGED taken
  BY DEF Lookup, IInv
<1>2. Dropping
  BY <1>1, DeliverDrops
<1>3. /\ Role(c) /\ Reserved(c) /\ taken[c] = NoConn /\ answer[c].kind # "match" /\ req[c] = NoRequest
      /\ token[c] = NoToken /\ r.code \in Codes
  BY <1>1 DEF IInv, Role, Reserved, Before, Request
<1>4. \A code \in Codes : /\ waiting'[code] \in {waiting[code], NoConn}
                          /\ code = r.code => waiting'[code] = NoConn
  BY <1>1
<1>5. /\ pc'[c] = "second" => w \in Conns /\ taken'[c] = w
      /\ pc'[c] # "second" => taken'[c] = NoConn
      /\ pc'[c] \in {"first", "second"} /\ req'[c] = r
      /\ \A e \in Conns \ {c} : pc'[e] = pc[e] /\ taken'[e] = taken[e] /\ req'[e] = req[e]
      /\ pc' \in [Conns -> Places] /\ taken' \in [Conns -> Conns \cup {NoConn}]
      /\ req' \in [Conns -> Request \cup {NoRequest}]
  <2>1. pc \in [Conns -> Places] /\ taken \in [Conns -> Conns \cup {NoConn}]
        /\ req \in [Conns -> Request \cup {NoRequest}]
    BY <1>1 DEF TypeOK, Places
  <2> QED
    BY <1>1, <1>3, <2>1 DEF Places
<1>6. TypeOK'
  <2>1. waiting' \in [Codes -> Conns \cup {NoConn}]
    BY <1>1 DEF TypeOK
  <2>2. mail' \in [Conns -> Message({"dropped"})]
    BY <1>2 DEF Dropping, Mails
  <2> QED
    BY <1>1, <1>5, <2>1, <2>2 DEF TypeOK, Places
<1>7. StepOf(c)
  BY <1>1, <1>2, <1>3, <1>5, <1>6 DEF StepOf, Waits
<1>8. \A v, code : Partner(v, code) => Partner(v, code)'
  BY <1>7, PartnersStay
<1>9. w \in Conns => Partner(w, r.code) /\ w # c /\ \A e \in Conns : Took(e) => taken[e] # w
  <2>1. w \in Conns => Partner(w, r.code)
    BY <1>3 DEF IInv, Queue
  <2> QED
    BY <1>1, <1>3, <2>1 DEF Partner, Waits, IInv, Sole
<1>10. Role(c)' /\ Reserved(c)' /\ Answered(c)'
  <2>1. taken'[c] # NoConn => taken'[c] = w /\ Partner(w, r.code)
    BY <1>5, <1>9
  <2>2. taken'[c] # NoConn => Partner(taken[c], req[c].code)'
    BY <1>5, <1>8, <2>1
  <2>3. Role(c)'
    BY <1>1, <1>3, <1>5, <2>2 DEF Role, Before, Asked, Taking
  <2> QED
    BY <1>1, <1>3, <2>3 DEF Reserved, Answered
<1>11. Queue'
  BY <1>4, <1>8 DEF IInv, Queue
<1>12. \A e \in Conns : Took(e)' => (e # c /\ Took(e) /\ taken'[e] = taken[e])
                                  \/ (e = c /\ taken'[e] = w /\ w \in Conns)
  BY <1>1, <1>3, <1>5 DEF Took
<1>13. Sole'
  <2> SUFFICES ASSUME NEW e \in Conns, Took(e)'
               PROVE  /\ \A f \in Conns : Took(f)' /\ taken'[f] = taken'[e] => f = e
                      /\ \A code \in Codes : waiting'[code] # taken'[e]
    BY DEF Sole
  <2>1. CASE e = c
    <3>1. taken'[e] = w /\ w \in Conns
      BY <1>12, <2>1
    <3>2. \A f \in Conns : Took(f)' /\ taken'[f] = w => f = c
      BY <1>9, <1>12, <3>1
    <3>3. \A code \in Codes : waiting[code] = w => code = r.code
      BY <1>9, <3>1 DEF IInv, Queue, Partner
    <3> QED
      BY <1>4, <2>1, <3>1, <3>2, <3>3
  <2>2. CASE e # c
    <3>1. Took(e) /\ taken'[e] = taken[e] /\ taken[e] # NoConn
      BY <1>12, <2>2 DEF Took
    <3>2. \A f \in Conns : Took(f)' /\ taken'[f] = taken[e] => f = e
      BY <1>9, <1>12, <3>1 DEF IInv, Sole
    <3> QED
      BY <1>4, <3>1, <3>2 DEF IInv, Sole
  <2> QED
    BY <2>1, <2>2
<1> QED
  BY <1>6, <1>7, <1>10, <1>11, <1>13, OthersStay DEF IInv

(* A server that ends takes nothing back that a client was told. *)
LEMMA AcceptFailsStep ==
  ASSUME IInv, AcceptFails
  PROVE  IInv'
<1> DEFINE ended(c) == IF answer[c].kind = "none" THEN Plain("closed") ELSE answer[c]
<1>1. /\ TypeOK /\ pc' = [c \in Conns |-> "done"] /\ answer' = [c \in Conns |-> ended(c)]
      /\ UNCHANGED <<req, waiting, taken, token, reserved, mail, expired>>
  BY DEF AcceptFails, IInv
<1>2. Plain("closed") \in Answers /\ Plain("closed").kind = "closed"
  BY MessagesAreTyped DEF Plain
<1>3. \A c \in Conns : /\ pc'[c] = "done" /\ answer'[c] \in Answers
                       /\ answer[c].kind = "match" => answer'[c] = answer[c]
                       /\ answer'[c].kind = "match" => answer'[c] = answer[c]
  BY <1>1, <1>2 DEF TypeOK, Answers
<1>4. TypeOK'
  <2>1. answer' \in [Conns -> Answers]
    BY <1>1, <1>3
  <2> QED
    BY <1>1, <2>1 DEF TypeOK, Answers
<1>5. \A w, code : Partner(w, code) => Partner(w, code)'
  BY <1>1, <1>3 DEF Partner, Waits
<1>6. ASSUME NEW c \in Conns PROVE Role(c)' /\ Reserved(c)' /\ Answered(c)' /\ Woken(c)'
  <2>1. Role(c) /\ Reserved(c) /\ Answered(c) /\ Woken(c)
    BY DEF IInv
  <2>2. taken[c] # NoConn => req[c] \in Request /\ Partner(taken[c], req[c].code)'
    BY <1>1, <1>5, <2>1 DEF Role
  <2>3. Role(c)'
    BY <1>1, <1>3, <2>2 DEF Role, Before, Asked, Taking
  <2> QED
    BY <1>1, <1>3, <2>1, <2>3 DEF Reserved, Answered, Woken
<1>7. \A c \in Conns : Took(c)' => Took(c)
  BY <1>1, <1>3 DEF Took, Taking
<1>8. Queue' /\ Sole'
  BY <1>1, <1>5, <1>7 DEF IInv, Queue, Sole
<1> QED
  BY <1>4, <1>6, <1>8 DEF IInv

-------------------------------------------------------------------------------
(* The theorems. *)

LEMMA Initially == Init => IInv
<1> SUFFICES ASSUME Init PROVE IInv
  OBVIOUS
<1>1. Plain("none") \in Answers /\ Plain("none") \in Mails /\ Plain("none").kind = "none"
  BY MessagesAreTyped DEF Plain
<1>2. TypeOK
  BY <1>1 DEF Init, TypeOK, Answers, Mails
<1>3. ASSUME NEW c \in Conns
      PROVE  Role(c) /\ Reserved(c) /\ Answered(c) /\ Woken(c) /\ ~Took(c)
  BY <1>1 DEF Init, Role, Reserved, Answered, Woken, Took, Before, Asked, Taking
<1>4. Queue /\ Sole
  BY <1>3 DEF Init, Queue, Sole
<1> QED
  BY <1>2, <1>3, <1>4 DEF IInv

LEMMA Inductive == IInv /\ [Next]_vars => IInv'
<1> SUFFICES ASSUME IInv, [Next]_vars PROVE IInv'
  OBVIOUS
<1>1. CASE UNCHANGED vars
  <2>1. UNCHANGED <<pc, req, waiting, taken, token, reserved, mail, expired, answer>>
    BY <1>1 DEF vars
  <2>2. TypeOK' /\ \A c \in Conns : Role(c)' /\ Reserved(c)' /\ Answered(c)' /\ Woken(c)'
    BY <2>1 DEF IInv, TypeOK, Role, Reserved, Answered, Woken, Partner
  <2>3. Queue' /\ Sole'
    BY <2>1 DEF IInv, Queue, Sole, Partner, Took
  <2> QED
    BY <2>2, <2>3 DEF IInv
<1>2. CASE \E c \in Conns : Connect(c) \/ Accept(c) \/ Handle(c) \/ Expire(c)
  <2>1. PICK c \in Conns : Connect(c) \/ Accept(c) \/ Handle(c) \/ Expire(c)
    BY <1>2
  <2> QED
    BY <2>1, NoMessageStep, RefuseStep, LookupStep, ReserveStep, PutBackStep, WriteStep,
       NotifyStep, InsertStep, CleanupStep, ReplyStep DEF Handle
<1>3. CASE AcceptFails
  BY <1>3, AcceptFailsStep
<1> QED
  BY <1>1, <1>2, <1>3 DEF Next

LEMMA AlwaysIInv == Spec => []IInv
  BY Initially, Inductive, PTL DEF Spec

(* Every reachable state of the server is well typed. *)
THEOREM TypeCorrect == Spec => []TypeOK
<1>1. IInv => TypeOK
  BY DEF IInv
<1> QED
  BY AlwaysIInv, <1>1, PTL

(* handle_connection: whoever races with whom for a code, times out, fails to *)
(* write or is put back, of the clients told a peer no two share one, and two  *)
(* told each other are told the same way.                                      *)
THEOREM PairsAreAlwaysExclusive == Spec => []PairsAreExclusive
  BY AlwaysIInv, IInvImpliesExclusive, PTL

-------------------------------------------------------------------------------
(* Why a client is told Expired. *)

Reason(c, d) ==
  \/ answer[d].kind \in {"closed", "rejected"} /\ answer[d].peer = c
  \/ req[d] # NoRequest /\ req[d].device = req[c].device /\ req[d].code = req[c].code
HasReason(c) == \E d \in Conns \ {c} : Reason(c, d)

(* A oneshot is dropped for a reason, or because its waiter has expired; who is *)
(* past the wait was woken by one or the other; who was told Expired was not    *)
(* woken by a match; a refusal is the last word.                                *)
Excused(c) ==
  /\ mail[c].kind = "dropped" => c \in expired \/ HasReason(c)
  /\ mail[c].kind # "none" => req[c] \in Request
  /\ pc[c] \in {"cleanup", "reply"} => mail[c].kind # "none" \/ c \in expired
  /\ answer[c].kind = "expired" => c \in expired \/ mail[c].kind = "dropped"
  /\ answer[c].kind \in {"closed", "rejected"} => pc[c] = "done"
ExcuseInv == \A c \in Conns : Excused(c)

(* What no step takes back. *)
LEMMA NothingIsTakenBack ==
  ASSUME IInv, NEW c \in Conns, Connect(c) \/ Accept(c) \/ Handle(c) \/ Expire(c)
  PROVE  /\ \A d \in Conns : req[d] # NoRequest => req'[d] = req[d]
         /\ \A d \in Conns : pc[d] = "done" => pc'[d] = "done" /\ answer'[d] = answer[d]
         /\ \A d \in Conns : mail[d].kind # "none" => mail'[d] = mail[d]
         /\ expired \subseteq expired'
         /\ \A d \in Conns \ {c} : pc'[d] = pc[d] /\ answer'[d] = answer[d]
<1>1. /\ pc \in [Conns -> Places] /\ req \in [Conns -> Request \cup {NoRequest}]
      /\ mail \in [Conns -> Mails] /\ answer \in [Conns -> Answers]
  BY DEF IInv, TypeOK, Places, Mails, Answers
<1>2. pc[c] = "accepted" => req[c] = NoRequest
  BY DEF IInv, Role
<1>3. \A d \in Conns : mail[d].kind # "none" => mail'[d] = mail[d]
  BY <1>1 DEF Connect, Accept, Handle, Expire, Refuse, Lookup, ReserveSession, GoDirect, PutBack,
     WriteMatch, Notify, Insert, Wakes, Cleanup, Reply, Deliver
<1>4. \A d \in Conns : req[d] # NoRequest => req'[d] = req[d]
  BY <1>1, <1>2 DEF Connect, Accept, Handle, Expire, Refuse, Lookup, ReserveSession, GoDirect, PutBack,
     WriteMatch, Notify, Insert, Wakes, Cleanup, Reply
<1>5. expired \subseteq expired'
  BY DEF Connect, Accept, Handle, Expire, Refuse, Lookup, ReserveSession, GoDirect, PutBack,
     WriteMatch, Notify, Insert, Wakes, Cleanup, Reply
<1>6. \A d \in Conns \ {c} : pc'[d] = pc[d] /\ answer'[d] = answer[d]
  BY <1>1 DEF Connect, Accept, Handle, Expire, Refuse, Lookup, ReserveSession, GoDirect, PutBack,
     WriteMatch, Notify, Insert, Wakes, Cleanup, Reply, Finish
<1>7. pc[c] # "done"
  BY DEF Connect, Accept, Handle, Expire, Refuse, Lookup, ReserveSession, GoDirect, PutBack,
     WriteMatch, Notify, Insert, Wakes, Cleanup, Reply
<1> QED
  BY <1>3, <1>4, <1>5, <1>6, <1>7

(* A oneshot is dropped with its waiter: when that is expired, when whoever     *)
(* took it is refused or fails, or by the cleanup of the same device.           *)
LEMMA DroppedForAReason ==
  ASSUME IInv, NEW c \in Conns, Connect(c) \/ Accept(c) \/ Handle(c) \/ Expire(c),
         NEW w \in Conns, mail[w].kind = "none", mail'[w].kind # "none"
  PROVE  /\ pc[w] = "wait" /\ req[w] \in Request
         /\ mail'[w].kind = "dropped" => w \in expired \/ HasReason(w)'
<1>1. /\ pc \in [Conns -> Places] /\ req \in [Conns -> Request \cup {NoRequest}]
      /\ mail \in [Conns -> Mails] /\ answer \in [Conns -> Answers]
      /\ waiting \in [Codes -> Conns \cup {NoConn}] /\ taken \in [Conns -> Conns \cup {NoConn}]
  BY DEF IInv, TypeOK, Places, Mails, Answers
<1>2. Role(c) /\ Role(w) /\ Queue
  BY DEF IInv
<1>3. pc[w] = "wait"
  BY DEF Connect, Accept, Handle, Expire, Refuse, Lookup, ReserveSession, GoDirect, PutBack,
     WriteMatch, Notify, Insert, Wakes, Cleanup, Reply, Deliver
<1>4. req[w] \in Request
  BY <1>2, <1>3 DEF Role, Asked
<1>5. CASE \/ Connect(c) \/ Accept(c) \/ Expire(c) \/ Refuse(c) \/ ReserveSession(c) \/ GoDirect(c)
           \/ Wakes(c) \/ Reply(c)
  BY <1>5 DEF Connect, Accept, Expire, Refuse, ReserveSession, GoDirect, Wakes, Reply
<1>6. CASE Insert(c) \/ \E r \in Request : Lookup(c, r)
  BY <1>1, <1>3, <1>4, <1>6 DEF Insert, Lookup, Deliver, Lapsed
<1>7. CASE Notify(c)
  BY <1>3, <1>4, <1>7 DEF Notify, Deliver, Match
<1>8. CASE PutBack(c) \/ WriteMatch(c)
  <2>1. w = taken[c] /\ w # c
    BY <1>3, <1>8 DEF PutBack, WriteMatch, Deliver
  <2>2. answer'[c].kind \in {"closed", "rejected"} /\ answer'[c].peer = w
    BY <1>1, <1>8, <2>1 DEF PutBack, WriteMatch, Deliver, Finish, About
  <2> QED
    BY <1>3, <1>4, <2>1, <2>2 DEF HasReason, Reason
<1>9. CASE Cleanup(c)
  <2>1. w # c /\ w = waiting[req[c].code] /\ req[w].device = req[c].device /\ req' = req
    BY <1>3, <1>9 DEF Cleanup, Deliver
  <2>2. req[c] \in Request
    BY <1>2, <1>9 DEF Cleanup, Role, Asked
  <2>3. req[w].code = req[c].code
    BY <1>2, <2>1, <2>2 DEF Queue, Partner, Request
  <2> QED
    BY <1>3, <1>4, <2>1, <2>2, <2>3 DEF HasReason, Reason
<1> QED
  BY <1>5, <1>6, <1>7, <1>8, <1>9 DEF Handle

LEMMA ExcuseStep ==
  ASSUME IInv, ExcuseInv, NEW c \in Conns, Connect(c) \/ Accept(c) \/ Handle(c) \/ Expire(c)
  PROVE  ExcuseInv'
<1>1. /\ \A d \in Conns : req[d] # NoRequest => req'[d] = req[d]
      /\ \A d \in Conns : pc[d] = "done" => pc'[d] = "done" /\ answer'[d] = answer[d]
      /\ \A d \in Conns : mail[d].kind # "none" => mail'[d] = mail[d]
      /\ expired \subseteq expired'
      /\ \A d \in Conns \ {c} : pc'[d] = pc[d] /\ answer'[d] = answer[d]
  BY NothingIsTakenBack
<1>2. /\ pc \in [Conns -> Places] /\ answer \in [Conns -> Answers]
  BY DEF IInv, TypeOK, Places, Answers
<1> SUFFICES ASSUME NEW w \in Conns PROVE Excused(w)'
  BY DEF ExcuseInv
<1>3. Excused(w) /\ Excused(c)
  BY DEF ExcuseInv
<1>4. req[w] \in Request /\ HasReason(w) => HasReason(w)'
  <2> SUFFICES ASSUME req[w] \in Request, NEW d \in Conns \ {w}, Reason(w, d) PROVE Reason(w, d)'
    BY DEF HasReason
  <2>1. req'[w] = req[w]
    BY <1>1
  <2>2. CASE answer[d].kind \in {"closed", "rejected"} /\ answer[d].peer = w
    BY <1>1, <2>2 DEF ExcuseInv, Excused, Reason
  <2>3. CASE req[d] # NoRequest /\ req[d].device = req[w].device /\ req[d].code = req[w].code
    BY <1>1, <2>1, <2>3 DEF Reason
  <2> QED
    BY <2>2, <2>3 DEF Reason
<1>5. CASE mail[w].kind # "none"
  <2>1. mail'[w] = mail[w] /\ req'[w] = req[w] /\ req[w] \in Request
    BY <1>1, <1>3, <1>5 DEF Excused
  <2>2. /\ mail'[w].kind = "dropped" => w \in expired' \/ HasReason(w)'
        /\ mail'[w].kind # "none" /\ req'[w] \in Request
    BY <1>1, <1>3, <1>4, <1>5, <2>1 DEF Excused
  <2>3. /\ answer'[w].kind = "expired" => w \in expired' \/ mail'[w].kind = "dropped"
        /\ answer'[w].kind \in {"closed", "rejected"} => pc'[w] = "done"
    <3>1. CASE w # c
      BY <1>1, <1>3, <2>1, <3>1 DEF Excused
    <3>2. CASE w = c /\ answer'[c] = answer[c]
      <4>1. answer[c].kind \in {"closed", "rejected"} => pc'[c] = "done"
        BY <1>1, <1>3 DEF Excused
      <4> QED
        BY <1>1, <1>3, <2>1, <3>2, <4>1 DEF Excused
    <3>3. CASE w = c /\ answer'[c] # answer[c]
      <4>1. Refuse(c) \/ PutBack(c) \/ WriteMatch(c) \/ Insert(c) \/ Reply(c)
        BY <3>3 DEF Connect, Accept, Handle, Expire, Lookup, ReserveSession, GoDirect, Notify, Wakes, Cleanup
      <4>2. CASE Reply(c)
        <5>1. mail[c].kind \in {"match", "dropped"}
          BY <1>5, <3>3 DEF IInv, TypeOK, Message
        <5> QED
          BY <1>2, <2>1, <3>3, <4>2, <5>1 DEF Reply, Finish, Plain
      <4>3. CASE Refuse(c) \/ PutBack(c) \/ WriteMatch(c) \/ Insert(c)
        BY <1>2, <3>3, <4>3 DEF Refuse, PutBack, WriteMatch, Insert, Finish, Plain, About, Match
      <4> QED
        BY <4>1, <4>2, <4>3
    <3> QED
      BY <3>1, <3>2, <3>3
  <2> QED
    BY <2>2, <2>3 DEF Excused
<1>6. CASE mail[w].kind = "none" /\ mail'[w].kind # "none"
  <2>1. /\ pc[w] = "wait" /\ req[w] \in Request
        /\ mail'[w].kind = "dropped" => w \in expired \/ HasReason(w)'
    BY <1>6, DroppedForAReason
  <2>2. answer[w].kind \notin {"expired", "closed", "rejected"} \/ w \in expired
    BY <1>3, <1>6, <2>1 DEF Excused
  <2>3. answer[w].kind \notin {"closed", "rejected"}
    BY <1>3, <2>1 DEF Excused
  <2>4. answer'[w] = answer[w]
    <3>1. CASE w # c
      BY <1>1, <3>1
    <3>2. CASE w = c
      BY <2>1, <3>2 DEF Connect, Accept, Handle, Expire, Refuse, Lookup, ReserveSession, GoDirect, PutBack,
         WriteMatch, Notify, Insert, Wakes, Cleanup, Reply
    <3> QED
      BY <3>1, <3>2
  <2>5. req'[w] = req[w]
    BY <1>1, <2>1
  <2> QED
    BY <1>1, <1>6, <2>1, <2>2, <2>3, <2>4, <2>5 DEF Excused
<1>7. CASE mail'[w].kind = "none" /\ mail[w].kind = "none"
  <2>1. pc'[w] \in {"cleanup", "reply"} => w \in expired'
    <3>1. CASE w # c
      BY <1>1, <1>3, <1>7, <3>1 DEF Excused
    <3>2. CASE w = c
      BY <1>1, <1>2, <1>3, <1>7, <3>2 DEF Excused, Connect, Accept, Handle, Expire, Refuse, Lookup,
         ReserveSession, GoDirect, PutBack, WriteMatch, Notify, Insert, Wakes, Cleanup, Reply, Finish
    <3> QED
      BY <3>1, <3>2
  <2>2. /\ answer'[w].kind = "expired" => w \in expired'
        /\ answer'[w].kind \in {"closed", "rejected"} => pc'[w] = "done"
    <3>1. CASE w # c
      BY <1>1, <1>3, <1>7, <3>1 DEF Excused
    <3>2. CASE w = c /\ answer'[c] = answer[c]
      <4>1. answer[c].kind \in {"closed", "rejected"} => pc'[c] = "done"
        BY <1>1, <1>3 DEF Excused
      <4> QED
        BY <1>1, <1>3, <1>7, <3>2, <4>1 DEF Excused
    <3>3. CASE w = c /\ answer'[c] # answer[c]
      <4>1. Refuse(c) \/ PutBack(c) \/ WriteMatch(c) \/ Insert(c) \/ Reply(c)
        BY <3>3 DEF Connect, Accept, Handle, Expire, Lookup, ReserveSession, GoDirect, Notify, Wakes, Cleanup
      <4>2. CASE Reply(c)
        <5>1. c \in expired
          BY <1>3, <1>7, <3>3, <4>2 DEF Reply, Excused
        <5> QED
          BY <1>1, <1>2, <1>7, <3>3, <4>2, <5>1 DEF Reply, Finish, Plain
      <4>3. CASE Refuse(c) \/ PutBack(c) \/ WriteMatch(c) \/ Insert(c)
        BY <1>2, <3>3, <4>3 DEF Refuse, PutBack, WriteMatch, Insert, Finish, Plain, About, Match
      <4> QED
        BY <4>1, <4>2, <4>3
    <3> QED
      BY <3>1, <3>2, <3>3
  <2> QED
    BY <1>7, <2>1, <2>2 DEF Excused
<1> QED
  BY <1>5, <1>6, <1>7

LEMMA ExcusesOutliveTheServer ==
  ASSUME IInv, ExcuseInv, AcceptFails
  PROVE  ExcuseInv'
<1>1. /\ pc' = [c \in Conns |-> "done"]
      /\ UNCHANGED <<req, waiting, taken, token, reserved, mail, expired>>
      /\ \A c \in Conns : /\ answer[c].kind # "none" => answer'[c] = answer[c]
                          /\ answer'[c].kind = "expired" => answer[c].kind = "expired"
  BY DEF AcceptFails, Plain
<1>2. ASSUME NEW c \in Conns, HasReason(c) PROVE HasReason(c)'
  BY <1>1, <1>2 DEF HasReason, Reason
<1> QED
  BY <1>1, <1>2 DEF ExcuseInv, Excused

(* handle_connection: a client whose time is not over is told Expired only if   *)
(* the peer that took its waiter was refused or failed, or if its own device    *)
(* has registered the code twice; for any number of clients and codes.          *)
THEOREM ExpiredAlwaysHasReason == Spec => []ExpiredHasReason
<1>1. Init => ExcuseInv
  BY DEF Init, ExcuseInv, Excused, Plain
<1>2. IInv /\ ExcuseInv /\ [Next]_vars => ExcuseInv'
  <2> SUFFICES ASSUME IInv, ExcuseInv, [Next]_vars PROVE ExcuseInv'
    OBVIOUS
  <2>1. CASE UNCHANGED vars
    BY <2>1 DEF vars, ExcuseInv, Excused, HasReason, Reason
  <2> QED
    BY <2>1, ExcuseStep, ExcusesOutliveTheServer DEF Next
<1>3. ExcuseInv => ExpiredHasReason
  BY DEF ExcuseInv, Excused, ExpiredHasReason, HasReason, Reason
<1> QED
  BY AlwaysIInv, <1>1, <1>2, <1>3, PTL DEF Spec
===============================================================================
