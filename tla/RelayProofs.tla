------------------------------ MODULE RelayProofs ------------------------------
(***************************************************************************)
(* Proofs about the relay, for any tokens, addresses, fingerprints,        *)
(* timeouts and bounds.                                                    *)
(***************************************************************************)
EXTENDS Relay, TLAPS

USE ConstantsAssumption, NoSessionAssumption, NoDatagramAssumption

(* The handlers keep sessions, index and datagram well formed: the relay    *)
(* never forwards to an empty slot.                                         *)
THEOREM TypeCorrect == Spec => []TypeOK
<1>1. Init => TypeOK
  BY DEF Init, TypeOK
<1>2. TypeOK /\ [Next]_vars => TypeOK'
  <2> SUFFICES ASSUME TypeOK, [Next]_vars PROVE TypeOK'
    OBVIOUS
  <2> USE DEF TypeOK
  <2>1. ASSUME NEW t \in Tokens, NEW fpA \in Fps, NEW fpB \in Fps, Reserve(t, fpA, fpB)
        PROVE  TypeOK'
    BY <2>1 DEF Reserve, Session, Slots
  <2>2. ASSUME NEW h \in Hello, SendHello(h) PROVE TypeOK'
    BY <2>2 DEF SendHello
  <2>3. ASSUME NEW h \in Hello, Join(h) PROVE TypeOK'
    <3>1. PICK slot \in Slots :
            sessions' = [sessions EXCEPT ![h.token].peer[slot] = h.addr, ![h.token].active = now]
      BY <2>3 DEF Join
    <3>2. h.token \in Live /\ h.token \in Tokens /\ h.addr \in Addrs
      BY <2>3 DEF Join, Hello, Live
    <3>3. sessions[h.token] \in Session
      BY <3>2 DEF Live
    <3>4. sessions' \in [Tokens -> Session \cup {NoSession}]
      BY <3>1, <3>2, <3>3 DEF Session, Slots
    <3> QED
      BY <2>3, <3>2, <3>4 DEF Join
  <2>4. ASSUME NEW src \in Addrs, Forward(src) PROVE TypeOK'
    <3> DEFINE t == addrToToken[src]
    <3>1. t \in Live /\ t \in Tokens
      BY <2>4 DEF Forward, Live
    <3>2. sessions[t] \in Session
      BY <3>1 DEF Live
    <3>3. sessions' \in [Tokens -> Session \cup {NoSession}]
      BY <2>4, <3>1, <3>2 DEF Forward, Session
    <3>4. sending' \in Datagram \cup {NoDatagram}
      <4>1. CASE HalfOpen(sessions[t])
        BY <2>4, <4>1 DEF Forward
      <4>2. CASE ~HalfOpen(sessions[t])
        <5>1. PICK slot \in Slots :
                sending' = [from |-> src, to |-> sessions[t].peer[Other(slot)], token |-> t]
          BY <2>4, <4>2 DEF Forward
        <5>2. sessions[t].peer[Other(slot)] \in Addrs
          BY <3>2, <4>2 DEF HalfOpen, Session, Other, Slots
        <5> QED
          BY <3>1, <5>1, <5>2 DEF Datagram
      <4> QED
        BY <4>1, <4>2
    <3> QED
      BY <2>4, <3>3, <3>4 DEF Forward
  <2>5. CASE SendTo
    BY <2>5 DEF SendTo
  <2>6. CASE Sweep
    BY <2>6 DEF Sweep, Forget
  <2>7. CASE Tick
    BY <2>7 DEF Tick
  <2>8. CASE UNCHANGED vars
    BY <2>8 DEF vars
  <2> QED
    BY <2>1, <2>2, <2>3, <2>4, <2>5, <2>6, <2>7, <2>8 DEF Next
<1> QED
  BY <1>1, <1>2, PTL DEF Spec

-----------------------------------------------------------------------------
(* What a session becomes in a step: the leaf facts the invariants share.   *)

(* A hello that joins fills one empty slot and leaves the rest alone.       *)
LEMMA JoinFillsOneSlot ==
  ASSUME TypeOK, NEW h \in Hello, Join(h)
  PROVE  /\ h.token \in Live /\ h.token \in Tokens /\ h.addr \in Addrs
         /\ addrToToken[h.addr] = NoToken
         /\ Live' = Live
         /\ \A t \in Live \ {h.token} : sessions'[t] = sessions[t]
         /\ sessions'[h.token] \in Session
         /\ sessions'[h.token].fp = sessions[h.token].fp
         /\ sessions'[h.token].created = sessions[h.token].created
         /\ sessions'[h.token].active = now
         /\ \E slot \in Slots :
              /\ sessions[h.token].fp[slot] = h.fp
              /\ sessions[h.token].peer[slot] = NoAddr
              /\ sessions'[h.token].peer[slot] = h.addr
              /\ \A other \in Slots \ {slot} :
                   sessions'[h.token].peer[other] = sessions[h.token].peer[other]
<1>1. h.token \in Live /\ h.token \in Tokens /\ h.addr \in Addrs /\ addrToToken[h.addr] = NoToken
  BY DEF Join, Hello, Live
<1>2. PICK slot \in Slots :
        /\ h.fp = sessions[h.token].fp[slot]
        /\ sessions[h.token].peer[slot] = NoAddr
        /\ sessions' = [sessions EXCEPT ![h.token].peer[slot] = h.addr, ![h.token].active = now]
  BY DEF Join
<1>3. sessions[h.token] \in Session /\ now \in Nat
  BY <1>1 DEF TypeOK, Live
<1>4. /\ sessions'[h.token].peer = [sessions[h.token].peer EXCEPT ![slot] = h.addr]
      /\ sessions'[h.token].fp = sessions[h.token].fp
      /\ sessions'[h.token].created = sessions[h.token].created
      /\ sessions'[h.token].active = now
  BY <1>1, <1>2, <1>3 DEF TypeOK, Session
<1>5. sessions'[h.token] \in Session
  BY <1>1, <1>2, <1>3 DEF TypeOK, Session, Slots
<1>6. \A t \in Tokens \ {h.token} : sessions'[t] = sessions[t]
  BY <1>1, <1>2 DEF TypeOK
<1>7. Live' = Live
  BY <1>1, <1>5, <1>6 DEF Live
<1>8. \A other \in Slots : sessions'[h.token].peer[other] =
        IF other = slot THEN h.addr ELSE sessions[h.token].peer[other]
  BY <1>3, <1>4 DEF Session
<1>9. /\ sessions[h.token].fp[slot] = h.fp
      /\ sessions'[h.token].peer[slot] = h.addr
      /\ \A other \in Slots \ {slot} :
           sessions'[h.token].peer[other] = sessions[h.token].peer[other]
  BY <1>2, <1>8
<1>10. \A t \in Live \ {h.token} : sessions'[t] = sessions[t]
  BY <1>6 DEF Live
<1> HIDE DEF Session
<1> QED
  BY <1>1, <1>2, <1>4, <1>5, <1>7, <1>9, <1>10, Zenon

(* A datagram that is forwarded changes nothing but the time of activity.   *)
LEMMA ForwardOnlyRefreshes ==
  ASSUME TypeOK, NEW src \in Addrs, Forward(src)
  PROVE  /\ Live' = Live
         /\ \A t \in Live : /\ sessions'[t].peer = sessions[t].peer
                            /\ sessions'[t].fp = sessions[t].fp
                            /\ sessions'[t].created = sessions[t].created
                            /\ sessions'[t].active \in {sessions[t].active, now}
         /\ addrToToken' = addrToToken
<1> DEFINE u == addrToToken[src]
<1>1. u \in Live /\ u \in Tokens /\ sessions[u] \in Session /\ now \in Nat
  BY DEF Forward, TypeOK, Live
<1>2. sessions' = [sessions EXCEPT ![u] = [@ EXCEPT !.active = now]] /\ addrToToken' = addrToToken
  BY DEF Forward
<1>3. sessions'[u] = [sessions[u] EXCEPT !.active = now] /\ sessions'[u] \in Session
  BY <1>1, <1>2 DEF TypeOK, Session
<1>4. \A t \in Tokens \ {u} : sessions'[t] = sessions[t]
  BY <1>1, <1>2 DEF TypeOK
<1>5. Live' = Live
  BY <1>1, <1>3, <1>4 DEF Live
<1>6. /\ sessions'[u].peer = sessions[u].peer
      /\ sessions'[u].fp = sessions[u].fp
      /\ sessions'[u].created = sessions[u].created
      /\ sessions'[u].active = now
  BY <1>1, <1>3 DEF Session
<1> QED
  BY <1>2, <1>4, <1>5, <1>6 DEF Live

(* A new session is empty, and was not live before.                         *)
LEMMA ReserveIsFresh ==
  ASSUME TypeOK, NEW t \in Tokens, NEW fpA \in Fps, NEW fpB \in Fps, Reserve(t, fpA, fpB)
  PROVE  /\ t \notin Live
         /\ Live' = Live \cup {t}
         /\ \A u \in Live : sessions'[u] = sessions[u]
         /\ sessions'[t].created = now
         /\ \A slot \in Slots : sessions'[t].peer[slot] = NoAddr
         /\ sessions'[t].fp["A"] # sessions'[t].fp["B"]
         /\ addrToToken' = addrToToken
<1> DEFINE s == [peer |-> [slot \in Slots |-> NoAddr],
                 fp |-> [slot \in Slots |-> IF slot = "A" THEN fpA ELSE fpB],
                 created |-> now, active |-> now]
<1>1. t \notin Live /\ fpA # fpB /\ addrToToken' = addrToToken /\ sessions' = [sessions EXCEPT ![t] = s]
  BY DEF Reserve
<1>2. s \in Session
  BY DEF TypeOK, Session, Slots
<1>3. sessions'[t] = s /\ \A u \in Tokens \ {t} : sessions'[u] = sessions[u]
  BY <1>1 DEF TypeOK
<1>4. Live' = Live \cup {t}
  BY <1>2, <1>3 DEF Live
<1> QED
  BY <1>1, <1>3, <1>4 DEF Slots, Live

(* The sweep removes whole sessions and keeps the others as they are.       *)
LEMMA SweepRemoves ==
  ASSUME TypeOK, Sweep
  PROVE  /\ Live' = Live \ Stale
         /\ \A t \in Live' : sessions'[t] = sessions[t]
         /\ \A x \in Addrs : addrToToken'[x] =
              IF \E t \in Stale, slot \in Slots : sessions[t].peer[slot] = x
              THEN NoToken ELSE addrToToken[x]
BY DEF Sweep, Forget, Live, Stale, TypeOK

-----------------------------------------------------------------------------
(* The two directions of the index stay inverse: routing never mixes pairs. *)
THEOREM IndexCorrect == Spec => []IndexIsInverse
<1>1. Init => IndexIsInverse
  BY DEF Init, IndexIsInverse, SlotsAreIndexed, IndexIsLive, OneSlotEach, Live
<1>2. TypeOK /\ IndexIsInverse /\ [Next]_vars => IndexIsInverse'
  <2> SUFFICES ASSUME TypeOK, SlotsAreIndexed, IndexIsLive, OneSlotEach, [Next]_vars
               PROVE  SlotsAreIndexed' /\ IndexIsLive' /\ OneSlotEach'
    BY DEF IndexIsInverse
  <2>1. ASSUME NEW t \in Tokens, NEW fpA \in Fps, NEW fpB \in Fps, Reserve(t, fpA, fpB)
        PROVE  SlotsAreIndexed' /\ IndexIsLive' /\ OneSlotEach'
    BY <2>1, ReserveIsFresh DEF SlotsAreIndexed, IndexIsLive, OneSlotEach, Slots
  <2>2. ASSUME NEW h \in Hello, Join(h)
        PROVE  SlotsAreIndexed' /\ IndexIsLive' /\ OneSlotEach'
    <3>1. /\ h.token \in Live /\ h.token \in Tokens /\ h.addr \in Addrs
          /\ addrToToken[h.addr] = NoToken
          /\ Live' = Live
          /\ \A t \in Live \ {h.token} : sessions'[t] = sessions[t]
      BY <2>2, JoinFillsOneSlot
    <3>2. PICK slot \in Slots :
            /\ sessions[h.token].peer[slot] = NoAddr
            /\ sessions'[h.token].peer[slot] = h.addr
            /\ \A other \in Slots \ {slot} :
                 sessions'[h.token].peer[other] = sessions[h.token].peer[other]
      BY <2>2, JoinFillsOneSlot
    <3>3. addrToToken' = [addrToToken EXCEPT ![h.addr] = h.token]
      BY <2>2 DEF Join
    <3>4. \A t \in Live, s \in Slots : sessions[t].peer[s] # h.addr
      BY <3>1 DEF SlotsAreIndexed, Live
    <3>5. \A t \in Live, s \in Slots :
            sessions'[t].peer[s] = IF t = h.token /\ s = slot THEN h.addr ELSE sessions[t].peer[s]
      BY <3>1, <3>2
    <3>6. \A t \in Live, s \in Slots : sessions[t].peer[s] \in Addrs \cup {NoAddr}
      BY DEF TypeOK, Live, Session
    <3>7. \A x \in Addrs : addrToToken'[x] = IF x = h.addr THEN h.token ELSE addrToToken[x]
      BY <3>3 DEF TypeOK
    <3>8. SlotsAreIndexed'
      BY <3>1, <3>4, <3>5, <3>6, <3>7 DEF SlotsAreIndexed
    <3>9. IndexIsLive'
      BY <3>1, <3>2, <3>5, <3>7 DEF IndexIsLive
    <3>10. OneSlotEach'
      BY <3>1, <3>2, <3>4, <3>5 DEF OneSlotEach, Slots
    <3> QED
      BY <3>8, <3>9, <3>10
  <2>3. ASSUME NEW src \in Addrs, Forward(src)
        PROVE  SlotsAreIndexed' /\ IndexIsLive' /\ OneSlotEach'
    BY <2>3, ForwardOnlyRefreshes DEF SlotsAreIndexed, IndexIsLive, OneSlotEach
  <2>4. CASE Sweep
    <3>1. /\ Live' = Live \ Stale
          /\ \A t \in Live' : sessions'[t] = sessions[t]
          /\ \A x \in Addrs : addrToToken'[x] =
               IF \E t \in Stale, slot \in Slots : sessions[t].peer[slot] = x
               THEN NoToken ELSE addrToToken[x]
      BY <2>4, SweepRemoves
    <3>2. \A t \in Live, s \in Slots : sessions[t].peer[s] \in Addrs \cup {NoAddr}
      BY DEF TypeOK, Live, Session
    <3>3. Stale \subseteq Live /\ Live \subseteq Tokens
      BY DEF Stale, Live
    <3>4. SlotsAreIndexed'
      <4> SUFFICES ASSUME NEW t \in Live', NEW s \in Slots, sessions'[t].peer[s] # NoAddr
                   PROVE  addrToToken'[sessions'[t].peer[s]] = t
        BY DEF SlotsAreIndexed
      <4>1. t \in Live /\ t \notin Stale /\ sessions'[t].peer[s] = sessions[t].peer[s]
        BY <3>1
      <4>2. sessions[t].peer[s] \in Addrs /\ addrToToken[sessions[t].peer[s]] = t
        BY <3>2, <4>1 DEF SlotsAreIndexed
      <4>3. ~ \E u \in Stale, r \in Slots : sessions[u].peer[r] = sessions[t].peer[s]
        BY <3>3, <4>1, <4>2 DEF SlotsAreIndexed
      <4> QED
        BY <3>1, <4>1, <4>2, <4>3
    <3>5. IndexIsLive'
      <4> SUFFICES ASSUME NEW x \in Addrs, addrToToken'[x] # NoToken
                   PROVE  /\ addrToToken'[x] \in Live'
                          /\ \E slot \in Slots : sessions'[addrToToken'[x]].peer[slot] = x
        BY DEF IndexIsLive
      <4>1. /\ addrToToken'[x] = addrToToken[x]
            /\ ~ \E t \in Stale, slot \in Slots : sessions[t].peer[slot] = x
        BY <3>1
      <4>2. addrToToken[x] \in Live /\ \E slot \in Slots : sessions[addrToToken[x]].peer[slot] = x
        BY <4>1 DEF IndexIsLive
      <4>3. addrToToken[x] \in Live'
        BY <3>1, <4>1, <4>2
      <4> QED
        BY <3>1, <4>1, <4>2, <4>3
    <3>6. OneSlotEach'
      BY <3>1, <3>3 DEF OneSlotEach
    <3> QED
      BY <3>4, <3>5, <3>6
  <2>5. ASSUME UNCHANGED <<sessions, addrToToken>>
        PROVE  SlotsAreIndexed' /\ IndexIsLive' /\ OneSlotEach'
    BY <2>5 DEF SlotsAreIndexed, IndexIsLive, OneSlotEach, Live
  <2> QED
    BY <2>1, <2>2, <2>3, <2>4, <2>5 DEF Next, SendHello, SendTo, Tick, vars
<1> QED
  BY <1>1, <1>2, TypeCorrect, PTL DEF Spec

-----------------------------------------------------------------------------
(* Whoever sits in a slot has shown the token with that slot's fingerprint, *)
(* and the two fingerprints differ.                                         *)
SlotsAreEarned ==
  \A t \in Live :
    /\ sessions[t].fp["A"] # sessions[t].fp["B"]
    /\ \A slot \in Slots : sessions[t].peer[slot] # NoAddr =>
         \E h \in hellos : /\ h.addr = sessions[t].peer[slot]
                          /\ h.token = t
                          /\ h.fp = sessions[t].fp[slot]

(* No datagram goes to anyone but a peer that has shown the same token with *)
(* the other fingerprint.  What is about to be sent may outlive its         *)
(* session, so the invariant looks at the hellos, which only grow, and not  *)
(* at the session.                                                          *)
THEOREM ForwardingCorrect == Spec => []OnlyPartnersHear
<1>1. Init => SlotsAreEarned /\ OnlyPartnersHear
  BY DEF Init, SlotsAreEarned, OnlyPartnersHear, Live
<1>2. TypeOK /\ SlotsAreEarned /\ OnlyPartnersHear /\ [Next]_vars
        => SlotsAreEarned' /\ OnlyPartnersHear'
  <2> SUFFICES ASSUME TypeOK, SlotsAreEarned, OnlyPartnersHear, [Next]_vars
               PROVE  SlotsAreEarned' /\ OnlyPartnersHear'
    OBVIOUS
  <2>1. ASSUME NEW t \in Tokens, NEW fpA \in Fps, NEW fpB \in Fps, Reserve(t, fpA, fpB)
        PROVE  SlotsAreEarned' /\ OnlyPartnersHear'
    <3>1. hellos' = hellos /\ sending' = sending
      BY <2>1 DEF Reserve
    <3>2. SlotsAreEarned'
      BY <2>1, <3>1, ReserveIsFresh DEF SlotsAreEarned
    <3> QED
      BY <3>1, <3>2 DEF OnlyPartnersHear
  <2>2. ASSUME NEW h \in Hello, SendHello(h)
        PROVE  SlotsAreEarned' /\ OnlyPartnersHear'
    <3>1. hellos \subseteq hellos' /\ sessions' = sessions /\ sending' = sending
      BY <2>2 DEF SendHello
    <3>2. SlotsAreEarned'
      BY <3>1 DEF SlotsAreEarned, Live
    <3>3. OnlyPartnersHear'
      BY <3>1 DEF OnlyPartnersHear
    <3> QED
      BY <3>2, <3>3
  <2>3. ASSUME NEW h \in Hello, Join(h)
        PROVE  SlotsAreEarned' /\ OnlyPartnersHear'
    <3>1. h \in hellos /\ hellos' = hellos /\ sending' = sending
      BY <2>3 DEF Join
    <3>2. /\ h.token \in Live
          /\ Live' = Live
          /\ \A t \in Live \ {h.token} : sessions'[t] = sessions[t]
          /\ sessions'[h.token].fp = sessions[h.token].fp
      BY <2>3, JoinFillsOneSlot
    <3>3. PICK slot \in Slots :
            /\ sessions[h.token].fp[slot] = h.fp
            /\ sessions'[h.token].peer[slot] = h.addr
            /\ \A other \in Slots \ {slot} :
                 sessions'[h.token].peer[other] = sessions[h.token].peer[other]
      BY <2>3, JoinFillsOneSlot
    <3>4. SlotsAreEarned'
      <4> SUFFICES ASSUME NEW t \in Live
                   PROVE  /\ sessions'[t].fp["A"] # sessions'[t].fp["B"]
                          /\ \A s \in Slots : sessions'[t].peer[s] # NoAddr =>
                               \E g \in hellos : /\ g.addr = sessions'[t].peer[s]
                                                /\ g.token = t
                                                /\ g.fp = sessions'[t].fp[s]
        BY <3>1, <3>2 DEF SlotsAreEarned
      <4>1. CASE t # h.token
        BY <3>2, <4>1 DEF SlotsAreEarned
      <4>2. CASE t = h.token
        BY <3>1, <3>2, <3>3, <4>2 DEF SlotsAreEarned
      <4> QED
        BY <4>1, <4>2
    <3> QED
      BY <3>1, <3>4 DEF OnlyPartnersHear
  <2>4. ASSUME NEW src \in Addrs, Forward(src)
        PROVE  SlotsAreEarned' /\ OnlyPartnersHear'
    <3> DEFINE t == addrToToken[src]
    <3>1. t \in Live /\ hellos' = hellos
      BY <2>4 DEF Forward
    <3>2. SlotsAreEarned'
      BY <2>4, <3>1, ForwardOnlyRefreshes DEF SlotsAreEarned
    <3>3. CASE HalfOpen(sessions[t])
      BY <2>4, <3>1, <3>2, <3>3 DEF Forward, OnlyPartnersHear
    <3>4. CASE ~HalfOpen(sessions[t])
      <4>1. PICK slot \in Slots :
              /\ sessions[t].peer[slot] = src
              /\ sending' = [from |-> src, to |-> sessions[t].peer[Other(slot)], token |-> t]
        BY <2>4, <3>4 DEF Forward
      <4>2. /\ Other(slot) \in Slots
            /\ sessions[t].fp[slot] # sessions[t].fp[Other(slot)]
        BY <3>1 DEF SlotsAreEarned, Other, Slots
      <4>3. PICK h \in hellos : h.addr = src /\ h.token = t /\ h.fp = sessions[t].fp[slot]
        BY <3>1, <3>4, <4>1 DEF SlotsAreEarned, HalfOpen
      <4>4. PICK g \in hellos : /\ g.addr = sessions[t].peer[Other(slot)]
                               /\ g.token = t
                               /\ g.fp = sessions[t].fp[Other(slot)]
        BY <3>1, <3>4, <4>2 DEF SlotsAreEarned, HalfOpen
      <4>5. h.fp # g.fp
        BY <4>2, <4>3, <4>4
      <4>6. /\ h.addr = sending'.from /\ g.addr = sending'.to
            /\ h.token = sending'.token /\ g.token = sending'.token
        BY <4>1, <4>3, <4>4
      <4>7. OnlyPartnersHear'
        BY <3>1, <4>5, <4>6 DEF OnlyPartnersHear
      <4> QED
        BY <3>2, <4>7
    <3> QED
      BY <3>3, <3>4
  <2>5. CASE SendTo
    BY <2>5 DEF SendTo, SlotsAreEarned, OnlyPartnersHear, Live
  <2>6. CASE Sweep
    <3>1. hellos' = hellos /\ sending' = sending
      BY <2>6 DEF Sweep
    <3>2. SlotsAreEarned'
      BY <2>6, <3>1, SweepRemoves DEF SlotsAreEarned
    <3> QED
      BY <3>1, <3>2 DEF OnlyPartnersHear
  <2>7. CASE UNCHANGED <<sessions, sending, hellos>>
    BY <2>7 DEF SlotsAreEarned, OnlyPartnersHear, Live
  <2> QED
    BY <2>1, <2>2, <2>3, <2>4, <2>5, <2>6, <2>7 DEF Next, Tick, vars
<1> QED
  BY <1>1, <1>2, TypeCorrect, PTL DEF Spec

-----------------------------------------------------------------------------
(* The last sweep, at nextSweep - SweepInterval, left nothing older than    *)
(* the timeout, and what has come since is younger.                         *)
SweptInTime ==
  /\ now <= nextSweep
  /\ nextSweep - SweepInterval <= now
  /\ \A t \in Live : nextSweep - SweepInterval - LastSign(sessions[t]) <= IdleTimeout

(* A step between sweeps only has to leave every session's last sign of     *)
(* life alone, or to set it to now.                                         *)
LEMMA YoungerStaySwept ==
  ASSUME TypeOK, SweptInTime, now' = now, nextSweep' = nextSweep,
         \A t \in Live' : \/ t \in Live /\ LastSign(sessions'[t]) = LastSign(sessions[t])
                          \/ LastSign(sessions'[t]) = now
  PROVE  SweptInTime'
<1>1. now \in Nat /\ nextSweep \in Nat /\ SweepInterval \in Nat /\ IdleTimeout \in Nat
  BY ConstantsAssumption DEF TypeOK
<1>2. ASSUME NEW t \in Live'
      PROVE  nextSweep - SweepInterval - LastSign(sessions'[t]) <= IdleTimeout
  <2>1. CASE t \in Live /\ LastSign(sessions'[t]) = LastSign(sessions[t])
    BY <2>1 DEF SweptInTime
  <2>2. CASE LastSign(sessions'[t]) = now
    BY <1>1, <2>2 DEF SweptInTime
  <2> QED
    BY <1>2, <2>1, <2>2
<1> QED
  BY <1>2 DEF SweptInTime, LastSign, HalfOpen

(* A session nobody uses is gone after the timeout and one sweep at most.   *)
THEOREM SweepCorrect == Spec => []IdleSessionsGo
<1>1. Init => SweptInTime
  BY ConstantsAssumption DEF Init, SweptInTime, Live
<1>2. TypeOK /\ SweptInTime /\ [Next]_vars => SweptInTime'
  <2> SUFFICES ASSUME TypeOK, SweptInTime, [Next]_vars
               PROVE  SweptInTime'
    OBVIOUS
  <2>0. /\ now \in Nat /\ nextSweep \in Nat /\ SweepInterval \in Nat /\ IdleTimeout \in Nat
        /\ \A t \in Live : sessions[t] \in Session
    BY ConstantsAssumption DEF TypeOK, Live
  <2>1. ASSUME NEW t \in Tokens, NEW fpA \in Fps, NEW fpB \in Fps, Reserve(t, fpA, fpB)
        PROVE  SweptInTime'
    <3>1. now' = now /\ nextSweep' = nextSweep
      BY <2>1 DEF Reserve
    <3>2. /\ Live' = Live \cup {t}
          /\ \A u \in Live : sessions'[u] = sessions[u]
          /\ LastSign(sessions'[t]) = now
      BY <2>1, ReserveIsFresh DEF LastSign, HalfOpen, Slots
    <3> QED
      BY <3>1, <3>2, YoungerStaySwept
  <2>2. ASSUME NEW h \in Hello, Join(h)
        PROVE  SweptInTime'
    <3>1. now' = now /\ nextSweep' = nextSweep
      BY <2>2 DEF Join
    <3>2. /\ Live' = Live
          /\ \A t \in Live \ {h.token} : sessions'[t] = sessions[t]
          /\ sessions'[h.token].created = sessions[h.token].created
          /\ sessions'[h.token].active = now
          /\ HalfOpen(sessions[h.token])
      BY <2>2, JoinFillsOneSlot DEF HalfOpen
    <3>3. \/ LastSign(sessions'[h.token]) = LastSign(sessions[h.token])
          \/ LastSign(sessions'[h.token]) = now
      BY <3>2 DEF LastSign
    <3> QED
      BY <3>1, <3>2, <3>3, YoungerStaySwept
  <2>3. ASSUME NEW src \in Addrs, Forward(src)
        PROVE  SweptInTime'
    <3>1. now' = now /\ nextSweep' = nextSweep
      BY <2>3 DEF Forward
    <3>2. /\ Live' = Live
          /\ \A t \in Live : \/ sessions'[t] = sessions[t]
                             \/ LastSign(sessions'[t]) \in {LastSign(sessions[t]), now}
      BY <2>3, ForwardOnlyRefreshes DEF LastSign, HalfOpen
    <3> QED
      BY <3>1, <3>2, YoungerStaySwept
  <2>4. CASE Sweep
    <3>1. now = nextSweep /\ now' = now /\ nextSweep' = now + SweepInterval
      BY <2>4 DEF Sweep
    <3>2. ASSUME NEW t \in Live'
          PROVE  now - LastSign(sessions'[t]) <= IdleTimeout
      <4>1. t \in Live \ Stale /\ sessions'[t] = sessions[t]
        BY <2>4, SweepRemoves
      <4>2. ~(now - LastSign(sessions[t]) > IdleTimeout)
        BY <4>1 DEF Stale
      <4>3. LastSign(sessions[t]) \in Nat
        BY <2>0, <4>1 DEF Session, LastSign
      <4> QED
        BY <2>0, <4>1, <4>2, <4>3
    <3> QED
      BY <2>0, <3>1, <3>2 DEF SweptInTime
  <2>5. CASE Tick
    BY <2>0, <2>5 DEF Tick, SweptInTime, Live
  <2>6. CASE UNCHANGED <<sessions, now, nextSweep>>
    BY <2>6 DEF SweptInTime, Live
  <2> QED
    BY <2>1, <2>2, <2>3, <2>4, <2>5, <2>6 DEF Next, SendHello, SendTo, vars
<1>3. TypeOK /\ SweptInTime => IdleSessionsGo
  <2> SUFFICES ASSUME TypeOK, SweptInTime, NEW t \in Live
               PROVE  now - LastSign(sessions[t]) <= IdleTimeout + SweepInterval
    BY DEF IdleSessionsGo
  <2>1. /\ now \in Nat /\ nextSweep \in Nat /\ SweepInterval \in Nat /\ IdleTimeout \in Nat
        /\ LastSign(sessions[t]) \in Nat
    BY ConstantsAssumption DEF TypeOK, Live, Session, LastSign
  <2> QED
    BY <2>1 DEF SweptInTime
<1> QED
  BY <1>1, <1>2, <1>3, TypeCorrect, PTL DEF Spec
=============================================================================
