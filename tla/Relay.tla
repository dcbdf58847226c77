--------------------------------- MODULE Relay ---------------------------------
(***************************************************************************)
(* The UDP relay of hyx-rendezvous: sessions reserved by the pairing       *)
(* server, joined by hello datagrams, forwarded between their two slots    *)
(* and swept when idle.                                                    *)
(*                                                                         *)
(* forward_loop handles one datagram at a time, but gives up the lock      *)
(* before the send_to: `sending` is the datagram it holds in between, while *)
(* reserve_session and the sweep may run.  A datagram the rate cap drops   *)
(* leaves no trace but the loss, and a datagram may always be lost.        *)
(***************************************************************************)
EXTENDS Integers, FiniteSets

CONSTANTS
  Tokens, Addrs, Fps,   (* session tokens, UDP source addresses, fingerprints *)
  NoToken, NoAddr, NoSession, NoDatagram,
  IdleTimeout,          (* SESSION_IDLE_TIMEOUT                             *)
  SweepInterval,        (* IDLE_SWEEP_INTERVAL                              *)
  MaxTime, MaxHellos    (* bounds only                                      *)

ASSUME ConstantsAssumption ==
  /\ NoToken \notin Tokens
  /\ NoAddr \notin Addrs
  /\ IdleTimeout \in Nat
  /\ SweepInterval \in Nat \ {0}
  /\ MaxTime \in Nat /\ MaxHellos \in Nat

VARIABLES
  sessions,     (* token -> the session that holds it                       *)
  addrToToken,  (* source address -> token                                  *)
  sending,      (* what forward_loop is about to send                       *)
  hellos,       (* the network: every hello ever sent, deliverable for ever *)
  now,          (* Instant::now()                                           *)
  nextSweep     (* when idle_sweep_loop wakes up                            *)

vars == <<sessions, addrToToken, sending, hellos, now, nextSweep>>

Slots == {"A", "B"}
Other(slot) == IF slot = "A" THEN "B" ELSE "A"

Session == [peer : [Slots -> Addrs \cup {NoAddr}], fp : [Slots -> Fps],
            created : Nat, active : Nat]

Hello == [addr : Addrs, token : Tokens, fp : Fps]

Datagram == [from : Addrs, to : Addrs, token : Tokens]

ASSUME NoSessionAssumption  == NoSession \notin Session
ASSUME NoDatagramAssumption == NoDatagram \notin Datagram

Live == {t \in Tokens : sessions[t] # NoSession}
HalfOpen(s) == \E slot \in Slots : s.peer[slot] = NoAddr

(* What the idle timeout of a session is counted from.                      *)
LastSign(s) == IF HalfOpen(s) THEN s.created ELSE s.active

-----------------------------------------------------------------------------
(* The pairing server reserves a session.  The two refusals, equal          *)
(* fingerprints and a token in use, change nothing.                         *)
Reserve(t, fpA, fpB) ==
  /\ fpA # fpB
  /\ t \notin Live
  /\ sessions' = [sessions EXCEPT ![t] =
       [peer |-> [slot \in Slots |-> NoAddr],
        fp |-> [slot \in Slots |-> IF slot = "A" THEN fpA ELSE fpB],
        created |-> now, active |-> now]]
  /\ UNCHANGED <<addrToToken, sending, hellos, now, nextSweep>>

(* A peer sends its hello, once or often; the network may delay it, repeat  *)
(* it or lose it.                                                           *)
SendHello(h) ==
  /\ h \in hellos \/ Cardinality(hellos) < MaxHellos
  /\ hellos' = hellos \cup {h}
  /\ UNCHANGED <<sessions, addrToToken, sending, now, nextSweep>>

(* Mutant: nobody checks that the partner has joined.                       *)
ForwardUnpaired(src) ==
  /\ sending = NoDatagram /\ addrToToken[src] # NoToken
  /\ LET t == addrToToken[src] IN
       /\ sessions' = [sessions EXCEPT ![t].active = now]
       /\ \E slot \in Slots : sessions[t].peer[slot] = src
            /\ sending' = [from |-> src, to |-> sessions[t].peer[Other(slot)], token |-> t]
  /\ UNCHANGED <<addrToToken, hellos, now, nextSweep>>

(* Mutant: the partner is looked up in the wrong direction.                 *)
ForwardBack(src) ==
  /\ sending = NoDatagram /\ addrToToken[src] # NoToken
  /\ LET t == addrToToken[src] IN
       /\ sessions' = [sessions EXCEPT ![t].active = now]
       /\ \E slot \in Slots : ~HalfOpen(sessions[t]) /\ sessions[t].peer[slot] = src
            /\ sending' = [from |-> src, to |-> src, token |-> t]
  /\ UNCHANGED <<addrToToken, hellos, now, nextSweep>>

(* A datagram from an address that has joined, whatever it holds, a second  *)
(* hello included: refresh the session and pass it to the other slot.       *)
Forward(src) ==
  /\ sending = NoDatagram
  /\ addrToToken[src] # NoToken
  /\ LET t == addrToToken[src] IN
       /\ t \in Live
       /\ sessions' = [sessions EXCEPT ![t].active = now]
       /\ \/ HalfOpen(sessions[t]) /\ UNCHANGED sending
          \/ /\ ~HalfOpen(sessions[t])
             /\ \E slot \in Slots :
                  /\ sessions[t].peer[slot] = src
                  /\ sending' = [from |-> src, to |-> sessions[t].peer[Other(slot)], token |-> t]
  /\ UNCHANGED <<addrToToken, hellos, now, nextSweep>>

(* send_to, which may fail: nobody is told.                                 *)
SendTo ==
  /\ sending # NoDatagram
  /\ sending' = NoDatagram
  /\ UNCHANGED <<sessions, addrToToken, hellos, now, nextSweep>>

(* A hello from an address that has not joined: the fingerprint names the   *)
(* slot, which must be empty.  A hello for an unknown token, with an        *)
(* unknown fingerprint or for a slot that is taken changes nothing.         *)
Join(h) ==
  /\ sending = NoDatagram
  /\ h \in hellos
  /\ addrToToken[h.addr] = NoToken
  /\ h.token \in Live
  /\ \E slot \in Slots :
       /\ h.fp = sessions[h.token].fp[slot]
       /\ sessions[h.token].peer[slot] = NoAddr
       /\ sessions' = [sessions EXCEPT ![h.token].peer[slot] = h.addr, ![h.token].active = now]
  /\ addrToToken' = [addrToToken EXCEPT ![h.addr] = h.token]
  /\ UNCHANGED <<sending, hellos, now, nextSweep>>

(* Mutant: only the address in slot A leaves the index.                     *)
ForgetSlotAOnly(S) ==
  /\ sessions' = [t \in Tokens |-> IF t \in S THEN NoSession ELSE sessions[t]]
  /\ addrToToken' = [x \in Addrs |->
       IF \E t \in S : sessions[t].peer["A"] = x THEN NoToken ELSE addrToToken[x]]

(* Drop sessions, and their peers from the index.                           *)
Forget(S) ==
  /\ sessions' = [t \in Tokens |-> IF t \in S THEN NoSession ELSE sessions[t]]
  /\ addrToToken' = [x \in Addrs |->
       IF \E t \in S, slot \in Slots : sessions[t].peer[slot] = x THEN NoToken ELSE addrToToken[x]]

(* Mutant: a half-open session, too, counts from its last datagram.         *)
StaleByActive == {t \in Live : now - sessions[t].active > IdleTimeout}

Stale == {t \in Live : now - LastSign(sessions[t]) > IdleTimeout}

Sweep ==
  /\ now = nextSweep
  /\ nextSweep' = now + SweepInterval
  /\ Forget(Stale)
  /\ UNCHANGED <<sending, hellos, now>>

(* Time passes.  The sweep is assumed to run on time.                       *)
Tick ==
  /\ now < MaxTime
  /\ now < nextSweep
  /\ now' = now + 1
  /\ UNCHANGED <<sessions, addrToToken, sending, hellos, nextSweep>>

-----------------------------------------------------------------------------
Init ==
  /\ sessions = [t \in Tokens |-> NoSession]
  /\ addrToToken = [x \in Addrs |-> NoToken]
  /\ sending = NoDatagram
  /\ hellos = {}
  /\ now = 0
  /\ nextSweep = SweepInterval

Next ==
  \/ \E t \in Tokens, fpA \in Fps, fpB \in Fps : Reserve(t, fpA, fpB)
  \/ \E h \in Hello : SendHello(h) \/ Join(h)
  \/ \E src \in Addrs : Forward(src)
  \/ SendTo
  \/ Sweep
  \/ Tick

Spec == Init /\ [][Next]_vars

-----------------------------------------------------------------------------
(* Properties.                                                              *)

TypeOK ==
  /\ sessions \in [Tokens -> Session \cup {NoSession}]
  /\ addrToToken \in [Addrs -> Tokens \cup {NoToken}]
  /\ sending \in Datagram \cup {NoDatagram}
  /\ hellos \in SUBSET Hello
  /\ now \in Nat
  /\ nextSweep \in Nat

(* addr_to_token is the inverse of the slots: a slot's address leads back   *)
(* to its session, an indexed address sits in a slot of the session it      *)
(* leads to, and in one slot only.  reserve, join and the sweep each touch  *)
(* only one side or both; a stale entry would send one pair's datagrams     *)
(* into another pair's session.                                             *)
SlotsAreIndexed ==
  \A t \in Live, slot \in Slots :
    sessions[t].peer[slot] # NoAddr => addrToToken[sessions[t].peer[slot]] = t

IndexIsLive ==
  \A x \in Addrs : addrToToken[x] # NoToken =>
    /\ addrToToken[x] \in Live
    /\ \E slot \in Slots : sessions[addrToToken[x]].peer[slot] = x

OneSlotEach ==
  \A t \in Live : sessions[t].peer["A"] = sessions[t].peer["B"] => sessions[t].peer["A"] = NoAddr

IndexIsInverse == SlotsAreIndexed /\ IndexIsLive /\ OneSlotEach

(* A datagram only ever goes from one peer to another that has shown the    *)
(* same token with another fingerprint, even if the session was swept, and  *)
(* the token reserved again, after the lock was given up.                   *)
OnlyPartnersHear ==
  sending # NoDatagram =>
    \E h, g \in hellos :
      /\ h.addr = sending.from /\ g.addr = sending.to
      /\ h.token = sending.token /\ g.token = sending.token
      /\ h.fp # g.fp

(* No session outlives its last sign of life by more than the timeout and   *)
(* one sweep: the relay does not fill up with sessions nobody joined.       *)
IdleSessionsGo ==
  \A t \in Live : now - LastSign(sessions[t]) <= IdleTimeout + SweepInterval
=============================================================================
