---------------------------- MODULE DiscoveryProofs ----------------------------
(* Proofs about peer discovery, for any devices, addresses and managers and    *)
(* any durations, with any number of lost datagrams, moves and restarts.       *)
EXTENDS Discovery, TLAPS

USE TimesAreSane, PlacesAreSane

-------------------------------------------------------------------------------
(* The types. *)

LEMMA TimesAreNat ==
  /\ EchoThrottle \in Nat /\ StabilityWindow \in Nat /\ PeerTtl \in Nat /\ ProbeBackoff \in Nat
  /\ FastBcast \in Nat \ {0} /\ SlowBcast \in Nat \ {0} /\ SweepEvery \in Nat \ {0} /\ PollEvery \in Nat \ {0}
  /\ ProbeRounds \in Nat \ {0}
<1>1. /\ {EchoThrottle, StabilityWindow, PeerTtl, ProbeBackoff} \subseteq Nat
      /\ {FastBcast, SlowBcast, SweepEvery, PollEvery, ProbeRounds} \subseteq Nat \ {0}
  OBVIOUS
<1> QED
  BY <1>1

Fields == {"phase", "target", "round", "polls", "wait"}
Phases == {"none", "send", "poll", "delay", "found", "offline"}
Probing(m) == probe[m].phase \in {"send", "poll", "delay"}

PlaceTypes ==
  /\ up \subseteq Managers /\ MayBeAt(at)
TableTypes == table \in [Managers -> [Devices -> Entry \cup {NoEntry}]]
EchoTypes == echoed \in [Managers -> [Addrs -> 0..EchoThrottle]]
TimerTypes ==
  /\ active \in [Managers -> 0..StabilityWindow]
  /\ bcast \in [Managers -> Nat] /\ sweep \in [Managers -> 0..SweepEvery]
NetTypes == net \subseteq Beacon
ProbeTypes ==
  /\ DOMAIN probe = Managers
  /\ \A m \in Managers : /\ DOMAIN probe[m] = Fields /\ probe[m].phase \in Phases
                         /\ Probing(m) => m \in Prober \cap up /\ Target(m) \in Addrs
CoolTypes == cool \in [Addrs -> 0..ProbeBackoff]
HistoryTypes == tale \in [Managers -> Tale]

TypeInv ==
  PlaceTypes /\ TableTypes /\ EchoTypes /\ TimerTypes /\ NetTypes /\ ProbeTypes /\ CoolTypes /\ HistoryTypes

LEMMA PartsAreTypes == TypeInv => TypeOK
  BY DEF TypeInv, PlaceTypes, TableTypes, EchoTypes, TimerTypes, NetTypes, ProbeTypes, CoolTypes, HistoryTypes,
     Phases, TypeOK

(* Where a device is.                                                          *)
LEMMA HomesAreTyped ==
  ASSUME PlaceTypes
  PROVE  /\ \A m \in Managers : Host[m] \in Devices /\ Home(m) \subseteq Addrs /\ Home(m) # {}
         /\ \A d \in Devices : at[d] \subseteq Addrs
         /\ \A d, e \in Devices : d # e => at[d] \cap at[e] = {}
<1>1. at \in [Devices -> (SUBSET Addrs) \ {{}}] /\ \A d, e \in Devices : d # e => at[d] \cap at[e] = {}
  BY DEF PlaceTypes, MayBeAt
<1>2. \A d \in Devices : at[d] \in (SUBSET Addrs) \ {{}}
  BY <1>1
<1>3. ASSUME NEW m \in Managers
      PROVE  Host[m] \in Devices /\ Home(m) \subseteq Addrs /\ Home(m) # {}
  <2>1. Host[m] \in Devices
    BY <1>3
  <2>2. at[Host[m]] \in (SUBSET Addrs) \ {{}}
    BY <2>1, <1>2
  <2> QED
    BY <2>1, <2>2 DEF Home
<1>4. \A d \in Devices : at[d] \subseteq Addrs
  BY <1>2
<1> QED
  BY <1>1, <1>3, <1>4

LEMMA UnicastIsBeacon ==
  ASSUME PlaceTypes, NEW m \in Managers, NEW a \in Managers \cup Addrs, NEW srcs \in SUBSET Home(m)
  PROVE  Unicast(m, a, srcs) \subseteq Beacon
  BY HomesAreTyped DEF Unicast, Beacon

LEMMA UnsettledTales ==
  ASSUME HistoryTypes, NEW ps
  PROVE  /\ Unsettled(ps) \in [Managers -> Tale]
         /\ \A p \in Managers : /\ Unsettled(ps)[p].clean <=> (tale[p].clean /\ p \notin ps)
                                /\ Unsettled(ps)[p].quiet = tale[p].quiet
                                /\ Unsettled(ps)[p].other = tale[p].other
                                /\ Unsettled(ps)[p].unasked = tale[p].unasked
                                /\ Unsettled(ps)[p].unheard = tale[p].unheard
<1>1. ASSUME NEW p \in Managers
      PROVE  LET t == [tale[p] EXCEPT !.clean = @ /\ p \notin ps] IN
               /\ t \in Tale /\ (t.clean <=> (tale[p].clean /\ p \notin ps)) /\ t.quiet = tale[p].quiet
               /\ t.other = tale[p].other /\ t.unasked = tale[p].unasked /\ t.unheard = tale[p].unheard
  BY DEF HistoryTypes, Tale
<1> QED
  BY <1>1 DEF Unsettled

LEMMA TypesInitially == Init => TypeInv
<1> SUFFICES ASSUME Init PROVE TypeInv
  OBVIOUS
<1>1. PlaceTypes /\ TableTypes /\ NetTypes /\ CoolTypes /\ HistoryTypes
  BY TimesAreNat DEF Init, PlaceTypes, TableTypes, NetTypes, CoolTypes, HistoryTypes, Tale, NoTale
<1>2. EchoTypes /\ TimerTypes
  BY TimesAreNat DEF Init, EchoTypes, TimerTypes
<1>3. ProbeTypes
  BY DEF Init, ProbeTypes, NoProbe, Fields, Phases, Probing
<1> QED
  BY <1>1, <1>2, <1>3 DEF TypeInv

(* A manager begins and ends with nothing heard. *)
LEMMA OpenedTypes ==
  ASSUME TypeInv, NEW m \in Managers, Opened(m)
  PROVE  TableTypes' /\ EchoTypes' /\ TimerTypes' /\ up' \subseteq Managers
  BY TimesAreNat DEF Opened, TypeInv, PlaceTypes, TableTypes, EchoTypes, TimerTypes

LEMMA ClosedTypes ==
  ASSUME TypeInv, NEW m \in Managers, Closed(m)
  PROVE  /\ TableTypes' /\ EchoTypes' /\ TimerTypes' /\ NetTypes' /\ up' \subseteq Managers
         /\ HistoryTypes'
  BY TimesAreNat, UnsettledTales DEF Closed, HistoryTypes, TypeInv, PlaceTypes, TableTypes, EchoTypes, TimerTypes, NetTypes

LEMMA StartTypes ==
  ASSUME TypeInv, NEW m \in Managers, Start(m)
  PROVE  TypeInv'
<1>1. TableTypes' /\ EchoTypes' /\ TimerTypes' /\ up' \subseteq Managers /\ up \subseteq up'
  BY OpenedTypes DEF Start, Opened
<1>2. UNCHANGED <<at, net, probe, cool>> /\ HistoryTypes'
  BY UnsettledTales DEF Start, HistoryTypes, TypeInv
<1> QED
  BY <1>1, <1>2 DEF TypeInv, PlaceTypes, NetTypes, ProbeTypes, Probing, Target, CoolTypes

LEMMA StopTypes ==
  ASSUME TypeInv, NEW m \in Managers, Stop(m)
  PROVE  TypeInv'
<1>1. /\ TableTypes' /\ EchoTypes' /\ TimerTypes' /\ NetTypes' /\ up' \subseteq Managers
      /\ HistoryTypes'
  BY ClosedTypes DEF Stop
<1>2. UNCHANGED <<at, probe, cool>> /\ up' = up \ {m} /\ m \notin Prober
  BY DEF Stop, Closed
<1>3. ProbeTypes'
  BY <1>2 DEF TypeInv, ProbeTypes, Probing, Target
<1> QED
  BY <1>1, <1>2, <1>3 DEF TypeInv, PlaceTypes, CoolTypes

LEMMA HeardIsEntry ==
  ASSUME TypeInv, NEW m \in Managers, NEW g \in Beacon
  PROVE  /\ Heard(m, g) \in Entry /\ Heard(m, g).age = 0
         /\ Heard(m, g).addr = IF table[m][g.dev] # NoEntry THEN table[m][g.dev].addr ELSE g.src
<1>1. g.dev \in Devices /\ g.src \in Addrs /\ 0 \in 0..PeerTtl
  BY TimesAreNat DEF Beacon
<1>2. table[m][g.dev] \in Entry \cup {NoEntry}
  BY <1>1 DEF TypeInv, TableTypes
<1> QED
  BY <1>1, <1>2 DEF Heard, Entry

LEMMA ReceiveTypes ==
  ASSUME TypeInv, NEW m \in Managers, NEW g \in net, Receive(m, g)
  PROVE  TypeInv'
<1>1. g \in Beacon /\ g.dev \in Devices /\ g.src \in Addrs
  BY DEF TypeInv, NetTypes, Beacon
<1>2. PICK srcs \in Sources(m) : net' = (net \ {g}) \cup Echo(m, g.src, srcs)
  BY DEF Receive
<1>3. NetTypes'
  <2>1. Echo(m, g.src, srcs) \subseteq Beacon
    BY <1>1, UnicastIsBeacon DEF Echo, Sources, TypeInv
  <2> QED
    BY <1>2, <2>1 DEF TypeInv, NetTypes
<1>4. TableTypes'
  <2>1. table' = [table EXCEPT ![m][g.dev] = Heard(m, g)] /\ Heard(m, g) \in Entry
    BY <1>1, HeardIsEntry DEF Receive
  <2> QED
    BY <1>1, <2>1 DEF TypeInv, TableTypes
<1>5. EchoTypes'
  BY <1>1, TimesAreNat DEF Receive, TypeInv, EchoTypes
<1>6. TimerTypes'
  BY TimesAreNat DEF Receive, TypeInv, TimerTypes
<1>7. UNCHANGED <<up, at, probe, cool>>
  BY DEF Receive
<1>8. HistoryTypes'
  BY DEF Receive, TypeInv, HistoryTypes, Tale
<1> QED
  BY <1>3, <1>4, <1>5, <1>6, <1>7, <1>8 DEF TypeInv, PlaceTypes, ProbeTypes, Probing, Target, CoolTypes

LEMMA TickTypes ==
  ASSUME TypeInv, Tick
  PROVE  TypeInv'
<1>1. \A n \in Nat : \A k \in 0..n : Aged(k, n) \in 0..n /\ Minus1(k) \in 0..n
  BY DEF Aged, Minus1
<1>2. \A k \in Nat : Minus1(k) \in Nat
  BY DEF Minus1
<1>3. TableTypes'
  <2>1. ASSUME NEW e \in Entry PROVE [e EXCEPT !.age = Aged(@, PeerTtl)] \in Entry
    BY <1>1, TimesAreNat DEF Entry
  <2>2. ASSUME NEW m \in Managers, NEW d \in Devices
        PROVE  (IF d \in Peers(m) THEN [table[m][d] EXCEPT !.age = Aged(@, PeerTtl)] ELSE NoEntry)
                 \in Entry \cup {NoEntry}
    <3>1. table[m][d] \in Entry \cup {NoEntry}
      BY DEF TypeInv, TableTypes
    <3> QED
      BY <2>1, <3>1 DEF Peers
  <2> QED
    BY <2>2 DEF Tick, TableTypes
<1>4. EchoTypes' /\ TimerTypes' /\ CoolTypes'
  <2>1. EchoTypes'
    BY <1>1, TimesAreNat DEF Tick, TypeInv, EchoTypes
  <2>2. active' \in [Managers -> 0..StabilityWindow]
    BY <1>1, TimesAreNat DEF Tick, TypeInv, TimerTypes
  <2>3. bcast' \in [Managers -> Nat]
    BY <1>2 DEF Tick, TypeInv, TimerTypes
  <2>4. sweep' \in [Managers -> 0..SweepEvery]
    BY <1>1, TimesAreNat DEF Tick, TypeInv, TimerTypes
  <2>5. CoolTypes'
    BY <1>1, TimesAreNat DEF Tick, TypeInv, CoolTypes
  <2> QED
    BY <2>1, <2>2, <2>3, <2>4, <2>5 DEF TimerTypes
<1>5. UNCHANGED <<up, at, net, tale>> /\ probe' = [m \in Managers |-> [probe[m] EXCEPT !.wait = Minus1(@)]]
  BY DEF Tick
<1>6. ProbeTypes'
  BY <1>5 DEF TypeInv, ProbeTypes, Probing, Target, Fields
<1> QED
  BY <1>3, <1>4, <1>5, <1>6 DEF TypeInv, PlaceTypes, NetTypes, HistoryTypes

(* A step of one probe. *)
LEMMA StepOfProbe ==
  ASSUME TypeInv, NEW m \in Managers, m \in Prober, m \in up, Target(m) \in Addrs,
         DOMAIN probe' = Managers, \A p \in Managers \ {m} : probe'[p] = probe[p],
         DOMAIN probe'[m] = Fields, probe'[m].target = probe[m].target,
         \/ up' = up /\ probe'[m].phase \in Phases
         \/ up' = up \ {m} /\ probe'[m].phase \in {"found", "offline"}
  PROVE  ProbeTypes'
  BY DEF TypeInv, ProbeTypes, Probing, Target, Phases

LEMMA ProbeTypesHold ==
  ASSUME TypeInv, NEW m \in Managers,
         ProbeSend(m) \/ ProbeFound(m) \/ ProbeMiss(m) \/ ProbeAgain(m) \/ ProbeGivesUp(m)
  PROVE  TypeInv'
<1>1. /\ DOMAIN probe = Managers /\ DOMAIN probe[m] = Fields /\ Probing(m)
      /\ m \in Prober /\ m \in up /\ Target(m) \in Addrs
  BY DEF TypeInv, ProbeTypes, Probing, ProbeSend, ProbeFound, ProbeMiss, ProbeAgain, ProbeGivesUp
<1>3. ProbeTypes'
  <2>1. DOMAIN probe' = Managers /\ \A p \in Managers \ {m} : probe'[p] = probe[p]
    BY <1>1 DEF ProbeSend, ProbeFound, ProbeMiss, ProbeAgain, ProbeGivesUp
  <2>2. DOMAIN probe'[m] = Fields /\ probe'[m].target = probe[m].target
    BY <1>1 DEF ProbeSend, ProbeFound, ProbeMiss, ProbeAgain, ProbeGivesUp, Fields
  <2>3. \/ up' = up /\ probe'[m].phase \in Phases
        \/ up' = up \ {m} /\ probe'[m].phase \in {"found", "offline"}
    BY <1>1 DEF ProbeSend, ProbeFound, ProbeMiss, ProbeAgain, ProbeGivesUp, Closed, Fields, Phases
  <2> QED
    BY <1>1, <2>1, <2>2, <2>3, StepOfProbe
<1>4. CASE ProbeSend(m)
  <2>1. PICK srcs \in Sources(m) : net' = net \cup Unicast(m, Target(m), srcs)
    BY <1>4 DEF ProbeSend
  <2>2. NetTypes'
    BY <1>1, <2>1, UnicastIsBeacon DEF Sources, TypeInv, NetTypes
  <2>3. UNCHANGED <<up, at, table, echoed, active, bcast, sweep, cool, tale>>
    BY <1>4 DEF ProbeSend, timers
  <2> QED
    BY <1>3, <2>2, <2>3 DEF TypeInv, PlaceTypes, TableTypes, EchoTypes, TimerTypes, CoolTypes, HistoryTypes
<1>5. CASE ProbeMiss(m) \/ ProbeAgain(m)
  <2>1. UNCHANGED <<up, at, table, echoed, active, bcast, sweep, net, cool, tale>>
    BY <1>5 DEF ProbeMiss, ProbeAgain, timers
  <2> QED
    BY <1>3, <2>1 DEF TypeInv, PlaceTypes, TableTypes, EchoTypes, TimerTypes, NetTypes, CoolTypes, HistoryTypes
<1>6. CASE ProbeFound(m) \/ ProbeGivesUp(m)
  <2>1. Closed(m) /\ UNCHANGED at
    BY <1>6 DEF ProbeFound, ProbeGivesUp
  <2>2. /\ TableTypes' /\ EchoTypes' /\ TimerTypes' /\ NetTypes' /\ up' \subseteq Managers
        /\ HistoryTypes'
    BY <2>1, ClosedTypes
  <2>3. CoolTypes'
    BY <1>6, <1>1, TimesAreNat DEF ProbeFound, ProbeGivesUp, TypeInv, CoolTypes
  <2> QED
    BY <1>3, <2>1, <2>2, <2>3 DEF TypeInv, PlaceTypes
<1> QED
  BY <1>4, <1>5, <1>6

LEMMA ProbeStartTypes ==
  ASSUME TypeInv, NEW m \in Managers, NEW a \in Addrs, ProbeStart(m, a)
  PROVE  TypeInv'
<1>1. TableTypes' /\ EchoTypes' /\ TimerTypes' /\ up' \subseteq Managers /\ up' = up \cup {m} /\ m \in Prober
  BY OpenedTypes DEF ProbeStart, Opened
<1>2. /\ UNCHANGED <<at, net, cool>>
      /\ probe' = [probe EXCEPT ![m] = [phase |-> "send", target |-> a, round |-> 1, polls |-> 0, wait |-> 0]]
  BY DEF ProbeStart
<1>3. ProbeTypes'
  BY <1>1, <1>2 DEF TypeInv, ProbeTypes, Probing, Target, Fields, Phases
<1>4. HistoryTypes'
  <2> DEFINE others == Unsettled({q \in Managers : Host[q] = Host[m]})
             own == [NoTale EXCEPT !.clean = Alone(m) /\ a \notin Home(m) /\ Reached(a) # {},
                                   !.quiet = \A r \in Reached(a), s \in Home(m) : MayEcho(r, s)]
  <2>1. others \in [Managers -> Tale]
    BY UnsettledTales DEF TypeInv
  <2>2. own \in Tale
    BY DEF NoTale, Tale
  <2>3. tale' = [p \in Managers |-> IF p = m THEN own ELSE others[p]]
    BY DEF ProbeStart
  <2> HIDE DEF own, others
  <2> QED
    BY <2>1, <2>2, <2>3 DEF HistoryTypes
<1> QED
  BY <1>1, <1>2, <1>3, <1>4 DEF TypeInv, PlaceTypes, NetTypes, CoolTypes

LEMMA BroadcastTypes ==
  ASSUME TypeInv, NEW m \in Managers, Broadcast(m)
  PROVE  TypeInv'
<1>2. NetTypes'
  <2>1. ASSUME NEW r \in Managers
        PROVE  Unicast(m, r, {s \in Home(m) : \E a \in Home(r) : Subnet[a] = Subnet[s]}) \subseteq Beacon
    BY UnicastIsBeacon DEF TypeInv
  <2> DEFINE copies(r) == Unicast(m, r, {s \in Home(m) : \E a \in Home(r) : Subnet[a] = Subnet[s]})
  <2>2. net' = net \cup UNION {copies(r) : r \in {r \in up : Host[r] # Host[m]}}
    BY DEF Broadcast
  <2>3. net \subseteq Beacon /\ up \subseteq Managers
    BY DEF TypeInv, NetTypes, PlaceTypes
  <2>4. \A r \in Managers : copies(r) \subseteq Beacon
    BY <2>1
  <2> HIDE DEF copies
  <2> QED
    BY <2>2, <2>3, <2>4 DEF NetTypes
<1>3. TimerTypes'
  <2>1. BroadcastInterval(m) \in Nat
    BY TimesAreNat DEF BroadcastInterval
  <2> QED
    BY <2>1 DEF Broadcast, TypeInv, TimerTypes
<1>4. UNCHANGED <<up, at, table, echoed, probe, cool, tale>>
  BY DEF Broadcast
<1> QED
  BY <1>2, <1>3, <1>4 DEF TypeInv, PlaceTypes, TableTypes, EchoTypes, ProbeTypes, Probing, Target, CoolTypes, HistoryTypes

LEMMA SweepTypes ==
  ASSUME TypeInv, NEW m \in Managers, Sweep(m)
  PROVE  TypeInv'
<1>1. TableTypes' /\ TimerTypes'
  BY TimesAreNat DEF Sweep, TypeInv, TableTypes, TimerTypes
<1>2. UNCHANGED <<up, at, echoed, net, probe, cool, tale>>
  BY DEF Sweep
<1> QED
  BY <1>1, <1>2 DEF TypeInv, PlaceTypes, EchoTypes, NetTypes, ProbeTypes, Probing, Target, CoolTypes, HistoryTypes

LEMMA MoveTypes ==
  ASSUME TypeInv, NEW d \in Devices, NEW as \in SUBSET Addrs, Move(d, as)
  PROVE  TypeInv'
<1>1. UNCHANGED <<up, table, echoed, active, bcast, sweep, net, probe, cool>>
  BY DEF Move, timers
<1>2. PlaceTypes'
  BY DEF Move, TypeInv, PlaceTypes
<1>3. HistoryTypes'
  BY UnsettledTales DEF Move, TypeInv, HistoryTypes
<1> QED
  BY <1>1, <1>2, <1>3 DEF TypeInv, TableTypes, EchoTypes, TimerTypes, NetTypes, ProbeTypes, Probing, Target, CoolTypes

LEMMA DropTypes ==
  ASSUME TypeInv, NEW g \in net, Lose(g) \/ Unreachable(g) \/ \E m \in Managers : Ignore(m, g)
  PROVE  TypeInv'
<1>1. UNCHANGED <<up, at, table, echoed, active, bcast, sweep, probe, cool>> /\ net' \subseteq net
  BY DEF Lose, Unreachable, Ignore, timers
<1>2. HistoryTypes'
  <2>1. CASE Lose(g)
    <3> DEFINE t(p) == [tale[p] EXCEPT !.unasked = IF Asks(p, g) THEN @ + 1 ELSE @,
                                       !.unheard = IF Answers(p, g) THEN @ + 1 ELSE @]
    <3>1. ASSUME NEW p \in Managers PROVE t(p) \in Tale
      <4>1. tale[p] \in Tale /\ tale[p].unasked + 1 \in Nat /\ tale[p].unheard + 1 \in Nat
        BY DEF TypeInv, HistoryTypes, Tale
      <4>2. CASE Asks(p, g) /\ Answers(p, g)
        BY <4>1, <4>2 DEF Tale
      <4>3. CASE Asks(p, g) /\ ~Answers(p, g)
        BY <4>1, <4>3 DEF Tale
      <4>4. CASE ~Asks(p, g) /\ Answers(p, g)
        BY <4>1, <4>4 DEF Tale
      <4>5. CASE ~Asks(p, g) /\ ~Answers(p, g)
        BY <4>1, <4>5 DEF Tale
      <4> QED
        BY <4>2, <4>3, <4>4, <4>5
    <3>2. tale' = [p \in Managers |-> t(p)]
      BY <2>1 DEF Lose
    <3> HIDE DEF t
    <3> QED
      BY <3>1, <3>2 DEF HistoryTypes
  <2>2. CASE UNCHANGED tale
    BY <2>2 DEF TypeInv, HistoryTypes
  <2> QED
    BY <2>1, <2>2 DEF Unreachable, Ignore
<1> QED
  BY <1>1, <1>2 DEF TypeInv, PlaceTypes, TableTypes, EchoTypes, TimerTypes, NetTypes, ProbeTypes, Probing, Target, CoolTypes

LEMMA TypesInductive == TypeInv /\ [Next]_vars => TypeInv'
<1> SUFFICES ASSUME TypeInv, [Next]_vars PROVE TypeInv'
  OBVIOUS
<1>1. CASE UNCHANGED vars
  BY <1>1 DEF vars, TypeInv, PlaceTypes, TableTypes, EchoTypes, TimerTypes, NetTypes, ProbeTypes, Probing, Target,
     CoolTypes, HistoryTypes
<1> QED
  BY <1>1, StartTypes, StopTypes, BroadcastTypes, SweepTypes, ProbeTypesHold, ProbeStartTypes, ReceiveTypes,
     DropTypes, MoveTypes, TickTypes DEF Next

(* What the managers keep stays well-formed: a table has whole entries, no     *)
(* timer exceeds its interval, and beacons have an address to go to.           *)
THEOREM TypeCorrect == Spec => []TypeOK
  BY TypesInitially, TypesInductive, PartsAreTypes, PTL DEF Spec

-------------------------------------------------------------------------------
(* The probe. *)

(* The prober is alone on its device, its target listens, and what the prober  *)
(* has heard of the target is of the probed address.                           *)
Settled(m) ==
  /\ m \in Prober /\ m \in up /\ Target(m) \in Addrs /\ Target(m) \notin Home(m)
  /\ \A r \in up \ {m} : Host[r] # Host[m]
  /\ Reached(Target(m)) # {}
  /\ \A d \in Peers(m) : Target(m) \in at[d] => table[m][d].addr = Target(m)

(* What finds the target: an echo that is owed and asked for, one that is on   *)
(* its way, or one that was heard and will be in the table at the next poll.   *)
Ready(m) == \A r \in Reached(Target(m)), s \in Home(m) : MayEcho(r, s)
Asked(m) == \E s \in Home(m) : [dev |-> Host[m], src |-> s, to |-> Target(m)] \in net
Answered(m) == \E g \in net : Answers(m, g)
UntilPoll(m) == IF probe[m].phase = "poll" THEN probe[m].wait ELSE probe[m].wait + PollEvery
Seen(m) == \E d \in Peers(m) : table[m][d].addr = Target(m) /\ table[m][d].age + UntilPoll(m) < PeerTtl

(* A round has been missed only if its probe was lost.                         *)
Sending(m) ==
  /\ probe[m].wait = 0 /\ tale[m].unasked >= probe[m].round - 1
  /\ Ready(m) \/ Answered(m) \/ Seen(m)
Polling(m) ==
  /\ probe[m].wait \in 0..PollEvery /\ tale[m].unasked >= probe[m].round - 1
  /\ \/ Seen(m)
     \/ probe[m].wait = PollEvery /\ (Answered(m) \/ (Asked(m) /\ Ready(m)))
     \/ tale[m].unasked >= probe[m].round /\ (Ready(m) \/ Answered(m))
Pausing(m) ==
  /\ probe[m].wait \in Nat /\ probe[m].wait + PollEvery < PeerTtl /\ tale[m].unasked >= probe[m].round
  /\ Ready(m) \/ Answered(m) \/ Seen(m)

Good(m) ==
  /\ Probing(m) => Settled(m) /\ probe[m].round \in 1..ProbeRounds
  /\ probe[m].phase = "send" => Sending(m)
  /\ probe[m].phase = "poll" => Polling(m)
  /\ probe[m].phase = "delay" => Pausing(m)
  /\ ~Offline(m)

(* What the property asks of a probe's history, with one round to go.          *)
Undisturbed(m) ==
  /\ tale[m].clean /\ tale[m].quiet /\ ~tale[m].other
  /\ tale[m].unheard = 0 /\ tale[m].unasked < ProbeRounds

FoundInv == \A m \in Managers : Undisturbed(m) => Good(m)

LEMMA GoodIsFound == TypeInv /\ FoundInv => RoundsMakeUpForLoss
<1> SUFFICES ASSUME TypeInv, FoundInv, NEW m \in Managers, Offline(m),
                    tale[m].clean, tale[m].quiet, ~tale[m].other, tale[m].unheard = 0
             PROVE  tale[m].unasked >= ProbeRounds
  BY DEF RoundsMakeUpForLoss
<1>1. tale[m].unasked \in Nat
  BY DEF TypeInv, HistoryTypes, Tale
<1>2. ~Undisturbed(m)
  BY DEF FoundInv, Good
<1> QED
  BY <1>1, <1>2, TimesAreNat DEF Undisturbed

LEMMA EntriesAreTyped ==
  ASSUME TypeInv, NEW m \in Managers, NEW d \in Devices, d \in Peers(m)
  PROVE  table[m][d] \in Entry /\ table[m][d].age \in Nat /\ table[m][d].addr \in Addrs
<1>1. table[m][d] \in Entry
  BY DEF TypeInv, TableTypes, Peers
<1> QED
  BY <1>1, TimesAreNat DEF Entry

LEMMA PollIsNear ==
  ASSUME NEW m, Good(m), Probing(m)
  PROVE  UntilPoll(m) \in Nat /\ UntilPoll(m) < PeerTtl
<1>1. PollEvery < PeerTtl
  <2>1. 1 \in 1..ProbeRounds
    BY TimesAreNat
  <2>2. RoundPause(1) \in {n \in Nat : n + PollEvery < PeerTtl}
    BY <2>1
  <2> QED
    BY <2>2, TimesAreNat
<1>2. CASE probe[m].phase = "send"
  BY <1>1, <1>2, TimesAreNat DEF Good, Sending, UntilPoll
<1>3. CASE probe[m].phase = "poll"
  BY <1>1, <1>3, TimesAreNat DEF Good, Polling, UntilPoll
<1>4. CASE probe[m].phase = "delay"
  BY <1>4, TimesAreNat DEF Good, Pausing, UntilPoll
<1> QED
  BY <1>2, <1>3, <1>4 DEF Probing

(* A step that leaves the probe as it was, and each of its hopes or a better.  *)
LEMMA Persists ==
  ASSUME NEW m \in Managers, Good(m), probe'[m] = probe[m], tale'[m].unasked = tale[m].unasked,
         Probing(m) => /\ Settled(m)'
                       /\ Ready(m) => Ready(m)' \/ Answered(m)'
                       /\ Asked(m) /\ Ready(m) => (Asked(m)' /\ Ready(m)') \/ Answered(m)'
                       /\ Answered(m) => Answered(m)' \/ Seen(m)'
                       /\ Seen(m) => Seen(m)'
  PROVE  Good(m)'
<1>1. CASE ~Probing(m)
  BY <1>1 DEF Probing, Good, Offline
<1>2. CASE probe[m].phase = "send"
  BY <1>2 DEF Probing, Good, Offline, Sending
<1>3. CASE probe[m].phase = "poll"
  BY <1>3 DEF Probing, Good, Offline, Polling
<1>4. CASE probe[m].phase = "delay"
  BY <1>4 DEF Probing, Good, Offline, Pausing
<1> QED
  BY <1>1, <1>2, <1>3, <1>4 DEF Probing

(* The prober's own table, place and probe are as they were. *)
LEMMA SameTable ==
  ASSUME NEW m \in Managers, probe'[m] = probe[m], table'[m] = table[m], UNCHANGED at
  PROVE  /\ (Seen(m)' <=> Seen(m)) /\ Target(m)' = Target(m) /\ Home(m)' = Home(m) /\ Peers(m)' = Peers(m)
         /\ \A g : Answers(m, g)' <=> Answers(m, g)
  BY DEF Seen, UntilPoll, Target, Home, Peers, Answers

LEMMA OpensKeepGood ==
  ASSUME TypeInv, NEW p \in Managers, Good(p), NEW m \in Managers, m # p, Opened(m),
         UNCHANGED <<at, net>>, probe'[p] = probe[p], Host[p] # Host[m], tale'[p].unasked = tale[p].unasked
  PROVE  Good(p)'
<1>1. /\ m \notin up /\ up' = up \cup {m} /\ table'[p] = table[p]
      /\ \A r \in up, a \in Addrs : echoed'[r][a] = echoed[r][a]
      /\ \A a \in Addrs : echoed'[m][a] = EchoThrottle
  BY DEF Opened, TypeInv, PlaceTypes, TableTypes, EchoTypes
<1>2. /\ (Seen(p)' <=> Seen(p)) /\ Target(p)' = Target(p) /\ Home(p)' = Home(p) /\ Peers(p)' = Peers(p)
      /\ \A g : Answers(p, g)' <=> Answers(p, g)
  BY <1>1, SameTable
<1>3. ASSUME Probing(p)
      PROVE  /\ Settled(p)' /\ (Ready(p) => Ready(p)')
             /\ (Asked(p)' <=> Asked(p)) /\ (Answered(p)' <=> Answered(p))
  <2>1. Settled(p)
    BY <1>3 DEF Good
  <2>2. Reached(Target(p)) \subseteq Reached(Target(p))' /\ Reached(Target(p))' \subseteq Reached(Target(p)) \cup {m}
    BY <1>1, <1>2 DEF Reached, Home
  <2>3. Settled(p)'
    BY <1>1, <1>2, <2>1, <2>2 DEF Settled
  <2>4. Home(p) \subseteq Addrs
    BY HomesAreTyped DEF TypeInv
  <2>5. Ready(p) => Ready(p)'
    <3>1. ASSUME Ready(p), NEW r \in Reached(Target(p))', NEW s \in Home(p) PROVE MayEcho(r, s)'
      <4>1. CASE r = m
        BY <1>1, <2>4, <4>1, TimesAreNat DEF MayEcho
      <4>2. CASE r # m
        BY <1>1, <2>2, <2>4, <3>1, <4>2 DEF MayEcho, Ready, Reached
      <4> QED
        BY <4>1, <4>2
    <3> QED
      BY <1>2, <3>1 DEF Ready
  <2>6. (Asked(p)' <=> Asked(p)) /\ (Answered(p)' <=> Answered(p))
    BY <1>2 DEF Asked, Answered
  <2> QED
    BY <2>3, <2>5, <2>6
<1> QED
  BY <1>2, <1>3, Persists

LEMMA ClosesKeepGood ==
  ASSUME TypeInv, NEW p \in Managers, Good(p), NEW m \in Managers, m # p, Closed(m),
         UNCHANGED at, probe'[p] = probe[p], Target(p) \notin Home(m), tale'[p].unasked = tale[p].unasked
  PROVE  Good(p)'
<1>1. /\ up' = up \ {m} /\ net' = {g \in net : g.to # m} /\ table'[p] = table[p]
      /\ \A r \in Managers \ {m} : echoed'[r] = echoed[r]
  BY DEF Closed, TypeInv, TableTypes, EchoTypes
<1>2. /\ (Seen(p)' <=> Seen(p)) /\ Target(p)' = Target(p) /\ Home(p)' = Home(p) /\ Peers(p)' = Peers(p)
      /\ \A g : Answers(p, g)' <=> Answers(p, g)
  BY <1>1, SameTable
<1>3. ASSUME Probing(p)
      PROVE  /\ Settled(p)' /\ (Ready(p) => Ready(p)')
             /\ (Asked(p) => Asked(p)') /\ (Answered(p) => Answered(p)')
  <2>1. Settled(p)
    BY <1>3 DEF Good
  <2>2. Reached(Target(p))' = Reached(Target(p)) /\ m \notin Reached(Target(p))
    BY <1>1, <1>2 DEF Reached, Home
  <2>3. Settled(p)'
    BY <1>1, <1>2, <2>1, <2>2 DEF Settled
  <2>4. m \notin Home(p) /\ Target(p) # m
    <3>1. Home(p) \subseteq Addrs
      BY HomesAreTyped DEF TypeInv
    <3> QED
      BY <2>1, <3>1 DEF Settled
  <2>5. Ready(p) => Ready(p)'
    BY <1>1, <1>2, <2>2 DEF Ready, MayEcho, Reached, TypeInv, PlaceTypes
  <2>6. Asked(p) => Asked(p)'
    BY <1>1, <1>2, <2>4 DEF Asked
  <2>7. Answered(p) => Answered(p)'
    BY <1>1, <1>2, <2>4 DEF Answered, Answers
  <2> QED
    BY <2>3, <2>5, <2>6, <2>7
<1> QED
  BY <1>2, <1>3, Persists

LEMMA SendsKeepGood ==
  ASSUME NEW p \in Managers, Good(p), UNCHANGED <<up, at, echoed>>, probe'[p] = probe[p], table'[p] = table[p],
         tale'[p].unasked = tale[p].unasked, net \subseteq net'
  PROVE  Good(p)'
<1>2. /\ (Seen(p)' <=> Seen(p)) /\ Target(p)' = Target(p) /\ Home(p)' = Home(p) /\ Peers(p)' = Peers(p)
      /\ \A g : Answers(p, g)' <=> Answers(p, g)
  BY SameTable
<1>3. ASSUME Probing(p)
      PROVE  /\ Settled(p)' /\ (Ready(p) => Ready(p)')
             /\ (Asked(p) => Asked(p)') /\ (Answered(p) => Answered(p)')
  <2>1. Settled(p)
    BY <1>3 DEF Good
  <2>2. Settled(p)'
    BY <1>2, <2>1 DEF Settled, Reached, Home
  <2> QED
    BY <1>2, <2>2 DEF Ready, MayEcho, Reached, Home, Asked, Answered
<1> QED
  BY <1>2, <1>3, Persists

LEMMA HeardTales ==
  ASSUME TypeInv, NEW p \in Managers, NEW m \in Managers, NEW g \in net, Receive(m, g)
  PROVE  /\ tale'[p].clean = tale[p].clean /\ tale'[p].quiet = tale[p].quiet
         /\ tale'[p].unasked = tale[p].unasked /\ tale'[p].unheard = tale[p].unheard
         /\ tale'[p].other <=> (tale[p].other \/ (p = m /\ Target(m) \in at[g.dev] /\ g.src # Target(m)))
<1>1. tale' = [tale EXCEPT ![m].other = @ \/ (Target(m) \in at[g.dev] /\ g.src # Target(m))]
  BY DEF Receive
<1>2. DOMAIN tale = Managers /\ tale[p] \in Tale /\ tale[m] \in Tale
  BY DEF TypeInv, HistoryTypes
<1>3. CASE p # m
  <2>1. tale'[p] = tale[p]
    BY <1>1, <1>2, <1>3
  <2> QED
    BY <1>2, <1>3, <2>1 DEF Tale
<1>4. CASE p = m
  <2>1. tale'[m] = [tale[m] EXCEPT !.other = tale[m].other \/ (Target(m) \in at[g.dev] /\ g.src # Target(m))]
    BY <1>1, <1>2
  <2> QED
    BY <1>2, <1>4, <2>1 DEF Tale
<1> QED
  BY <1>3, <1>4

(* Whoever the beacon reaches, a target that owes the prober an echo sends it. *)
LEMMA OtherHearsKeepsGood ==
  ASSUME TypeInv, NEW p \in Managers, Good(p), NEW m \in Managers, m # p, NEW g \in net, Receive(m, g)
  PROVE  Good(p)'
<1>1. /\ m \in up /\ (g.to = m \/ m \in Reached(g.to)) /\ UNCHANGED <<up, at, probe>> /\ table'[p] = table[p]
      /\ echoed' = IF MayEcho(m, g.src) THEN [echoed EXCEPT ![m][g.src] = 0] ELSE echoed
  BY DEF Receive, Arrives, TypeInv, TableTypes
<1>2. /\ (Seen(p)' <=> Seen(p)) /\ Target(p)' = Target(p) /\ Home(p)' = Home(p) /\ Peers(p)' = Peers(p)
      /\ \A h : Answers(p, h)' <=> Answers(p, h)
  BY <1>1, SameTable
<1>3. PICK srcs \in Sources(m) : net' = (net \ {g}) \cup Echo(m, g.src, srcs)
  BY DEF Receive
<1>4. tale'[p].unasked = tale[p].unasked
  BY HeardTales
<1>5. ASSUME Probing(p)
      PROVE  /\ Settled(p)' /\ (Ready(p) => Ready(p)' \/ Answered(p)')
             /\ (Asked(p) /\ Ready(p) => (Asked(p)' /\ Ready(p)') \/ Answered(p)')
             /\ (Answered(p) => Answered(p)')
  <2>1. Settled(p)
    BY <1>5 DEF Good
  <2>2. Settled(p)'
    BY <1>1, <1>2, <2>1 DEF Settled, Reached, Home
  <2>3. /\ Home(p) \subseteq Addrs /\ Target(p) \in Addrs /\ m \notin Addrs /\ p \notin Addrs
        /\ Host[m] # Host[p] /\ Host[m] \in Devices /\ Host[p] \in Devices
        /\ Home(m) \cap Home(p) = {}
    <3>1. Host[m] # Host[p] /\ Target(p) \in Addrs
      BY <1>1, <2>1 DEF Settled
    <3>2. Home(p) \subseteq Addrs /\ Host[m] \in Devices /\ Host[p] \in Devices
      BY HomesAreTyped DEF TypeInv
    <3>3. at[Host[m]] \cap at[Host[p]] = {}
      BY <3>1, <3>2, HomesAreTyped DEF TypeInv
    <3> QED
      BY <3>1, <3>2, <3>3 DEF Home
  <2>4. CASE m \in Reached(Target(p)) /\ g.src \in Home(p) /\ MayEcho(m, g.src)
    <3>1. PICK s \in srcs : TRUE
      BY DEF Sources
    <3>2. [dev |-> Host[m], src |-> s, to |-> g.src] \in net'
      BY <1>3, <2>4, <3>1 DEF Echo, Unicast
    <3>3. Target(p) \in at[Host[m]]
      BY <2>4 DEF Reached, Home
    <3>4. Answers(p, [dev |-> Host[m], src |-> s, to |-> g.src])
      BY <2>4, <3>3 DEF Answers
    <3>5. Answered(p)'
      BY <1>2, <3>2, <3>4 DEF Answered
    <3> QED
      BY <2>2, <3>5
  <2>5. CASE ~(m \in Reached(Target(p)) /\ g.src \in Home(p) /\ MayEcho(m, g.src))
    <3>1. Reached(Target(p))' = Reached(Target(p))
      BY <1>1, <1>2 DEF Reached, Home
    <3>2. Ready(p) => Ready(p)'
      <4>1. ASSUME Ready(p), NEW r \in Reached(Target(p)), NEW s \in Home(p) PROVE MayEcho(r, s)'
        <5>1. MayEcho(r, s) /\ r \in Managers /\ s \in Addrs
          BY <2>3, <4>1 DEF Ready, Reached, TypeInv, PlaceTypes
        <5>2. ~(r = m /\ s = g.src)
          BY <2>5, <4>1, <5>1
        <5>3. echoed'[r][s] = echoed[r][s]
          BY <1>1, <5>1, <5>2 DEF TypeInv, EchoTypes
        <5> QED
          BY <5>1, <5>3 DEF MayEcho
      <4> QED
        BY <1>2, <3>1, <4>1 DEF Ready
    <3>3. Asked(p) /\ Ready(p) => Asked(p)'
      <4>1. ASSUME Ready(p), NEW s \in Home(p), g = [dev |-> Host[p], src |-> s, to |-> Target(p)] PROVE FALSE
        <5>1. g.to = Target(p) /\ g.src = s
          BY <4>1
        <5>2. m \in Reached(Target(p))
          BY <1>1, <2>3, <5>1
        <5> QED
          BY <2>5, <4>1, <5>1, <5>2 DEF Ready
      <4> QED
        BY <1>2, <1>3, <4>1 DEF Asked
    <3>4. Answered(p) => Answered(p)'
      <4>1. g.to \notin {p} \cup Home(p)
        <5>1. \A a \in Home(p) : m \notin Reached(a)
          BY <2>3 DEF Reached
        <5>2. m \notin Reached(p)
          <6>1. Home(m) \subseteq Addrs
            BY HomesAreTyped DEF TypeInv
          <6> QED
            BY <2>3, <6>1 DEF Reached
        <5> QED
          BY <1>1, <2>3, <5>1, <5>2
      <4>2. ~Answers(p, g)
        BY <4>1 DEF Answers
      <4> QED
        BY <1>2, <1>3, <4>2 DEF Answered
    <3> QED
      BY <2>2, <3>2, <3>3, <3>4
  <2> QED
    BY <2>4, <2>5
<1> QED
  BY <1>1, <1>2, <1>4, <1>5, Persists

(* The prober takes an echo of its target as a sight of it. *)
LEMMA ProberHearsKeepsGood ==
  ASSUME TypeInv, NEW p \in Managers, Good(p), NEW g \in net, Receive(p, g), ~tale'[p].other
  PROVE  Good(p)'
<1>1. /\ UNCHANGED <<up, at, probe>> /\ (g.to = p \/ p \in Reached(g.to))
      /\ table' = [table EXCEPT ![p][g.dev] = Heard(p, g)]
      /\ \A r \in Managers \ {p} : echoed'[r] = echoed[r]
  BY DEF Receive, Arrives, TypeInv, EchoTypes
<1>2. g \in Beacon /\ g.dev \in Devices
  BY DEF TypeInv, NetTypes, Beacon
<1>3. /\ Heard(p, g) \in Entry /\ Heard(p, g).age = 0 /\ Heard(p, g) # NoEntry
      /\ Heard(p, g).addr = IF g.dev \in Peers(p) THEN table[p][g.dev].addr ELSE g.src
  BY <1>2, HeardIsEntry DEF Entry, Peers
<1>4. /\ Peers(p)' = Peers(p) \cup {g.dev} /\ table'[p][g.dev] = Heard(p, g)
      /\ \A d \in Devices \ {g.dev} : table'[p][d] = table[p][d]
  BY <1>1, <1>2, <1>3 DEF Peers, TypeInv, TableTypes
<1>5. Target(p)' = Target(p) /\ Home(p)' = Home(p) /\ \A h : Answers(p, h)' <=> Answers(p, h)
  BY <1>1 DEF Target, Home, Answers
<1>6. tale'[p].unasked = tale[p].unasked /\ (Target(p) \in at[g.dev] => g.src = Target(p))
  BY HeardTales
<1>7. net \ {g} \subseteq net'
  BY DEF Receive
<1>8. ASSUME Probing(p)
      PROVE  /\ Settled(p)' /\ (Ready(p) => Ready(p)') /\ (Asked(p) => Asked(p)')
             /\ (Answered(p) => Answered(p)' \/ Seen(p)') /\ (Seen(p) => Seen(p)')
  <2>1. Settled(p)
    BY <1>8 DEF Good
  <2>2. Target(p) \in at[g.dev] => Heard(p, g).addr = Target(p)
    BY <1>3, <1>6, <2>1 DEF Settled
  <2>3. Settled(p)'
    <3>1. \A d \in Peers(p)' : Target(p) \in at[d] => table'[p][d].addr = Target(p)
      BY <1>4, <2>1, <2>2 DEF Settled, Peers
    <3> QED
      BY <1>1, <1>5, <2>1, <3>1 DEF Settled, Reached, Home
  <2>4. p \notin Reached(Target(p)) /\ Target(p) # p
    BY <2>1 DEF Settled, Reached
  <2>5. Ready(p) => Ready(p)'
    BY <1>1, <1>5, <2>4 DEF Ready, MayEcho, Reached, Home, TypeInv, PlaceTypes
  <2>6. Asked(p) => Asked(p)'
    <3>1. g.to # Target(p)
      BY <1>1, <2>4
    <3> QED
      BY <1>5, <1>7, <3>1 DEF Asked
  <2>7. UntilPoll(p) \in Nat /\ UntilPoll(p) < PeerTtl /\ UntilPoll(p)' = UntilPoll(p)
    BY <1>1, <1>8, PollIsNear DEF UntilPoll
  <2>8. Heard(p, g).addr = Target(p) => Seen(p)'
    BY <1>3, <1>4, <1>5, <2>7 DEF Seen
  <2>9. Answered(p) => Answered(p)' \/ Seen(p)'
    BY <1>5, <1>7, <2>2, <2>8 DEF Answered, Answers
  <2>10. Seen(p) => Seen(p)'
    <3>1. ASSUME NEW d \in Peers(p), table[p][d].addr = Target(p), table[p][d].age + UntilPoll(p) < PeerTtl
          PROVE  Seen(p)'
      <4>1. CASE d = g.dev
        BY <1>3, <2>8, <3>1, <4>1
      <4>2. CASE d # g.dev
        BY <1>4, <1>5, <2>7, <3>1, <4>2 DEF Seen, Peers
      <4> QED
        BY <4>1, <4>2
    <3> QED
      BY <3>1 DEF Seen
  <2> QED
    BY <2>3, <2>5, <2>6, <2>9, <2>10
<1> QED
  BY <1>1, <1>6, <1>8, Persists

(* A beacon of the prober's own device is none of those it waits for, and      *)
(* nobody whom the probe needs is out of reach.                                *)
LEMMA DropKeepsGood ==
  ASSUME TypeInv, NEW p \in Managers, Good(p), NEW g \in net, Unreachable(g) \/ \E m \in Managers : Ignore(m, g)
  PROVE  Good(p)'
<1>1. /\ UNCHANGED <<up, at, probe, table, echoed, tale>> /\ net' = net \ {g}
      /\ \/ g.to \in Addrs /\ Reached(g.to) = {}
         \/ \E m \in Managers : Arrives(m, g) /\ g.dev = Host[m]
  BY DEF Unreachable, Ignore
<1>2. /\ (Seen(p)' <=> Seen(p)) /\ Target(p)' = Target(p) /\ Home(p)' = Home(p) /\ Peers(p)' = Peers(p)
      /\ \A h : Answers(p, h)' <=> Answers(p, h)
  BY <1>1, SameTable
<1>3. ASSUME Probing(p)
      PROVE  /\ Settled(p)' /\ (Ready(p) => Ready(p)')
             /\ (Asked(p) => Asked(p)') /\ (Answered(p) => Answered(p)')
  <2>1. Settled(p)
    BY <1>3 DEF Good
  <2>2. Home(p) \subseteq Addrs /\ p \notin Addrs /\ Host[p] \in Devices
    BY HomesAreTyped DEF TypeInv
  <2>3. Settled(p)'
    BY <1>1, <1>2, <2>1 DEF Settled, Reached, Home
  <2>4. CASE g.to \in Addrs /\ Reached(g.to) = {}
    <3>1. g.to \notin {p} \cup Home(p) /\ g.to # Target(p)
      BY <2>1, <2>2, <2>4 DEF Settled, Reached
    <3> QED
      BY <1>1, <1>2, <2>3, <3>1 DEF Ready, MayEcho, Reached, Home, Asked, Answered, Answers
  <2>5. ASSUME NEW m \in Managers, Arrives(m, g), g.dev = Host[m]
        PROVE  (Asked(p) => Asked(p)') /\ (Answered(p) => Answered(p)')
    <3>1. m \in up /\ Host[m] \in Devices /\ (g.to = m \/ m \in Reached(g.to))
      BY <2>5, HomesAreTyped DEF Arrives, TypeInv
    <3>2. ~(g.dev = Host[p] /\ g.to = Target(p))
      <4>1. ASSUME g.dev = Host[p], g.to = Target(p) PROVE FALSE
        <5>1. Host[m] = Host[p]
          BY <2>5, <4>1
        <5>2. m = p
          BY <2>1, <3>1, <5>1 DEF Settled
        <5> QED
          BY <2>1, <2>2, <3>1, <4>1, <5>2 DEF Settled, Reached
      <4> QED
        BY <4>1
    <3>3. ~Answers(p, g)
      <4>1. ASSUME Target(p) \in at[Host[m]], g.to \in {p} \cup Home(p) PROVE FALSE
        <5>1. m # p /\ Host[m] # Host[p]
          BY <2>1, <3>1, <4>1 DEF Settled, Home
        <5>2. Home(m) \cap Home(p) = {} /\ Home(m) \subseteq Addrs
          BY <2>2, <3>1, <5>1, HomesAreTyped DEF TypeInv, Home
        <5> QED
          BY <2>2, <3>1, <4>1, <5>1, <5>2 DEF Reached
      <4> QED
        BY <2>5, <4>1 DEF Answers
    <3> QED
      BY <1>1, <1>2, <3>2, <3>3 DEF Asked, Answered
  <2>6. Ready(p) => Ready(p)'
    BY <1>1, <1>2 DEF Ready, MayEcho, Reached, Home
  <2> QED
    BY <1>1, <2>3, <2>4, <2>5, <2>6
<1> QED
  BY <1>1, <1>2, <1>3, Persists

LEMMA LostTales ==
  ASSUME TypeInv, NEW p \in Managers, NEW g \in net, Lose(g)
  PROVE  /\ tale'[p].clean = tale[p].clean /\ tale'[p].quiet = tale[p].quiet /\ tale'[p].other = tale[p].other
         /\ tale'[p].unasked = IF Asks(p, g) THEN tale[p].unasked + 1 ELSE tale[p].unasked
         /\ tale'[p].unheard = IF Answers(p, g) THEN tale[p].unheard + 1 ELSE tale[p].unheard
         /\ tale[p].unasked \in Nat /\ tale[p].unheard \in Nat
<1>1. tale[p] \in Tale
  BY DEF TypeInv, HistoryTypes
<1>2. tale'[p] = [tale[p] EXCEPT !.unasked = IF Asks(p, g) THEN @ + 1 ELSE @,
                                 !.unheard = IF Answers(p, g) THEN @ + 1 ELSE @]
  BY DEF Lose
<1> QED
  BY <1>1, <1>2 DEF Tale

(* A round without an answer is paid with the probe it lost.                   *)
LEMMA LoseKeepsGood ==
  ASSUME TypeInv, NEW p \in Managers, Good(p), NEW g \in net, Lose(g), tale'[p].unheard = 0
  PROVE  Good(p)'
<1>1. UNCHANGED <<up, at, probe, table, echoed>> /\ net' = net \ {g}
  BY DEF Lose
<1>2. /\ (Seen(p)' <=> Seen(p)) /\ Target(p)' = Target(p) /\ Home(p)' = Home(p) /\ Peers(p)' = Peers(p)
      /\ \A h : Answers(p, h)' <=> Answers(p, h)
  BY <1>1, SameTable
<1>3. ~Answers(p, g) /\ tale[p].unasked \in Nat
  BY LostTales
<1>4. tale'[p].unasked = IF Asks(p, g) THEN tale[p].unasked + 1 ELSE tale[p].unasked
  BY LostTales
<1>5. ~Probing(p) \/ (Settled(p)' /\ probe[p].round \in 1..ProbeRounds)
  BY <1>1, <1>2 DEF Good, Settled, Reached, Home
<1>6. (Ready(p)' <=> Ready(p)) /\ (Answered(p)' <=> Answered(p))
  BY <1>1, <1>2, <1>3 DEF Ready, MayEcho, Reached, Home, Answered
<1>7. CASE Asks(p, g)
  <2>1. tale'[p].unasked = tale[p].unasked + 1
    BY <1>4, <1>7
  <2>2. CASE probe[p].phase = "poll"
    <3>1. tale'[p].unasked >= probe[p].round
      BY <1>3, <1>5, <2>1, <2>2, TimesAreNat DEF Good, Polling, Probing
    <3>2. Polling(p)'
      BY <1>1, <1>2, <1>3, <1>5, <1>6, <2>1, <2>2, <3>1 DEF Good, Polling, Probing
    <3> QED
      BY <1>1, <1>5, <2>2, <3>2 DEF Good, Offline, Probing
  <2>3. CASE probe[p].phase = "send"
    <3>1. Sending(p)'
      BY <1>1, <1>2, <1>3, <1>5, <1>6, <2>1, <2>3 DEF Good, Sending, Probing
    <3> QED
      BY <1>1, <1>5, <2>3, <3>1 DEF Good, Offline, Probing
  <2>4. CASE probe[p].phase = "delay"
    <3>1. Pausing(p)'
      BY <1>1, <1>2, <1>3, <1>5, <1>6, <2>1, <2>4 DEF Good, Pausing, Probing
    <3> QED
      BY <1>1, <1>5, <2>4, <3>1 DEF Good, Offline, Probing
  <2>5. CASE ~Probing(p)
    BY <1>1, <2>5 DEF Good, Offline, Probing
  <2> QED
    BY <2>2, <2>3, <2>4, <2>5 DEF Probing
<1>8. CASE ~Asks(p, g)
  <2>1. Asked(p) => Asked(p)'
    BY <1>1, <1>2, <1>8 DEF Asked, Asks
  <2> QED
    BY <1>1, <1>2, <1>4, <1>5, <1>6, <1>8, <2>1, Persists
<1> QED
  BY <1>7, <1>8

(* What the probe saw lately outlives a sweep. *)
LEMMA SweepKeepsGood ==
  ASSUME TypeInv, NEW p \in Managers, Good(p), NEW m \in Managers, Sweep(m)
  PROVE  Good(p)'
<1>1. /\ UNCHANGED <<up, at, probe, echoed, net, tale>>
      /\ table' = [table EXCEPT ![m] = [d \in Devices |->
                     IF d \in Peers(m) /\ table[m][d].age < PeerTtl THEN table[m][d] ELSE NoEntry]]
  BY DEF Sweep
<1>2. Target(p)' = Target(p) /\ Home(p)' = Home(p) /\ \A h : Answers(p, h)' <=> Answers(p, h)
  BY <1>1 DEF Target, Home, Answers
<1>3. \A d \in Devices : /\ d \in Peers(p)' => d \in Peers(p) /\ table'[p][d] = table[p][d]
                         /\ d \in Peers(p) /\ table[p][d].age < PeerTtl
                              => d \in Peers(p)' /\ table'[p][d] = table[p][d]
  BY <1>1 DEF Peers, TypeInv, TableTypes
<1>4. ASSUME Probing(p)
      PROVE  /\ Settled(p)' /\ (Ready(p) => Ready(p)') /\ (Seen(p) => Seen(p)')
             /\ (Asked(p) => Asked(p)') /\ (Answered(p) => Answered(p)')
  <2>1. Settled(p)
    BY <1>4 DEF Good
  <2>2. Settled(p)'
    BY <1>1, <1>2, <1>3, <2>1 DEF Settled, Reached, Home, Peers
  <2>3. UntilPoll(p) \in Nat /\ UntilPoll(p)' = UntilPoll(p)
    BY <1>1, <1>4, PollIsNear DEF UntilPoll
  <2>4. Seen(p) => Seen(p)'
    <3>1. ASSUME NEW d \in Peers(p), table[p][d].age + UntilPoll(p) < PeerTtl
          PROVE  d \in Peers(p)' /\ table'[p][d] = table[p][d]
      <4>1. d \in Devices /\ table[p][d].age \in Nat
        BY EntriesAreTyped DEF Peers
      <4>2. table[p][d].age < PeerTtl
        BY <2>3, <3>1, <4>1, TimesAreNat
      <4> QED
        BY <1>3, <4>1, <4>2
    <3> QED
      BY <1>2, <2>3, <3>1 DEF Seen
  <2> QED
    BY <1>1, <1>2, <2>2, <2>4 DEF Ready, MayEcho, Reached, Home, Asked, Answered
<1> QED
  BY <1>1, <1>4, Persists

(* Neither end of the probe moves, nor may another device take their places.   *)
LEMMA MoveKeepsGood ==
  ASSUME TypeInv, NEW p \in Managers, Good(p), NEW d \in Devices, NEW as \in SUBSET Addrs, Move(d, as),
         Target(p) \notin at[d], d # Host[p], tale'[p].unasked = tale[p].unasked
  PROVE  Good(p)'
<1>1. /\ UNCHANGED <<up, probe, table, echoed, net>> /\ at' = [at EXCEPT ![d] = as]
      /\ \A e, f \in Devices : e # f => at'[e] \cap at'[f] = {}
  BY DEF Move, MayBeAt
<1>2. DOMAIN at = Devices /\ Host[p] \in Devices
  BY HomesAreTyped DEF TypeInv, PlaceTypes, MayBeAt
<1>3. Target(p)' = Target(p) /\ Home(p)' = Home(p) /\ Peers(p)' = Peers(p) /\ (Seen(p)' <=> Seen(p))
  BY <1>1, <1>2 DEF Target, Home, Peers, Seen, UntilPoll
<1>4. ASSUME Probing(p)
      PROVE  /\ Settled(p)' /\ (Ready(p) => Ready(p)')
             /\ (Asked(p) => Asked(p)') /\ (Answered(p) => Answered(p)')
  <2>1. Settled(p)
    BY <1>4 DEF Good
  <2>2. Target(p) \notin as
    <3>1. PICK r \in up : Target(p) \in at[Host[r]]
      BY <2>1 DEF Settled, Reached, Home
    <3>2. Host[r] \in Devices /\ Host[r] # d
      BY <3>1, HomesAreTyped DEF TypeInv, PlaceTypes
    <3>3. at'[Host[r]] = at[Host[r]] /\ at'[d] = as
      BY <1>1, <1>2, <3>2
    <3> QED
      BY <1>1, <3>1, <3>2, <3>3
  <2>3. \A e \in Devices : Target(p) \in at'[e] <=> Target(p) \in at[e]
    BY <1>1, <1>2, <2>2
  <2>4. Reached(Target(p))' = Reached(Target(p))
    <3>1. ASSUME NEW r \in up PROVE Target(p) \in Home(r)' <=> Target(p) \in Home(r)
      <4>1. Host[r] \in Devices
        BY HomesAreTyped DEF TypeInv, PlaceTypes
      <4> QED
        BY <2>3, <4>1 DEF Home
    <3> QED
      BY <1>1, <1>3, <3>1 DEF Reached
  <2>5. Settled(p)'
    <3>1. ASSUME NEW e \in Peers(p), Target(p) \in at'[e] PROVE table[p][e].addr = Target(p)
      <4>1. e \in Devices
        BY DEF Peers
      <4>2. Target(p) \in at[e]
        BY <2>3, <3>1, <4>1
      <4> QED
        BY <2>1, <4>2 DEF Settled
    <3> QED
      BY <1>1, <1>3, <2>1, <2>4, <3>1 DEF Settled
  <2>6. \A h \in net : Answers(p, h)' <=> Answers(p, h)
    <3>1. ASSUME NEW h \in net PROVE Target(p) \in at'[h.dev] <=> Target(p) \in at[h.dev]
      <4>1. h.dev \in Devices
        BY DEF TypeInv, NetTypes, Beacon
      <4> QED
        BY <2>3, <4>1
    <3> QED
      BY <1>3, <3>1 DEF Answers
  <2> QED
    BY <1>1, <1>3, <2>4, <2>5, <2>6 DEF Ready, MayEcho, Asked, Answered
<1> QED
  BY <1>1, <1>3, <1>4, Persists

(* A probe that starts as the property asks may hope for the echo.             *)
LEMMA StartIsGood ==
  ASSUME TypeInv, NEW p \in Managers, NEW a \in Addrs, ProbeStart(p, a), Undisturbed(p)'
  PROVE  Good(p)'
<1>1. /\ p \in Prober /\ p \notin up /\ up' = up \cup {p} /\ UNCHANGED <<at, net>>
      /\ probe' = [probe EXCEPT ![p] = [phase |-> "send", target |-> a, round |-> 1, polls |-> 0, wait |-> 0]]
      /\ \A d \in Devices : table'[p][d] = NoEntry
      /\ \A r \in up, b \in Addrs : echoed'[r][b] = echoed[r][b]
  BY DEF ProbeStart, Opened, TypeInv, PlaceTypes, TableTypes, EchoTypes
<1>2. /\ Alone(p) /\ a \notin Home(p) /\ Reached(a) # {}
      /\ \A r \in Reached(a), s \in Home(p) : MayEcho(r, s)
      /\ tale'[p].unasked = 0
  <2> DEFINE own == [NoTale EXCEPT !.clean = Alone(p) /\ a \notin Home(p) /\ Reached(a) # {},
                                   !.quiet = \A r \in Reached(a), s \in Home(p) : MayEcho(r, s)]
  <2>1. tale'[p] = own
    BY DEF ProbeStart
  <2>2. /\ own.clean = (Alone(p) /\ a \notin Home(p) /\ Reached(a) # {})
        /\ own.quiet = (\A r \in Reached(a), s \in Home(p) : MayEcho(r, s))
        /\ own.unasked = 0
    BY Zenon DEF NoTale
  <2>3. tale'[p].clean /\ tale'[p].quiet
    BY DEF Undisturbed
  <2> HIDE DEF own
  <2> QED
    BY <2>1, <2>2, <2>3, Zenon
<1>3. probe'[p] = [phase |-> "send", target |-> a, round |-> 1, polls |-> 0, wait |-> 0]
  BY <1>1 DEF TypeInv, ProbeTypes
<1>4. Target(p)' = a /\ Home(p)' = Home(p) /\ Home(p) \subseteq Addrs
  BY <1>1, <1>3, HomesAreTyped DEF Target, Home, TypeInv
<1>5. Reached(a)' = Reached(a) /\ Reached(a) \subseteq up
  BY <1>1, <1>2 DEF Reached, Home
<1>6. Settled(p)'
  BY <1>1, <1>2, <1>4, <1>5 DEF Settled, Alone, Peers
<1>7. Ready(p)'
  BY <1>1, <1>2, <1>4, <1>5 DEF Ready, MayEcho
<1>8. 1 \in 1..ProbeRounds
  BY TimesAreNat
<1> QED
  BY <1>2, <1>3, <1>6, <1>7, <1>8 DEF Good, Sending, Probing, Offline

(* The probe's own steps. *)
LEMMA OwnProbe ==
  ASSUME TypeInv, NEW p \in Managers, ProbeSend(p) \/ ProbeMiss(p) \/ ProbeAgain(p)
  PROVE  /\ UNCHANGED <<up, at, table, echoed, tale>> /\ net \subseteq net'
         /\ probe'[p].target = probe[p].target
         /\ Target(p)' = Target(p) /\ Home(p)' = Home(p) /\ Peers(p)' = Peers(p)
         /\ (Settled(p) => Settled(p)') /\ (Ready(p) => Ready(p)') /\ (Answered(p) => Answered(p)')
<1>1. UNCHANGED <<up, at, table, echoed, tale>> /\ net \subseteq net'
  BY DEF ProbeSend, ProbeMiss, ProbeAgain
<1>2. probe'[p].target = probe[p].target
  BY DEF ProbeSend, ProbeMiss, ProbeAgain, TypeInv, ProbeTypes, Fields
<1>3. Target(p)' = Target(p) /\ Home(p)' = Home(p) /\ Peers(p)' = Peers(p)
  BY <1>1, <1>2 DEF Target, Home, Peers
<1>4. Settled(p) => Settled(p)'
  BY <1>1, <1>3 DEF Settled, Reached, Home
<1>5. Ready(p) => Ready(p)'
  BY <1>1, <1>3 DEF Ready, MayEcho, Reached, Home
<1>6. Answered(p) => Answered(p)'
  BY <1>1, <1>3 DEF Answered, Answers
<1> QED
  BY <1>1, <1>2, <1>3, <1>4, <1>5, <1>6

LEMMA SendIsGood ==
  ASSUME TypeInv, NEW p \in Managers, Good(p), ProbeSend(p)
  PROVE  Good(p)'
<1>1. /\ probe[p].phase = "send"
      /\ probe' = [probe EXCEPT ![p].phase = "poll", ![p].polls = ProbePolls, ![p].wait = PollEvery]
  BY DEF ProbeSend
<1>2. probe'[p].phase = "poll" /\ probe'[p].wait = PollEvery /\ probe'[p].round = probe[p].round
  BY <1>1 DEF TypeInv, ProbeTypes, Fields
<1>3. Settled(p) /\ probe[p].round \in 1..ProbeRounds /\ Sending(p)
  BY <1>1 DEF Good, Probing
<1>4. Asked(p)'
  <2>1. PICK srcs \in Sources(p) : net' = net \cup Unicast(p, Target(p), srcs)
    BY DEF ProbeSend
  <2>2. PICK s \in srcs : s \in Home(p)
    BY DEF Sources
  <2>3. [dev |-> Host[p], src |-> s, to |-> Target(p)] \in net'
    BY <2>1, <2>2 DEF Unicast
  <2> QED
    BY <2>2, <2>3, OwnProbe DEF Asked
<1>5. Seen(p) => Seen(p)'
  BY <1>1, <1>2, <1>3, OwnProbe, TimesAreNat DEF Seen, UntilPoll, Sending
<1>6. Polling(p)'
  BY <1>2, <1>3, <1>4, <1>5, OwnProbe, TimesAreNat DEF Sending, Polling
<1> QED
  BY <1>2, <1>3, <1>6, OwnProbe DEF Good, Probing, Offline

(* A poll that misses has lost this round's probe. *)
LEMMA MissIsGood ==
  ASSUME TypeInv, NEW p \in Managers, Good(p), ProbeMiss(p)
  PROVE  Good(p)'
<1>1. probe[p].phase = "poll" /\ probe[p].wait = 0 /\ ~Hit(p) /\ DOMAIN probe = Managers /\ DOMAIN probe[p] = Fields
  BY DEF ProbeMiss, TypeInv, ProbeTypes
<1>2. ~Seen(p)
  BY <1>1 DEF Seen, Hit
<1>3. Settled(p) /\ probe[p].round \in 1..ProbeRounds
  BY <1>1 DEF Good, Probing
<1>4. tale[p].unasked >= probe[p].round /\ tale[p].unasked >= probe[p].round - 1 /\ (Ready(p) \/ Answered(p))
  BY <1>1, <1>2, <1>3, TimesAreNat DEF Good, Polling
<1>5. CASE probe[p].polls > 1
  <2>1. probe'[p].phase = "poll" /\ probe'[p].wait = PollEvery /\ probe'[p].round = probe[p].round
    BY <1>1, <1>5 DEF ProbeMiss, Fields
  <2>2. Polling(p)'
    BY <1>4, <2>1, OwnProbe, TimesAreNat DEF Polling
  <2> QED
    BY <1>3, <2>1, <2>2, OwnProbe DEF Good, Probing, Offline
<1>6. CASE ~(probe[p].polls > 1)
  <2>1. /\ probe'[p].phase = "delay" /\ probe'[p].wait = RoundPause(probe[p].round)
        /\ probe'[p].round = probe[p].round
    BY <1>1, <1>6 DEF ProbeMiss, Fields
  <2>2. RoundPause(probe[p].round) \in {n \in Nat : n + PollEvery < PeerTtl}
    BY <1>3
  <2> HIDE DEF RoundPause
  <2>3. Pausing(p)'
    BY <1>4, <2>1, <2>2, OwnProbe DEF Pausing
  <2> QED
    BY <1>3, <2>1, <2>3, OwnProbe DEF Good, Probing, Offline
<1> QED
  BY <1>5, <1>6

LEMMA AgainIsGood ==
  ASSUME TypeInv, NEW p \in Managers, Good(p), ProbeAgain(p)
  PROVE  Good(p)'
<1>1. probe[p].phase = "delay" /\ probe[p].wait = 0 /\ probe[p].round < ProbeRounds
  BY DEF ProbeAgain
<1>2. probe'[p].phase = "send" /\ probe'[p].wait = 0 /\ probe'[p].round = probe[p].round + 1
  BY <1>1 DEF ProbeAgain, TypeInv, ProbeTypes, Fields
<1>3. Settled(p) /\ probe[p].round \in 1..ProbeRounds /\ Pausing(p)
  BY <1>1 DEF Good, Probing
<1>4. Seen(p) => Seen(p)'
  BY <1>1, <1>2, OwnProbe, TimesAreNat DEF Seen, UntilPoll
<1>5. probe'[p].round \in 1..ProbeRounds /\ tale[p].unasked >= probe'[p].round - 1
  BY <1>1, <1>2, <1>3, TimesAreNat DEF Pausing
<1>6. Sending(p)'
  BY <1>2, <1>3, <1>4, <1>5, OwnProbe DEF Pausing, Sending
<1> QED
  BY <1>2, <1>3, <1>5, <1>6, OwnProbe DEF Good, Probing, Offline

(* Before time goes on every beacon has arrived or is lost. *)
LEMMA TickKeepsGood ==
  ASSUME TypeInv, NEW p \in Managers, Good(p), Tick
  PROVE  Good(p)'
<1>1. /\ UNCHANGED <<up, at, net, tale>> /\ net = {}
      /\ probe'[p] = [probe[p] EXCEPT !.wait = Minus1(@)]
      /\ Probing(p) => probe[p].wait # 0
      /\ \A d \in Devices : table'[p][d] =
           IF d \in Peers(p) THEN [table[p][d] EXCEPT !.age = Aged(@, PeerTtl)] ELSE NoEntry
      /\ \A m \in Managers, a \in Addrs : echoed'[m][a] = Aged(echoed[m][a], EchoThrottle)
  BY DEF Tick, Due, Probing
<1>2. /\ probe'[p].phase = probe[p].phase /\ probe'[p].target = probe[p].target
      /\ probe'[p].round = probe[p].round /\ probe'[p].wait = Minus1(probe[p].wait)
  BY <1>1 DEF TypeInv, ProbeTypes, Fields
<1>3. CASE ~Probing(p)
  BY <1>2, <1>3 DEF Good, Probing, Offline
<1>4. CASE Probing(p)
  <2>1. /\ Settled(p) /\ probe[p].round \in 1..ProbeRounds /\ probe[p].phase # "send"
        /\ probe[p].wait \in Nat \ {0} /\ (Ready(p) \/ Seen(p))
    BY <1>1, <1>4, TimesAreNat DEF Good, Probing, Sending, Polling, Pausing, Asked, Answered
  <2>2. probe'[p].wait = probe[p].wait - 1 /\ UntilPoll(p)' = UntilPoll(p) - 1 /\ UntilPoll(p) \in Nat
    BY <1>2, <2>1, TimesAreNat DEF Minus1, UntilPoll
  <2>3. Target(p)' = Target(p) /\ Home(p)' = Home(p)
    BY <1>1, <1>2 DEF Target, Home
  <2>4. ASSUME NEW d \in Peers(p)
        PROVE  /\ d \in Peers(p)' /\ table'[p][d].addr = table[p][d].addr
               /\ table'[p][d].age = Aged(table[p][d].age, PeerTtl) /\ table[p][d].age \in Nat
    <3>1. d \in Devices /\ table[p][d] \in Entry /\ table[p][d].age \in Nat
      BY EntriesAreTyped DEF Peers
    <3>2. table'[p][d] = [table[p][d] EXCEPT !.age = Aged(@, PeerTtl)]
      BY <1>1, <3>1
    <3>3. Aged(table[p][d].age, PeerTtl) \in 0..PeerTtl
      BY <3>1, TimesAreNat DEF Aged
    <3>4. table'[p][d] \in Entry
      BY <3>1, <3>2, <3>3 DEF Entry
    <3>5. table'[p][d] # NoEntry
      BY <3>4 DEF Entry
    <3> QED
      BY <3>1, <3>2, <3>5 DEF Entry, Peers
  <2>5. Peers(p)' \subseteq Peers(p)
    BY <1>1 DEF Peers
  <2>6. Settled(p)'
    BY <1>1, <2>1, <2>3, <2>4, <2>5 DEF Settled, Reached, Home
  <2>7. Seen(p) => Seen(p)'
    <3>1. ASSUME NEW d \in Peers(p), table[p][d].addr = Target(p), table[p][d].age + UntilPoll(p) < PeerTtl
          PROVE  Seen(p)'
      <4>1. table'[p][d].age + UntilPoll(p)' < PeerTtl
        BY <2>2, <2>4, <3>1, TimesAreNat DEF Aged
      <4> QED
        BY <2>3, <2>4, <3>1, <4>1 DEF Seen
    <3> QED
      BY <3>1 DEF Seen
  <2>8. Ready(p) => Ready(p)'
    <3>1. Home(p) \subseteq Addrs /\ Reached(Target(p)) \subseteq Managers
      BY HomesAreTyped DEF Reached, TypeInv, PlaceTypes
    <3>2. ASSUME NEW r \in Managers, NEW s \in Addrs, MayEcho(r, s) PROVE MayEcho(r, s)'
      <4>1. echoed[r][s] \in 0..EchoThrottle
        BY DEF TypeInv, EchoTypes
      <4> QED
        BY <1>1, <3>2, <4>1, TimesAreNat DEF MayEcho, Aged
    <3>3. Reached(Target(p))' = Reached(Target(p))
      BY <1>1, <2>3 DEF Reached, Home
    <3> QED
      BY <2>3, <3>1, <3>2, <3>3 DEF Ready
  <2>9. CASE probe[p].phase = "poll"
    <3>1. probe[p].wait <= PollEvery /\ tale[p].unasked >= probe[p].round - 1
      BY <2>9, TimesAreNat DEF Good, Polling
    <3>2. Seen(p) \/ (tale[p].unasked >= probe[p].round /\ Ready(p))
      BY <1>1, <2>9 DEF Good, Polling, Asked, Answered
    <3>3. Polling(p)'
      BY <1>1, <1>2, <2>1, <2>2, <2>7, <2>8, <3>1, <3>2, TimesAreNat DEF Polling
    <3> QED
      BY <1>2, <2>1, <2>6, <2>9, <3>3 DEF Good, Probing, Offline
  <2>10. CASE probe[p].phase = "delay"
    <3>1. probe[p].wait + PollEvery < PeerTtl /\ tale[p].unasked >= probe[p].round
      BY <2>10 DEF Good, Pausing
    <3>2. Pausing(p)'
      BY <1>1, <1>2, <2>1, <2>2, <2>7, <2>8, <3>1, TimesAreNat DEF Pausing
    <3> QED
      BY <1>2, <2>1, <2>6, <2>10, <3>2 DEF Good, Probing, Offline
  <2> QED
    BY <1>4, <2>1, <2>9, <2>10 DEF Probing
<1> QED
  BY <1>3, <1>4

(* What a step may do to a probe's history, unless it starts the probe.        *)
LEMMA OpenedTales ==
  ASSUME TypeInv, NEW p \in Managers, NEW m \in Managers,
         Start(m) \/ (m # p /\ \E a \in Addrs : ProbeStart(m, a))
  PROVE  /\ Undisturbed(p)' => Undisturbed(p) /\ Host[p] # Host[m]
         /\ tale'[p].unasked = tale[p].unasked
<1> DEFINE others == Unsettled({q \in Managers : Host[q] = Host[m]})
<1>1. tale'[p] = others[p]
  BY DEF Start, ProbeStart
<1>2. /\ others[p].clean <=> (tale[p].clean /\ p \notin {q \in Managers : Host[q] = Host[m]})
      /\ others[p].quiet = tale[p].quiet /\ others[p].other = tale[p].other
      /\ others[p].unasked = tale[p].unasked /\ others[p].unheard = tale[p].unheard
  BY UnsettledTales DEF TypeInv
<1> HIDE DEF others
<1> QED
  BY <1>1, <1>2 DEF Undisturbed

LEMMA UnsettledBy ==
  ASSUME TypeInv, NEW p \in Managers, NEW ps, tale' = Unsettled(ps)
  PROVE  (Undisturbed(p)' => Undisturbed(p) /\ p \notin ps) /\ tale'[p].unasked = tale[p].unasked
<1>1. /\ tale'[p].clean <=> (tale[p].clean /\ p \notin ps)
      /\ tale'[p].quiet = tale[p].quiet /\ tale'[p].other = tale[p].other
      /\ tale'[p].unasked = tale[p].unasked /\ tale'[p].unheard = tale[p].unheard
  BY UnsettledTales DEF TypeInv
<1> QED
  BY <1>1 DEF Undisturbed

LEMMA ClosedTales ==
  ASSUME TypeInv, NEW p \in Managers, NEW m \in Managers, Closed(m)
  PROVE  /\ Undisturbed(p)' => Undisturbed(p) /\ Target(p) \notin Home(m)
         /\ tale'[p].unasked = tale[p].unasked
<1>1. tale' = Unsettled({q \in Managers : Target(q) \in Home(m)})
  BY DEF Closed
<1> QED
  BY <1>1, UnsettledBy

LEMMA MovedTales ==
  ASSUME TypeInv, NEW p \in Managers, NEW d \in Devices, NEW as \in SUBSET Addrs, Move(d, as)
  PROVE  /\ Undisturbed(p)' => Undisturbed(p) /\ d # Host[p] /\ Target(p) \notin at[d]
         /\ tale'[p].unasked = tale[p].unasked
<1>1. tale' = Unsettled({q \in Managers : d = Host[q] \/ Target(q) \in at[d]})
  BY DEF Move
<1> QED
  BY <1>1, UnsettledBy

(* An undisturbed probe was so before, and stays good. *)
LEMMA StepsKeepGood ==
  ASSUME TypeInv, NEW p \in Managers, Undisturbed(p) => Good(p), Undisturbed(p)', NEW m \in Managers,
         \/ Start(m) \/ Stop(m) \/ Broadcast(m) \/ Sweep(m)
         \/ ProbeSend(m) \/ ProbeFound(m) \/ ProbeMiss(m) \/ ProbeAgain(m) \/ ProbeGivesUp(m)
         \/ \E a \in Addrs : ProbeStart(m, a) /\ m # p
         \/ \E g \in net : Receive(m, g) \/ Ignore(m, g)
  PROVE  Good(p)'
<1>1. CASE Start(m) \/ \E a \in Addrs : ProbeStart(m, a) /\ m # p
  <2>1. Opened(m) /\ UNCHANGED <<at, net>>
    BY <1>1 DEF Start, ProbeStart
  <2>2. Undisturbed(p) /\ Host[p] # Host[m] /\ tale'[p].unasked = tale[p].unasked
    BY <1>1, OpenedTales
  <2>3. probe'[p] = probe[p] /\ m # p
    BY <1>1, <2>2 DEF Start, ProbeStart, TypeInv, ProbeTypes
  <2> QED
    BY <2>1, <2>2, <2>3, OpensKeepGood
<1>2. CASE Stop(m) \/ ProbeFound(m) \/ ProbeGivesUp(m)
  <2>1. Closed(m) /\ UNCHANGED at
    BY <1>2 DEF Stop, ProbeFound, ProbeGivesUp
  <2>2. Undisturbed(p) /\ Target(p) \notin Home(m) /\ tale'[p].unasked = tale[p].unasked
    BY <2>1, ClosedTales
  <2>3. Good(p)
    BY <2>2
  <2>4. CASE m # p
    <3>1. probe'[p] = probe[p]
      BY <1>2, <2>4 DEF Stop, ProbeFound, ProbeGivesUp, TypeInv, ProbeTypes
    <3> QED
      BY <2>1, <2>2, <2>3, <2>4, <3>1, ClosesKeepGood
  <2>5. CASE m = p /\ Stop(m)
    <3>1. ~Probing(p) /\ UNCHANGED probe
      BY <2>5 DEF Stop, TypeInv, ProbeTypes
    <3> QED
      BY <2>3, <3>1 DEF Good, Probing, Offline
  <2>6. CASE m = p /\ ProbeFound(m)
    <3>1. probe'[p].phase = "found"
      BY <2>6 DEF ProbeFound, TypeInv, ProbeTypes, Fields
    <3> QED
      BY <3>1 DEF Good, Probing, Offline
  <2>7. CASE m = p /\ ProbeGivesUp(m)
    <3>1. probe[p].phase = "delay" /\ probe[p].round = ProbeRounds
      BY <2>7 DEF ProbeGivesUp
    <3>2. tale[p].unasked >= ProbeRounds
      BY <2>3, <3>1 DEF Good, Pausing
    <3>3. tale[p].unasked < ProbeRounds /\ tale[p].unasked \in Nat
      BY <2>2 DEF Undisturbed, TypeInv, HistoryTypes, Tale
    <3> QED
      BY <3>2, <3>3, TimesAreNat
  <2> QED
    BY <1>2, <2>4, <2>5, <2>6, <2>7
<1>3. CASE Broadcast(m) \/ ((ProbeSend(m) \/ ProbeMiss(m) \/ ProbeAgain(m)) /\ m # p)
  <2>1. UNCHANGED <<up, at, echoed, table, tale>> /\ net \subseteq net'
    BY <1>3 DEF Broadcast, ProbeSend, ProbeMiss, ProbeAgain
  <2>2. Undisturbed(p)
    BY <2>1 DEF Undisturbed
  <2>3. probe'[p] = probe[p]
    BY <1>3 DEF Broadcast, ProbeSend, ProbeMiss, ProbeAgain, TypeInv, ProbeTypes
  <2> QED
    BY <2>1, <2>2, <2>3, SendsKeepGood
<1>4. CASE Sweep(m)
  <2>1. Undisturbed(p)
    BY <1>4 DEF Sweep, Undisturbed
  <2> QED
    BY <1>4, <2>1, SweepKeepsGood
<1>5. CASE (ProbeSend(m) \/ ProbeMiss(m) \/ ProbeAgain(m)) /\ m = p
  <2>1. Undisturbed(p)
    BY <1>5, OwnProbe DEF Undisturbed
  <2> QED
    BY <1>5, <2>1, SendIsGood, MissIsGood, AgainIsGood
<1>6. ASSUME NEW g \in net, Receive(m, g) PROVE Good(p)'
  <2>1. Undisturbed(p)
    BY <1>6, HeardTales DEF Undisturbed
  <2>2. CASE m # p
    BY <1>6, <2>1, <2>2, OtherHearsKeepsGood
  <2>3. CASE m = p
    BY <1>6, <2>1, <2>3, ProberHearsKeepsGood DEF Undisturbed
  <2> QED
    BY <2>2, <2>3
<1>7. ASSUME NEW g \in net, Ignore(m, g) PROVE Good(p)'
  <2>1. Undisturbed(p)
    BY <1>7 DEF Ignore, Undisturbed
  <2> QED
    BY <1>7, <2>1, DropKeepsGood
<1> QED
  BY <1>1, <1>2, <1>3, <1>4, <1>5, <1>6, <1>7

LEMMA FoundInductive == TypeInv /\ FoundInv /\ [Next]_vars => FoundInv'
<1> SUFFICES ASSUME TypeInv, FoundInv, [Next]_vars, NEW p \in Managers, Undisturbed(p)'
             PROVE  Good(p)'
  BY DEF FoundInv
<1>1. Undisturbed(p) => Good(p)
  BY DEF FoundInv
<1>2. ASSUME NEW a \in Addrs, ProbeStart(p, a) PROVE Good(p)'
  BY <1>2, StartIsGood
<1>3. ASSUME NEW m \in Managers,
             \/ Start(m) \/ Stop(m) \/ Broadcast(m) \/ Sweep(m)
             \/ ProbeSend(m) \/ ProbeFound(m) \/ ProbeMiss(m) \/ ProbeAgain(m) \/ ProbeGivesUp(m)
             \/ \E g \in net : Receive(m, g) \/ Ignore(m, g)
      PROVE  Good(p)'
  BY <1>1, <1>3, StepsKeepGood
<1>4. ASSUME NEW m \in Managers, NEW a \in Addrs, ProbeStart(m, a) PROVE Good(p)'
  <2>1. CASE m = p
    BY <1>2, <1>4, <2>1
  <2>2. CASE m # p
    BY <1>1, <1>4, <2>2, StepsKeepGood
  <2> QED
    BY <2>1, <2>2
<1>5. ASSUME NEW g \in net, Lose(g) PROVE Good(p)'
  <2>1. /\ tale[p].clean /\ tale[p].quiet /\ ~tale[p].other
        /\ tale[p].unheard \in Nat /\ tale[p].unasked \in Nat
        /\ tale'[p].unasked = IF Asks(p, g) THEN tale[p].unasked + 1 ELSE tale[p].unasked
        /\ tale'[p].unheard = IF Answers(p, g) THEN tale[p].unheard + 1 ELSE tale[p].unheard
    BY <1>5, LostTales DEF Undisturbed
  <2>2. tale'[p].unheard = 0 /\ tale'[p].unasked < ProbeRounds
    BY DEF Undisturbed
  <2>3. tale[p].unheard = 0 /\ tale[p].unasked < ProbeRounds
    BY <2>1, <2>2, TimesAreNat
  <2>4. Undisturbed(p)
    BY <2>1, <2>3 DEF Undisturbed
  <2> QED
    BY <1>1, <1>5, <2>2, <2>4, LoseKeepsGood
<1>6. ASSUME NEW g \in net, Unreachable(g) PROVE Good(p)'
  <2>1. Undisturbed(p)
    BY <1>6 DEF Unreachable, Undisturbed
  <2> QED
    BY <1>1, <1>6, <2>1, DropKeepsGood
<1>7. ASSUME NEW d \in Devices, NEW as \in SUBSET Addrs, Move(d, as) PROVE Good(p)'
  BY <1>1, <1>7, MovedTales, MoveKeepsGood
<1>8. CASE Tick
  <2>1. Undisturbed(p)
    BY <1>8 DEF Tick, Undisturbed
  <2> QED
    BY <1>1, <1>8, <2>1, TickKeepsGood
<1>9. CASE UNCHANGED vars
  <2>1. UNCHANGED <<up, at, echoed, probe, table, net, tale>>
    BY <1>9 DEF vars
  <2>2. Undisturbed(p)
    BY <2>1 DEF Undisturbed
  <2> QED
    BY <1>1, <2>1, <2>2, SendsKeepGood
<1> QED
  BY <1>3, <1>4, <1>5, <1>6, <1>7, <1>8, <1>9 DEF Next

LEMMA FoundInitially == Init => FoundInv
  BY DEF Init, FoundInv, Undisturbed, NoTale

(* probe_peer: whatever the two devices' broadcasts, sweeps, echoes, other     *)
(* probes and other peers do meanwhile, a probe of a device that stays online, *)
(* that owed it an echo and is heard from the probed address only, ends with   *)
(* "offline" only if an answer was lost, or as many of its own beacons as it   *)
(* has rounds.                                                                 *)
THEOREM RoundsAlwaysMakeUpForLoss == Spec => []RoundsMakeUpForLoss
  BY TypesInitially, TypesInductive, FoundInitially, FoundInductive, GoodIsFound, PTL DEF Spec
===============================================================================
