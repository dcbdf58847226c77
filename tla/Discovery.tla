------------------------------- MODULE Discovery -------------------------------
(* Peer discovery on the LAN (core/src/discovery.rs, core/src/network/udp.rs):  *)
(* every manager multicasts a beacon now and then, answers a beacon it hears   *)
(* with a unicast echo (throttled per source), keeps a table of the peers it   *)
(* heard and sweeps the silent ones out of it.  A probe looks for one address  *)
(* by unicast, in rounds, and punishes a failure with a cooldown.              *)
(* A device has an address on every network it is in, and a manager a socket   *)
(* for each: it sends on all of them.                                          *)
(*                                                                             *)
(* Time is discrete: a datagram arrives, is lost or finds no socket before the *)
(* next tick, and everything that is due happens before it.  Ages saturate at  *)
(* the duration they are compared with, so time itself has no bound.           *)
EXTENDS Naturals, FiniteSets

CONSTANTS
  Devices, Addrs,
  Managers,      (* DiscoveryManager instances                                 *)
  Prober,        (* the managers made by probe_peer, which start with a probe  *)
  Host,          (* [Managers -> Devices]                                      *)
  Subnet,        (* [Addrs -> a subnet]: multicast does not leave it           *)
  Places,        (* which addresses the devices may have at first              *)
  NoEntry,
  EchoThrottle, StabilityWindow, FastBcast, SlowBcast, SweepEvery, PeerTtl,
  ProbeRounds, ProbePolls, PollEvery, RoundDelay, ProbeBackoff,
  MaxLoss, MaxMoves, MaxStarts   (* bounds only *)

(* The pause after a round of a probe doubles. *)
RoundPause(r) == RoundDelay * 2 ^ (r - 1)

(* At least one address each, and none of another device. *)
MayBeAt(f) ==
  /\ f \in [Devices -> (SUBSET Addrs) \ {{}}]
  /\ \A d, e \in Devices : d # e => f[d] \cap f[e] = {}

ASSUME TimesAreSane ==
  /\ {EchoThrottle, StabilityWindow, PeerTtl, ProbeBackoff, RoundDelay} \subseteq Nat
  /\ {FastBcast, SlowBcast, SweepEvery, ProbeRounds, ProbePolls, PollEvery} \subseteq Nat \ {0}
  /\ {MaxLoss, MaxMoves, MaxStarts} \subseteq Nat
  /\ \A r \in 1..ProbeRounds : RoundPause(r) \in {n \in Nat : n + PollEvery < PeerTtl}
ASSUME PlacesAreSane ==
  /\ Prober \subseteq Managers /\ Host \in [Managers -> Devices]
  /\ DOMAIN Subnet = Addrs /\ \A f \in Places : MayBeAt(f)
  /\ Managers \cap Addrs = {} /\ NoEntry \notin [addr : Addrs, age : 0..PeerTtl]

VARIABLES
  up,       (* managers whose tasks run                                        *)
  at,       (* addresses of each device                                       *)
  table,    (* peers: device -> first address heard, time since last heard    *)
  echoed,   (* last_echo: time since the last echo to an address               *)
  active,   (* time since last_activity                                        *)
  bcast,    (* time until the broadcaster sends                                *)
  sweep,    (* time until the cleanup ticks                                    *)
  net,      (* beacons on their way                                            *)
  probe,    (* the probe a manager runs                                        *)
  cool,     (* probe_backoff: what is left of an address's cooldown            *)
  tale,     (* history: what has befallen the probe of a manager              *)
  lost, moves, starts
vars == <<up, at, table, echoed, active, bcast, sweep, net, probe, cool, tale, lost, moves, starts>>
timers == <<active, bcast, sweep>>
counters == <<lost, moves, starts>>

Entry == [addr : Addrs, age : 0..PeerTtl]
(* A beacon: whose, from which address, to a manager (a copy of a multicast)  *)
(* or to an address (unicast).                                                *)
Beacon == [dev : Devices, src : Addrs, to : Managers \cup Addrs]
NoProbe == [phase |-> "none", target |-> "none", round |-> 0, polls |-> 0, wait |-> 0]

(* clean: its target was online, neither end has moved, stopped or got a      *)
(* sibling at the prober's side since; quiet: the target owed it an echo when *)
(* it began; other: it heard its target from another address; unasked and     *)
(* unheard: beacons from the prober to the target, and back, that were lost.  *)
Tale == [clean : BOOLEAN, quiet : BOOLEAN, other : BOOLEAN, unasked : Nat, unheard : Nat]
NoTale == [clean |-> FALSE, quiet |-> FALSE, other |-> FALSE, unasked |-> 0, unheard |-> 0]

Peers(m) == {d \in Devices : table[m][d] # NoEntry}
Home(m) == at[Host[m]]
Target(m) == probe[m].target
Reached(a) == {m \in up : a \in Home(m)}
Minus1(n) == IF n = 0 THEN 0 ELSE n - 1
Aged(n, most) == IF n < most THEN n + 1 ELSE most

(* What a manager sends to an address: a datagram by each socket.  They are   *)
(* bound to the port and to no address, and the system chooses the source.    *)
Sources(m) == (SUBSET Home(m)) \ {{}}
Unicast(m, a, srcs) == {[dev |-> Host[m], src |-> s, to |-> a] : s \in srcs}

Init ==
  /\ up = {} /\ at \in Places /\ net = {}
  /\ table = [m \in Managers |-> [d \in Devices |-> NoEntry]]
  /\ echoed = [m \in Managers |-> [a \in Addrs |-> EchoThrottle]]
  /\ active = [m \in Managers |-> 0]
  /\ bcast = [m \in Managers |-> 0]
  /\ sweep = [m \in Managers |-> 0]
  /\ probe = [m \in Managers |-> NoProbe]
  /\ cool = [a \in Addrs |-> 0]
  /\ tale = [m \in Managers |-> NoTale]
  /\ lost = 0 /\ moves = 0 /\ starts = 0

(* History of probes that a step unsettles. *)
Unsettled(ps) == [p \in Managers |-> [tale[p] EXCEPT !.clean = @ /\ p \notin ps]]

(* The broadcaster's next sleep, chosen before it sleeps. *)
BroadcastInterval(m) ==
  IF Peers(m) = {} \/ active[m] < StabilityWindow THEN FastBcast ELSE SlowBcast

-------------------------------------------------------------------------------
(* Managers. *)

(* A new manager: DiscoveryManager::new, then start. *)
Opened(m) ==
  /\ starts < MaxStarts /\ m \notin up
  /\ starts' = starts + 1
  /\ up' = up \cup {m}
  /\ table' = [table EXCEPT ![m] = [d \in Devices |-> NoEntry]]
  /\ echoed' = [echoed EXCEPT ![m] = [a \in Addrs |-> EchoThrottle]]
  /\ active' = [active EXCEPT ![m] = 0]
  /\ bcast' = [bcast EXCEPT ![m] = FastBcast]
  /\ sweep' = [sweep EXCEPT ![m] = 0]

Start(m) ==
  /\ m \notin Prober
  /\ Opened(m)
  /\ tale' = Unsettled({p \in Managers : Host[p] = Host[m]})
  /\ UNCHANGED <<at, net, probe, cool, lost, moves>>

(* Its tasks are aborted, its sockets closed and its tables dropped; copies   *)
(* for it go nowhere.                                                         *)
Closed(m) ==
  /\ up' = up \ {m}
  /\ net' = {g \in net : g.to # m}
  /\ table' = [table EXCEPT ![m] = [d \in Devices |-> NoEntry]]
  /\ echoed' = [echoed EXCEPT ![m] = [a \in Addrs |-> EchoThrottle]]
  /\ active' = [active EXCEPT ![m] = 0]
  /\ bcast' = [bcast EXCEPT ![m] = 0]
  /\ sweep' = [sweep EXCEPT ![m] = 0]
  /\ tale' = Unsettled({p \in Managers : Target(p) \in Home(m)})

Stop(m) ==
  /\ m \in up \ Prober
  /\ Closed(m)
  /\ UNCHANGED <<at, probe, cool, counters>>

(* broadcast_beacon on all sockets, then the interval of the next one.  Each  *)
(* copy stays in the network of its interface; the receiver ignores its own.  *)
Broadcast(m) ==
  /\ m \in up /\ bcast[m] = 0
  /\ net' = net \cup UNION {Unicast(m, r, {s \in Home(m) : \E a \in Home(r) : Subnet[a] = Subnet[s]}) :
                             r \in {r \in up : Host[r] # Host[m]}}
  /\ bcast' = [bcast EXCEPT ![m] = BroadcastInterval(m)]
  /\ UNCHANGED <<up, at, table, echoed, active, sweep, probe, cool, tale, counters>>

(* Mutants. *)
MayEchoAlways(m, a) == TRUE
HeardAtSocket(m, g) == [addr |-> g.to, age |-> 0]
HeardKeepsAge(m, g) ==
  IF table[m][g.dev] # NoEntry THEN table[m][g.dev] ELSE [addr |-> g.src, age |-> 0]

(* The echo of a beacon: to its source, unless one went there lately. *)
MayEcho(m, a) == echoed[m][a] >= EchoThrottle
Echo(m, a, srcs) == IF MayEcho(m, a) THEN Unicast(m, a, srcs) ELSE {}

(* A known peer is only refreshed: its address stays the first one heard. *)
Heard(m, g) ==
  IF table[m][g.dev] # NoEntry THEN [table[m][g.dev] EXCEPT !.age = 0]
                               ELSE [addr |-> g.src, age |-> 0]

Arrives(m, g) == m \in up /\ g \in net /\ (g.to = m \/ m \in Reached(g.to))

Receive(m, g) ==
  /\ Arrives(m, g) /\ g.dev # Host[m]
  /\ active' = [active EXCEPT ![m] = 0]
  /\ \E srcs \in Sources(m) : net' = (net \ {g}) \cup Echo(m, g.src, srcs)
  /\ echoed' = IF MayEcho(m, g.src) THEN [echoed EXCEPT ![m][g.src] = 0] ELSE echoed
  /\ table' = [table EXCEPT ![m][g.dev] = Heard(m, g)]
  /\ tale' = [tale EXCEPT ![m].other = @ \/ (Target(m) \in at[g.dev] /\ g.src # Target(m))]
  /\ UNCHANGED <<up, at, bcast, sweep, probe, cool, counters>>

(* A beacon of one's own device. *)
Ignore(m, g) ==
  /\ Arrives(m, g) /\ g.dev = Host[m]
  /\ net' = net \ {g}
  /\ UNCHANGED <<up, at, table, echoed, timers, probe, cool, tale, counters>>

Asks(p, g) == g.dev = Host[p] /\ g.to = Target(p)
Answers(p, g) == Target(p) \in at[g.dev] /\ g.to \in {p} \cup Home(p)

(* Lost on the way, or with the socket reads that recv_beacon aborts when     *)
(* another socket of the same manager answers first.                          *)
Lose(g) ==
  /\ g \in net /\ lost < MaxLoss
  /\ lost' = lost + 1
  /\ net' = net \ {g}
  /\ tale' = [p \in Managers |-> [tale[p] EXCEPT !.unasked = IF Asks(p, g) THEN @ + 1 ELSE @,
                                               !.unheard = IF Answers(p, g) THEN @ + 1 ELSE @]]
  /\ UNCHANGED <<up, at, table, echoed, timers, probe, cool, moves, starts>>

(* A unicast to an address nobody listens at any more. *)
Unreachable(g) ==
  /\ g \in net /\ g.to \in Addrs /\ Reached(g.to) = {}
  /\ net' = net \ {g}
  /\ UNCHANGED <<up, at, table, echoed, timers, probe, cool, tale, counters>>

SweepOneTooLate(m) ==
  /\ m \in up /\ sweep[m] = 0
  /\ table' = [table EXCEPT ![m] = [d \in Devices |->
                 IF d \in Peers(m) /\ table[m][d].age <= PeerTtl THEN table[m][d] ELSE NoEntry]]
  /\ sweep' = [sweep EXCEPT ![m] = SweepEvery]
  /\ UNCHANGED <<up, at, echoed, active, bcast, net, probe, cool, tale, counters>>

(* The cleanup drops who was not heard for peer_ttl. *)
Sweep(m) ==
  /\ m \in up /\ sweep[m] = 0
  /\ table' = [table EXCEPT ![m] = [d \in Devices |->
                 IF d \in Peers(m) /\ table[m][d].age < PeerTtl THEN table[m][d] ELSE NoEntry]]
  /\ sweep' = [sweep EXCEPT ![m] = SweepEvery]
  /\ UNCHANGED <<up, at, echoed, active, bcast, net, probe, cool, tale, counters>>

(* The device changes networks: a phone leaves the Wi-Fi, or opens a hotspot  *)
(* next to it.                                                                *)
Move(d, as) ==
  /\ moves < MaxMoves /\ as # at[d]
  /\ MayBeAt([at EXCEPT ![d] = as])
  /\ moves' = moves + 1
  /\ at' = [at EXCEPT ![d] = as]
  /\ tale' = Unsettled({p \in Managers : d = Host[p] \/ Target(p) \in at[d]})
  /\ UNCHANGED <<up, table, echoed, timers, net, probe, cool, lost, starts>>

-------------------------------------------------------------------------------
(* probe_peer, from a manager made for it. *)

Alone(m) == \A r \in up : Host[r] # Host[m]

(* In the cooldown of an address a probe returns None at once. *)
ProbeStart(m, a) ==
  /\ m \in Prober /\ cool[a] = 0
  /\ Opened(m)
  /\ probe' = [probe EXCEPT ![m] = [phase |-> "send", target |-> a, round |-> 1, polls |-> 0, wait |-> 0]]
  /\ tale' = [p \in Managers |->
                IF p = m THEN [NoTale EXCEPT !.clean = Alone(m) /\ a \notin Home(m) /\ Reached(a) # {},
                                             !.quiet = \A r \in Reached(a), s \in Home(m) : MayEcho(r, s)]
                         ELSE Unsettled({q \in Managers : Host[q] = Host[m]})[p]]
  /\ UNCHANGED <<at, net, cool, lost, moves>>

(* Mutant: only the first round sends. *)
ProbeSendsOnce(m) ==
  /\ probe[m].phase = "send"
  /\ \E srcs \in Sources(m) : net' = IF probe[m].round = 1 THEN net \cup Unicast(m, Target(m), srcs) ELSE net
  /\ probe' = [probe EXCEPT ![m].phase = "poll", ![m].polls = ProbePolls, ![m].wait = PollEvery]
  /\ UNCHANGED <<up, at, table, echoed, timers, cool, tale, counters>>

ProbeSend(m) ==
  /\ probe[m].phase = "send"
  /\ \E srcs \in Sources(m) : net' = net \cup Unicast(m, Target(m), srcs)
  /\ probe' = [probe EXCEPT ![m].phase = "poll", ![m].polls = ProbePolls, ![m].wait = PollEvery]
  /\ UNCHANGED <<up, at, table, echoed, timers, cool, tale, counters>>

Hit(m) == \E d \in Peers(m) : table[m][d].addr = Target(m)

ProbeFound(m) ==
  /\ probe[m].phase = "poll" /\ probe[m].wait = 0 /\ Hit(m)
  /\ probe' = [probe EXCEPT ![m].phase = "found"]
  /\ Closed(m)
  /\ UNCHANGED <<at, cool, counters>>

(* The pause is slept after the last round too. *)
ProbeMiss(m) ==
  /\ probe[m].phase = "poll" /\ probe[m].wait = 0 /\ ~Hit(m)
  /\ probe' = IF probe[m].polls > 1
                THEN [probe EXCEPT ![m].polls = @ - 1, ![m].wait = PollEvery]
                ELSE [probe EXCEPT ![m].phase = "delay", ![m].polls = 0,
                                   ![m].wait = RoundPause(probe[m].round)]
  /\ UNCHANGED <<up, at, table, echoed, timers, net, cool, tale, counters>>

ProbeAgain(m) ==
  /\ probe[m].phase = "delay" /\ probe[m].wait = 0 /\ probe[m].round < ProbeRounds
  /\ probe' = [probe EXCEPT ![m].phase = "send", ![m].round = @ + 1]
  /\ UNCHANGED <<up, at, table, echoed, timers, net, cool, tale, counters>>

ProbeGivesUp(m) ==
  /\ probe[m].phase = "delay" /\ probe[m].wait = 0 /\ probe[m].round = ProbeRounds
  /\ probe' = [probe EXCEPT ![m].phase = "offline"]
  /\ cool' = [cool EXCEPT ![Target(m)] = ProbeBackoff]
  /\ Closed(m)
  /\ UNCHANGED <<at, counters>>

-------------------------------------------------------------------------------
Due ==
  \/ net # {}
  \/ \E m \in up : bcast[m] = 0 \/ sweep[m] = 0
  \/ \E m \in Managers : probe[m].phase \in {"send", "poll", "delay"} /\ probe[m].wait = 0

Tick ==
  /\ ~Due
  /\ table' = [m \in Managers |-> [d \in Devices |->
                 IF d \in Peers(m) THEN [table[m][d] EXCEPT !.age = Aged(@, PeerTtl)] ELSE NoEntry]]
  /\ echoed' = [m \in Managers |-> [a \in Addrs |-> Aged(echoed[m][a], EchoThrottle)]]
  /\ active' = [m \in Managers |-> IF m \in up THEN Aged(active[m], StabilityWindow) ELSE 0]
  /\ bcast' = [m \in Managers |-> Minus1(bcast[m])]
  /\ sweep' = [m \in Managers |-> Minus1(sweep[m])]
  /\ probe' = [m \in Managers |-> [probe[m] EXCEPT !.wait = Minus1(@)]]
  /\ cool' = [a \in Addrs |-> Minus1(cool[a])]
  /\ UNCHANGED <<up, at, net, tale, counters>>

Next ==
  \/ \E m \in Managers :
       \/ Start(m) \/ Stop(m) \/ Broadcast(m) \/ Sweep(m)
       \/ ProbeSend(m) \/ ProbeFound(m) \/ ProbeMiss(m) \/ ProbeAgain(m) \/ ProbeGivesUp(m)
       \/ \E a \in Addrs : ProbeStart(m, a)
       \/ \E g \in net : Receive(m, g) \/ Ignore(m, g)
  \/ \E g \in net : Lose(g) \/ Unreachable(g)
  \/ \E d \in Devices, as \in SUBSET Addrs : Move(d, as)
  \/ Tick

Spec == Init /\ [][Next]_vars

(* Datagrams arrive, tasks run and time goes on. *)
Work ==
  \/ \E m \in Managers :
       \/ Broadcast(m) \/ Sweep(m)
       \/ ProbeSend(m) \/ ProbeFound(m) \/ ProbeMiss(m) \/ ProbeAgain(m) \/ ProbeGivesUp(m)
       \/ \E g \in net : Receive(m, g) \/ Ignore(m, g)
  \/ \E g \in net : Unreachable(g)
FairSpec == Spec /\ WF_vars(Work) /\ WF_vars(Tick)

-------------------------------------------------------------------------------
(* Properties. *)

TypeOK ==
  /\ up \subseteq Managers
  /\ MayBeAt(at)
  /\ table \in [Managers -> [Devices -> Entry \cup {NoEntry}]]
  /\ echoed \in [Managers -> [Addrs -> 0..EchoThrottle]]
  /\ active \in [Managers -> 0..StabilityWindow]
  /\ \A m \in Managers : bcast[m] \in Nat /\ sweep[m] \in 0..SweepEvery
  /\ net \subseteq Beacon
  /\ \A m \in Managers : probe[m].phase \in {"none", "send", "poll", "delay", "found", "offline"}
  /\ cool \in [Addrs -> 0..ProbeBackoff]
  /\ tale \in [Managers -> Tale]

(* A probe of a device that stays online, that owed it an echo and is heard   *)
(* from the probed address only, ends with "offline" and its cooldown only if *)
(* an answer was lost, or as many of the prober's own beacons as there are    *)
(* rounds: a round makes up for the probe that the one before lost.           *)
Offline(m) == probe[m].phase = "offline"
RoundsMakeUpForLoss ==
  \A m \in Managers : Offline(m) /\ tale[m].clean /\ tale[m].quiet /\ ~tale[m].other /\ tale[m].unheard = 0
                         => tale[m].unasked >= ProbeRounds

(* Two devices that answer each other's echoes fall silent: the exchange does *)
(* not go on for ever within a moment.                                        *)
EchoesDie == []<>(net = {} /\ ~Due)

(* Neighbours that keep running know each other in the end and for good, with *)
(* whatever was lost before and however slowly they broadcast.  (A prober does *)
(* not keep running.)                                                         *)
Neighbours(m, n) ==
  /\ {m, n} \subseteq up /\ Host[m] # Host[n]
  /\ \E a \in Home(m), b \in Home(n) : Subnet[a] = Subnet[b]
NeighboursKnowEachOther ==
  \A m, n \in Managers \ Prober : <>[]Neighbours(m, n) => <>[](Host[n] \in Peers(m))

(* A device that has gone leaves every table. *)
GonePeersGo ==
  \A m \in Managers \ Prober, d \in Devices :
    <>[](m \in up /\ \A n \in up : Host[n] # d) => <>[](d \notin Peers(m))
===============================================================================
