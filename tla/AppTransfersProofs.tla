-------------------------- MODULE AppTransfersProofs --------------------------
(* Proofs about the transfers of an app, for any number of calls, devices and  *)
(* addresses, without fairness.                                                *)
EXTENDS AppTransfers, FiniteSetTheorems, TLAPS

USE ConstantsAreSane

(* What a step of the task of c may make of the record. *)
LEMMA TasksAreTyped ==
  /\ NoTask \in Task /\ NoTask.got = NoFp /\ NoTask.cached = NoFp /\ NoTask.pc = "unused"
  /\ \A k \in Kinds \cup {"none"}, p \in {"over", "gone"} :
       LET t == [NoTask EXCEPT !.kind = k, !.pc = p] IN
         t \in Task /\ t.kind = k /\ t.pc = p /\ t.got = NoFp /\ t.cached = NoFp
  BY DEF NoTask, Task

-------------------------------------------------------------------------------
(* The pin. *)

PinTypes == task \in [Calls -> Task] /\ holder \in [Addrs -> Fps]

(* A call that was given a fingerprint and an address asks for that            *)
(* fingerprint, unless it is one that falls back, and never listens or meets   *)
(* at a rendezvous.                                                            *)
Given(t) == t.cached \in Fps /\ t.to # NoAddr
Asks(t) ==
  /\ t.pc = "accept" => t.kind = "listen"
  /\ t.pc = "start" /\ t.kind = "direct" => t.to \in Addrs
  /\ t.pc = "dial" => t.at \in Addrs
  /\ Given(t) => /\ t.kind \in {"direct", "connectWithFp"}
                 /\ t.pc = "dial" => t.pin = t.cached \/ (FallsBack(t) /\ t.pin = NoFp)
                 /\ t.got # NoFp => t.got = t.cached \/ FallsBack(t)

PinInv == PinTypes /\ \A c \in Calls : Asks(task[c])

(* The record of one call changes. *)
LEMMA OneTask ==
  ASSUME PinInv, NEW c \in Calls, NEW t \in Task, task' = [task EXCEPT ![c] = t], Asks(t),
         holder' \in [Addrs -> Fps], UNCHANGED bridge
  PROVE  PinInv'
<1>1. \A d \in Calls : Asks(task'[d])
  BY DEF PinInv, PinTypes
<1> QED
  BY <1>1 DEF PinInv, PinTypes, Asks, FallsBack

LEMMA EndsAsks ==
  ASSUME PinInv, NEW c \in Calls, NEW said, Ends(c, said), UNCHANGED <<holder, bridge>>
  PROVE  PinInv'
<1> DEFINE t == [NoTask EXCEPT !.kind = task[c].kind, !.pc = "over"]
<1>1. task[c].kind \in Kinds \cup {"none"}
  BY DEF PinInv, PinTypes, Task
<1>2. t \in Task /\ t.pc = "over" /\ t.cached = NoFp
  BY <1>1, TasksAreTyped
<1>3. Asks(t)
  BY <1>2 DEF Asks, Given
<1> QED
  BY <1>2, <1>3, OneTask DEF Ends, PinInv, PinTypes

LEMMA ReportsAsks ==
  ASSUME PinInv, NEW c \in Calls, NEW said, Reports(c, said), UNCHANGED <<holder, bridge>>
  PROVE  PinInv'
<1>1. CASE Ends(c, said)
  BY <1>1, EndsAsks
<1>2. CASE task[c].kind = "listen" /\ task' = [task EXCEPT ![c].pc = "start", ![c].got = NoFp]
  <2> DEFINE t == [task[c] EXCEPT !.pc = "start", !.got = NoFp]
  <2>1. task[c] \in Task /\ Asks(task[c])
    BY DEF PinInv, PinTypes
  <2>2. t \in Task /\ t.got = NoFp /\ t.cached = task[c].cached /\ t.to = task[c].to
        /\ t.kind = task[c].kind /\ t.pc = "start"
    BY <2>1 DEF Task
  <2>3. Asks(t)
    BY <1>2, <2>1, <2>2 DEF Asks, Given
  <2>4. task' = [task EXCEPT ![c] = t]
    BY <1>2 DEF PinInv, PinTypes
  <2> QED
    BY <2>2, <2>3, <2>4, OneTask DEF PinInv, PinTypes
<1> QED
  BY <1>1, <1>2 DEF Reports

LEMMA SpawnAsks ==
  ASSUME PinInv, NEW c \in Calls, NEW k \in Kinds, NEW a \in Addrs \cup {NoAddr},
         NEW fp \in Fps \cup {NoFp}, Spawn(c, k, a, fp),
         fp \in Fps => k \in {"direct", "connectWithFp"}, k = "direct" => a \in Addrs
  PROVE  PinInv'
<1> DEFINE t == [NoTask EXCEPT !.kind = k, !.pc = "start", !.to = a, !.cached = fp]
<1>1. t \in Task /\ t.kind = k /\ t.pc = "start" /\ t.to = a /\ t.cached = fp /\ t.got = NoFp
  BY DEF NoTask, Task
<1>2. Asks(t)
  BY <1>1 DEF Asks, Given
<1>3. task' = [task EXCEPT ![c] = t] /\ UNCHANGED <<holder, bridge>>
  BY DEF Spawn, world
<1> QED
  BY <1>1, <1>2, <1>3, OneTask DEF PinInv, PinTypes

LEMMA AppAsks ==
  ASSUME PinInv, NEW c \in Calls, App(c)
  PROVE  PinInv'
<1>1. {"listen", "connect", "connectWithFp", "direct", "pairReceive", "pairSend"} = Kinds
  BY DEF Kinds
<1>2. CASE StartListener(c) \/ PairRendezvous(c) \/ PairSend(c)
  BY <1>1, <1>2, SpawnAsks DEF StartListener, PairRendezvous, PairSend
<1>3. CASE Connect(c)
  <2>1. PICK a \in Addrs \cup {NoAddr} : Spawn(c, "connect", a, NoFp)
    BY <1>3 DEF Connect
  <2> QED
    BY <1>1, <2>1, SpawnAsks
<1>4. CASE ConnectDirect(c) \/ ConnectWithFp(c)
  <2>1. PICK a \in Addrs \cup {NoAddr}, fp \in Fps \cup {NoFp} :
          (a \in Addrs /\ Spawn(c, "direct", a, fp)) \/ Spawn(c, "connectWithFp", a, fp)
    BY <1>4 DEF ConnectDirect, ConnectWithFp
  <2> QED
    BY <1>1, <2>1, SpawnAsks
<1> QED
  BY <1>2, <1>3, <1>4 DEF App

(* resolve: a fingerprint that was given is not replaced by a beacon's. *)
LEMMA ResolveAsks ==
  ASSUME PinInv, NEW c \in Calls, Resolve(c)
  PROVE  PinInv'
<1>1. UNCHANGED <<holder, bridge>> /\ task[c].pc = "start" /\ task[c].kind \in {"connect", "connectWithFp", "direct"}
  BY DEF Resolve, world
<1>2. task[c] \in Task /\ Asks(task[c]) /\ holder \in [Addrs -> Fps]
  BY DEF PinInv, PinTypes
<1>3. CASE Ends(c, <<Failed>>)
  BY <1>1, <1>3, EndsAsks
<1>4. ASSUME NEW x \in Targets(task[c]),
             task' = [task EXCEPT ![c].pc = "dial", ![c].at = x[1], ![c].pin = x[2]]
      PROVE  PinInv'
  <2> DEFINE t == [task[c] EXCEPT !.pc = "dial", !.at = x[1], !.pin = x[2]]
  <2>1. /\ x[1] \in Addrs /\ x[2] \in Fps \cup {NoFp}
        /\ Given(task[c]) => x[2] = task[c].cached
    <3>1. \A a \in Addrs \cup {NoAddr} : \A y \in Beacons(a) : y[1] \in Addrs /\ y[2] \in Fps
      BY <1>2 DEF Beacons
    <3>2. task[c].to \in Addrs \cup {NoAddr} /\ task[c].cached \in Fps \cup {NoFp}
      BY <1>2 DEF Task
    <3>3. CASE task[c].kind = "direct"
      BY <1>1, <1>2, <3>2, <3>3 DEF Targets, Asks
    <3>4. CASE task[c].kind = "connectWithFp"
      BY <3>1, <3>2, <3>4 DEF Targets, Given
    <3>5. CASE task[c].kind = "connect"
      BY <1>2, <3>1, <3>2, <3>5 DEF Targets, Asks
    <3> QED
      BY <1>1, <3>3, <3>4, <3>5
  <2>2. t \in Task /\ t.pc = "dial" /\ t.pin = x[2] /\ t.at = x[1] /\ t.kind = task[c].kind /\ t.to = task[c].to
        /\ t.cached = task[c].cached /\ t.got = task[c].got
    BY <1>2, <2>1 DEF Task
  <2>3. Asks(t)
    BY <1>1, <1>2, <2>1, <2>2 DEF Asks, Given, FallsBack
  <2>4. task' = [task EXCEPT ![c] = t]
    BY <1>4 DEF PinInv, PinTypes
  <2> QED
    BY <1>1, <1>2, <2>2, <2>3, <2>4, OneTask
<1> QED
  BY <1>3, <1>4 DEF Resolve

(* A connection is with a device whose certificate passed. *)
LEMMA MeetAsks ==
  ASSUME PinInv, NEW c \in Calls, Dial(c) \/ Meet(c) \/ Accept(c)
  PROVE  PinInv'
<1>1. UNCHANGED <<holder, bridge>>
  BY DEF Dial, Meet, Accept, world
<1>2. task[c] \in Task /\ Asks(task[c]) /\ holder \in [Addrs -> Fps]
  BY DEF PinInv, PinTypes
<1>3. CASE Ends(c, <<Failed>>)
  BY <1>1, <1>3, EndsAsks
<1>4. ASSUME NEW f \in Fps, task' = [task EXCEPT ![c].pc = "move", ![c].got = f],
             Given(task[c]) => f = task[c].cached \/ FallsBack(task[c])
      PROVE  PinInv'
  <2> DEFINE t == [task[c] EXCEPT !.pc = "move", !.got = f]
  <2>1. t \in Task /\ t.pc = "move" /\ t.kind = task[c].kind /\ t.to = task[c].to
        /\ t.cached = task[c].cached /\ t.got = f
    BY <1>2 DEF Task
  <2>2. Asks(t)
    BY <1>2, <1>4, <2>1 DEF Asks, Given, FallsBack
  <2>3. task' = [task EXCEPT ![c] = t]
    BY <1>4 DEF PinInv, PinTypes
  <2> QED
    BY <1>1, <1>2, <2>1, <2>2, <2>3, OneTask
<1>5. CASE Dial(c) /\ ~Ends(c, <<Failed>>)
  <2>1. /\ task' = [task EXCEPT ![c].pc = "move", ![c].got = holder[task[c].at]]
        /\ task[c].pc = "dial" /\ task[c].pin \in {NoFp, holder[task[c].at]}
    BY <1>5 DEF Dial, Accepts
  <2>2. Given(task[c]) => holder[task[c].at] = task[c].cached \/ FallsBack(task[c])
    BY <1>2, <2>1 DEF Asks, Given
  <2>3. holder[task[c].at] \in Fps
    BY <1>2, <2>1 DEF Asks
  <2> QED
    BY <1>4, <2>1, <2>2, <2>3
<1>6. CASE (Meet(c) \/ Accept(c)) /\ ~Ends(c, <<Failed>>)
  <2>1. PICK f \in Fps : task' = [task EXCEPT ![c].pc = "move", ![c].got = f]
    BY <1>6 DEF Meet, Accept
  <2>2. ~Given(task[c])
    BY <1>2, <1>6 DEF Meet, Accept, Asks
  <2> QED
    BY <1>4, <2>1, <2>2
<1> QED
  BY <1>3, <1>5, <1>6

(* The transfer starts, or the connection is made again without a pin.         *)
LEMMA GoesOnAsks ==
  ASSUME PinInv, NEW c \in Calls, FallBack(c) \/ Begin(c)
  PROVE  PinInv'
<1>1. task[c] \in Task /\ Asks(task[c]) /\ UNCHANGED <<holder, bridge>>
  BY DEF PinInv, PinTypes, FallBack, Begin, world
<1>2. CASE FallBack(c)
  <2> DEFINE t == [task[c] EXCEPT !.pin = NoFp]
  <2>1. t \in Task /\ t.pc = "dial" /\ t.pin = NoFp /\ t.at = task[c].at /\ t.kind = task[c].kind
        /\ t.to = task[c].to /\ t.cached = task[c].cached /\ t.got = task[c].got
    BY <1>1, <1>2 DEF FallBack, Task
  <2>2. Asks(t)
    BY <1>1, <1>2, <2>1 DEF FallBack, Asks, Given, FallsBack
  <2>3. task' = [task EXCEPT ![c] = t]
    BY <1>2 DEF FallBack, PinInv, PinTypes
  <2> QED
    BY <1>1, <2>1, <2>2, <2>3, OneTask DEF PinInv, PinTypes
<1>3. CASE Begin(c)
  <2> DEFINE t == [task[c] EXCEPT !.pc = "moving"]
  <2>1. t \in Task /\ t.pc = "moving" /\ t.kind = task[c].kind
        /\ t.to = task[c].to /\ t.cached = task[c].cached /\ t.got = task[c].got
    BY <1>1 DEF Task
  <2>2. Asks(t)
    BY <1>1, <2>1 DEF Asks, Given, FallsBack
  <2>3. task' = [task EXCEPT ![c] = t]
    BY <1>3 DEF Begin, PinInv, PinTypes
  <2> QED
    BY <1>1, <2>1, <2>2, <2>3, OneTask DEF PinInv, PinTypes
<1> QED
  BY <1>2, <1>3

(* A task that is dropped forgets what it had. *)
LEMMA DiesAsks ==
  ASSUME PinInv, NEW c \in Calls, Dies(c)
  PROVE  PinInv'
<1> DEFINE t == [NoTask EXCEPT !.kind = task[c].kind, !.pc = "gone"]
<1>1. task[c].kind \in Kinds \cup {"none"}
  BY DEF PinInv, PinTypes, Task
<1>2. t \in Task /\ t.pc = "gone" /\ t.cached = NoFp
  BY <1>1, TasksAreTyped
<1>3. Asks(t)
  BY <1>2 DEF Asks, Given
<1> QED
  BY <1>2, <1>3, OneTask DEF Dies, PinInv, PinTypes, world

(* The address of a device that is asked for may change hands. *)
LEMMA ShiftAsks ==
  ASSUME PinInv, Shift
  PROVE  PinInv'
<1>1. UNCHANGED <<task, bridge>>
  BY DEF Shift
<1>2. holder' \in [Addrs -> Fps]
  <2>1. CASE UNCHANGED holder
    BY <2>1 DEF PinInv, PinTypes
  <2>2. CASE \E a \in Addrs : \E f \in Fps : holder' = [holder EXCEPT ![a] = f]
    BY <2>2 DEF PinInv, PinTypes
  <2> QED
    BY <2>1, <2>2 DEF Shift
<1> QED
  BY <1>1, <1>2 DEF PinInv, PinTypes, Asks, FallsBack

LEMMA PinInductive == PinInv /\ [Next]_vars => PinInv'
<1> SUFFICES ASSUME PinInv, [Next]_vars PROVE PinInv'
  OBVIOUS
<1>1. ASSUME UNCHANGED <<task, holder, bridge>> PROVE PinInv'
  BY <1>1 DEF PinInv, PinTypes, Asks, FallsBack
<1>2. CASE Cancel \/ UNCHANGED vars
  BY <1>1, <1>2 DEF Cancel, vars, world
<1>3. ASSUME NEW c \in Calls, CallerStep(c) \/ Drained(c) PROVE PinInv'
  <2>1. CASE Track(c) \/ Drain(c) \/ Forget(c)
    BY <1>1, <2>1 DEF Track, Drain, Forget, world
  <2>2. CASE Drained(c)
    BY <1>1, <2>2 DEF Drained, world
  <2> QED
    BY <1>3, <2>1, <2>2 DEF CallerStep
<1>4. ASSUME NEW c \in Calls, TaskStep(c) PROVE PinInv'
  <2>1. CASE Bind(c)
    <3>1. UNCHANGED <<holder, bridge>>
      BY <2>1 DEF Bind, world
    <3>2. CASE Ends(c, <<Failed>>)
      BY <3>1, <3>2, EndsAsks
    <3>3. CASE task[c].kind = "listen" /\ task' = [task EXCEPT ![c].pc = "accept"]
      <4> DEFINE t == [task[c] EXCEPT !.pc = "accept"]
      <4>1. task[c] \in Task /\ Asks(task[c])
        BY DEF PinInv, PinTypes
      <4>2. t \in Task /\ t.pc = "accept" /\ t.kind = task[c].kind /\ t.to = task[c].to
            /\ t.cached = task[c].cached /\ t.got = task[c].got
        BY <4>1 DEF Task
      <4>3. Asks(t)
        BY <3>3, <4>1, <4>2 DEF Asks, Given, FallsBack
      <4>4. task' = [task EXCEPT ![c] = t]
        BY <3>3 DEF PinInv, PinTypes
      <4> QED
        BY <3>1, <4>2, <4>3, <4>4, OneTask DEF PinInv, PinTypes
    <3> QED
      BY <2>1, <3>2, <3>3 DEF Bind
  <2>2. CASE Refuse(c)
    BY <2>2, ReportsAsks DEF Refuse, world
  <2> QED
    BY <1>4, <2>1, <2>2, ResolveAsks, MeetAsks, GoesOnAsks DEF TaskStep
<1>5. ASSUME NEW c \in Calls, Move(c) PROVE PinInv'
  BY <1>5, ReportsAsks DEF Move, world
<1> QED
  BY <1>2, <1>3, <1>4, <1>5, AppAsks, MeetAsks, DiesAsks, ShiftAsks DEF Next

LEMMA PinInitially == Init => PinInv
<1> SUFFICES ASSUME Init PROVE PinInv
  OBVIOUS
<1>1. Asks(NoTask)
  BY DEF Asks, Given, NoTask
<1> QED
  BY <1>1, TasksAreTyped DEF Init, PinInv, PinTypes

-------------------------------------------------------------------------------
(* The handle. *)

EventSeqs == Seq(Event)
SaysDone(s) == \E i \in DOMAIN s : s[i].type # "fingerprint"

LEMMA Saying ==
  /\ <<>> \in EventSeqs /\ ~SaysDone(<<>>)
  /\ Ok \in Event /\ Failed \in Event
  /\ \A f \in Fps : [type |-> "fingerprint", fp |-> f] \in Event
  BY DEF EventSeqs, SaysDone, Event, Ok, Failed

LEMMA SayingMore ==
  ASSUME NEW s \in EventSeqs
  PROVE  /\ \A said \in EventSeqs : s \o said \in EventSeqs
         /\ \A f \in Fps : LET t == Append(s, [type |-> "fingerprint", fp |-> f]) IN
                              t \in EventSeqs /\ (SaysDone(t) => SaysDone(s))
         /\ s # <<>> => /\ Tail(s) \in EventSeqs /\ (SaysDone(Tail(s)) => SaysDone(s))
                        /\ Head(s).type # "fingerprint" => SaysDone(s)
<1>1. \A said \in EventSeqs : s \o said \in EventSeqs
  BY DEF EventSeqs
<1>2. ASSUME NEW f \in Fps
      PROVE  LET t == Append(s, [type |-> "fingerprint", fp |-> f]) IN
               t \in EventSeqs /\ (SaysDone(t) => SaysDone(s))
  <2> DEFINE t == Append(s, [type |-> "fingerprint", fp |-> f])
  <2>1. t \in EventSeqs
    BY Saying DEF EventSeqs
  <2>2. \A i \in DOMAIN t : (i \in DOMAIN s /\ t[i] = s[i]) \/ t[i].type = "fingerprint"
    BY DEF EventSeqs
  <2> QED
    BY <2>1, <2>2 DEF SaysDone
<1>3. ASSUME s # <<>>
      PROVE  /\ Tail(s) \in EventSeqs /\ (SaysDone(Tail(s)) => SaysDone(s))
             /\ Head(s).type # "fingerprint" => SaysDone(s)
  <2>1. Tail(s) \in EventSeqs /\ 1 \in DOMAIN s /\ Head(s) = s[1]
    BY <1>3 DEF EventSeqs
  <2>2. \A i \in DOMAIN Tail(s) : i + 1 \in DOMAIN s /\ Tail(s)[i] = s[i + 1]
    BY <1>3 DEF EventSeqs
  <2> QED
    BY <2>1, <2>2 DEF SaysDone
<1> QED
  BY <1>1, <1>2, <1>3

CallTypes ==
  /\ chan \in [Calls -> EventSeqs] /\ alone \in [Calls -> BOOLEAN]
  /\ caller \in [Calls -> {"none", "spawned", "drain", "forget", "returned"}]

(* Only a JNI caller waits; it goes on when its task is over.                  *)
Waiting(c) ==
  /\ caller[c] = "none" => task[c].pc = "unused" /\ chan[c] = <<>>
  /\ caller[c] \in {"drain", "forget"} => bridge = "jni"
  /\ bridge = "jni" /\ SaysDone(chan[c]) => ~Alive(c)
  /\ caller[c] = "forget" => ~Alive(c)

(* Nothing runs beside a call that is alone. *)
Quiet(c) ==
  alone[c] => \A o \in Calls \ {c} : ~Alive(o) /\ caller[o] \in {"none", "returned"}

ActiveInv ==
  /\ CallTypes /\ (\A c \in Calls : Waiting(c) /\ Quiet(c))
  /\ SoleTransferIsActive

IInv == PinInv /\ ActiveInv

(* The task of one call goes on, or ends. *)
LEMMA OneMoves ==
  ASSUME IInv, PinTypes', NEW c \in Calls, Alive(c), UNCHANGED <<bridge, calling>>,
         chan' \in [Calls -> EventSeqs],
         \A d \in Calls \ {c} : task'[d] = task[d] /\ chan'[d] = chan[d],
         bridge = "jni" /\ SaysDone(chan'[c]) => ~Alive(c)'
  PROVE  ActiveInv'
<1>1. UNCHANGED <<bridge, caller, active, doomed, alone>>
  BY DEF calling
<1>2. \A d \in Calls : Alive(d)' => Alive(d)
  BY DEF Alive
<1>3. CallTypes'
  BY <1>1 DEF IInv, ActiveInv, CallTypes
<1>4. ASSUME NEW d \in Calls PROVE Waiting(d)'
  <2>1. Waiting(d)
    BY DEF IInv, ActiveInv
  <2>2. CASE d = c
    BY <1>1, <2>1, <2>2 DEF Waiting, Alive
  <2>3. CASE d # c
    BY <1>1, <2>1, <2>3 DEF Waiting, Alive
  <2> QED
    BY <2>2, <2>3
<1>5. (\A d \in Calls : Quiet(d)') /\ SoleTransferIsActive'
  BY <1>1, <1>2 DEF IInv, ActiveInv, Quiet, SoleTransferIsActive
<1> QED
  BY <1>3, <1>4, <1>5 DEF ActiveInv

LEMMA EndsMoves ==
  ASSUME IInv, PinTypes', NEW c \in Calls, Alive(c), NEW said \in EventSeqs, Ends(c, said),
         UNCHANGED <<bridge, calling>>
  PROVE  ActiveInv'
<1>1. /\ task' = [task EXCEPT ![c] = [NoTask EXCEPT !.kind = task[c].kind, !.pc = "over"]]
      /\ chan' = [chan EXCEPT ![c] = @ \o said]
  BY DEF Ends
<1>2. chan \in [Calls -> EventSeqs] /\ task \in [Calls -> Task]
  BY DEF IInv, ActiveInv, CallTypes, PinInv, PinTypes
<1>3. chan[c] \o said \in EventSeqs
  BY <1>2, SayingMore
<1>4. /\ chan' \in [Calls -> EventSeqs]
      /\ \A d \in Calls \ {c} : task'[d] = task[d] /\ chan'[d] = chan[d]
  BY <1>1, <1>2, <1>3
<1>5. task[c].kind \in Kinds \cup {"none"}
  BY <1>2 DEF Task
<1>6. [NoTask EXCEPT !.kind = task[c].kind, !.pc = "over"].pc = "over"
  BY <1>5, TasksAreTyped
<1>7. task'[c].pc = "over"
  BY <1>1, <1>2, <1>6
<1>8. ~Alive(c)'
  BY <1>7 DEF Alive
<1> QED
  BY <1>4, <1>8, OneMoves

LEMMA ReportsMoves ==
  ASSUME IInv, PinTypes', NEW c \in Calls, Alive(c), NEW said \in EventSeqs, Reports(c, said),
         UNCHANGED <<bridge, calling>>
  PROVE  ActiveInv'
<1>1. CASE Ends(c, said)
  BY <1>1, EndsMoves
<1>2. CASE /\ bridge = "frb" /\ task' = [task EXCEPT ![c].pc = "start", ![c].got = NoFp]
           /\ chan' = [chan EXCEPT ![c] = @ \o said]
  <2>1. chan \in [Calls -> EventSeqs] /\ task \in [Calls -> Task]
    BY DEF IInv, ActiveInv, CallTypes, PinInv, PinTypes
  <2>2. chan[c] \o said \in EventSeqs
    BY <2>1, SayingMore
  <2>3. /\ chan' \in [Calls -> EventSeqs]
        /\ \A d \in Calls \ {c} : task'[d] = task[d] /\ chan'[d] = chan[d]
    BY <1>2, <2>1, <2>2
  <2> QED
    BY <1>2, <2>3, OneMoves
<1> QED
  BY <1>1, <1>2 DEF Reports

(* A step of the task that says nothing, or tells the fingerprint. *)
LEMMA TalksMoves ==
  ASSUME IInv, PinTypes', NEW c \in Calls, Alive(c), UNCHANGED <<bridge, calling>>,
         \A d \in Calls \ {c} : task'[d] = task[d],
         \/ UNCHANGED chan
         \/ \E f \in Fps : chan' = [chan EXCEPT ![c] = Append(@, [type |-> "fingerprint", fp |-> f])]
  PROVE  ActiveInv'
<1>1. chan \in [Calls -> EventSeqs]
  BY DEF IInv, ActiveInv, CallTypes
<1>2. ~(bridge = "jni" /\ SaysDone(chan[c]))
  BY DEF IInv, ActiveInv, Waiting
<1>3. CASE UNCHANGED chan
  BY <1>1, <1>2, <1>3, OneMoves
<1>4. ASSUME NEW f \in Fps, chan' = [chan EXCEPT ![c] = Append(@, [type |-> "fingerprint", fp |-> f])]
      PROVE  ActiveInv'
  <2>1. LET t == Append(chan[c], [type |-> "fingerprint", fp |-> f]) IN
          t \in EventSeqs /\ (SaysDone(t) => SaysDone(chan[c]))
    BY <1>1, SayingMore
  <2>2. chan' \in [Calls -> EventSeqs] /\ (\A d \in Calls \ {c} : chan'[d] = chan[d])
        /\ (SaysDone(chan'[c]) => SaysDone(chan[c]))
    BY <1>1, <1>4, <2>1
  <2> QED
    BY <1>2, <2>2, OneMoves
<1> QED
  BY <1>3, <1>4

LEMMA TaskMoves ==
  ASSUME IInv, PinTypes', NEW c \in Calls, TaskStep(c) \/ Accept(c) \/ Move(c)
  PROVE  ActiveInv'
<1>1. /\ task[c].pc \in {"start", "dial", "accept", "move", "moving"} /\ UNCHANGED <<bridge, calling>>
  BY DEF TaskStep, Resolve, Dial, FallBack, Meet, Bind, Refuse, Begin, Move, Accept
<1>2. Alive(c) /\ task \in [Calls -> Task] /\ holder \in [Addrs -> Fps] /\ Asks(task[c])
  BY <1>1 DEF Alive, IInv, PinInv, PinTypes
<1>3. <<Failed>> \in EventSeqs /\ <<Ok>> \in EventSeqs /\ <<Failed, Failed>> \in EventSeqs
  BY Saying DEF EventSeqs
<1>4. CASE Ends(c, <<Failed>>)
  BY <1>1, <1>2, <1>3, <1>4, EndsMoves
<1>5. CASE Refuse(c) \/ Move(c)
  BY <1>1, <1>2, <1>3, <1>5, ReportsMoves DEF Refuse, Move
<1>6. CASE /\ \/ Resolve(c) \/ Dial(c) \/ FallBack(c) \/ Meet(c) \/ Bind(c) \/ Accept(c) \/ Begin(c)
        /\ ~Ends(c, <<Failed>>)
  <2>1. \A d \in Calls \ {c} : task'[d] = task[d]
    BY <1>2, <1>6 DEF Resolve, Dial, FallBack, Meet, Bind, Accept, Begin
  <2>2. \/ UNCHANGED chan
        \/ \E f \in Fps : chan' = [chan EXCEPT ![c] = Append(@, [type |-> "fingerprint", fp |-> f])]
    <3>1. CASE Dial(c)
      <4>1. holder[task[c].at] \in Fps
        BY <1>2, <3>1 DEF Dial, Asks
      <4> QED
        BY <1>6, <3>1, <4>1 DEF Dial
    <3>2. CASE Resolve(c) \/ FallBack(c) \/ Meet(c) \/ Bind(c) \/ Accept(c) \/ Begin(c)
      BY <1>6, <3>2 DEF Resolve, FallBack, Meet, Bind, Accept, Begin
    <3> QED
      BY <1>6, <3>1, <3>2
  <2> QED
    BY <1>1, <1>2, <2>1, <2>2, TalksMoves
<1> QED
  BY <1>4, <1>5, <1>6 DEF TaskStep

LEMMA DiesMoves ==
  ASSUME IInv, PinTypes', NEW c \in Calls, Dies(c)
  PROVE  ActiveInv'
<1>1. /\ Alive(c) /\ UNCHANGED <<bridge, calling, chan>>
      /\ task' = [task EXCEPT ![c] = [NoTask EXCEPT !.kind = task[c].kind, !.pc = "gone"]]
  BY DEF Dies
<1>2. \A d \in Calls \ {c} : task'[d] = task[d]
  BY <1>1 DEF IInv, PinInv, PinTypes
<1> QED
  BY <1>1, <1>2, TalksMoves

(* A call that starts beside another ends the other's being alone. *)
LEMMA SpawnMoves ==
  ASSUME IInv, NEW c \in Calls, NEW k, NEW a, NEW fp, Spawn(c, k, a, fp)
  PROVE  ActiveInv'
<1>1. /\ caller[c] = "none" /\ caller' = [caller EXCEPT ![c] = "spawned"]
      /\ alone' = [d \in Calls |-> IF d = c THEN \A o \in Calls : ~Alive(o) /\ caller[o] \in {"none", "returned"}
                                             ELSE FALSE]
      /\ UNCHANGED <<bridge, chan, active, doomed>>
  BY DEF Spawn
<1>2. \A d \in Calls \ {c} : task'[d] = task[d]
  BY DEF Spawn, IInv, PinInv, PinTypes
<1>3. /\ CallTypes /\ \A d \in Calls : Waiting(d)
  BY DEF IInv, ActiveInv
<1>4. CallTypes' /\ caller'[c] = "spawned" /\ \A d \in Calls \ {c} : caller'[d] = caller[d] /\ ~alone'[d]
  BY <1>1, <1>3 DEF CallTypes
<1>5. ASSUME NEW d \in Calls PROVE Waiting(d)'
  <2>1. CASE d = c
    BY <1>1, <1>3, <1>4, <2>1, Saying DEF Waiting
  <2>2. CASE d # c
    BY <1>1, <1>2, <1>3, <1>4, <2>2 DEF Waiting, Alive
  <2> QED
    BY <2>1, <2>2
<1>6. ASSUME NEW d \in Calls PROVE Quiet(d)'
  BY <1>1, <1>2, <1>4 DEF Quiet, Alive
<1>7. SoleTransferIsActive'
  BY <1>4 DEF SoleTransferIsActive
<1> QED
  BY <1>4, <1>5, <1>6, <1>7 DEF ActiveInv

LEMMA CallerMoves ==
  ASSUME IInv, NEW c \in Calls, CallerStep(c)
  PROVE  ActiveInv'
<1>1. /\ caller[c] \in {"spawned", "drain", "forget"} /\ UNCHANGED <<bridge, task, doomed, alone>>
  BY DEF CallerStep, Track, Drain, Forget
<1>2. /\ CallTypes /\ (\A d \in Calls : Waiting(d) /\ Quiet(d)) /\ SoleTransferIsActive
  BY DEF IInv, ActiveInv
<1>3. \A d \in Calls : Alive(d)' = Alive(d)
  BY <1>1 DEF Alive
<1>4. ASSUME NEW d \in Calls \ {c} PROVE ~alone[d]
  BY <1>1, <1>2 DEF Quiet
<1>5. CASE Track(c)
  <2>1. /\ caller[c] = "spawned" /\ active' = c /\ UNCHANGED chan
        /\ caller' = [caller EXCEPT ![c] = IF bridge = "jni" THEN "drain" ELSE "returned"]
    BY <1>5 DEF Track, Tracked
  <2>2. CallTypes'
    BY <1>1, <1>2, <2>1 DEF CallTypes
  <2>3. /\ caller'[c] = (IF bridge = "jni" THEN "drain" ELSE "returned")
        /\ \A d \in Calls \ {c} : caller'[d] = caller[d]
    BY <1>2, <2>1 DEF CallTypes
  <2>4. \A d \in Calls : Waiting(d)' /\ Quiet(d)'
    BY <1>1, <1>2, <1>3, <1>4, <2>1, <2>3 DEF Waiting, Quiet
  <2>5. SoleTransferIsActive'
    BY <1>1, <1>4, <2>1 DEF SoleTransferIsActive
  <2> QED
    BY <2>2, <2>4, <2>5 DEF ActiveInv
<1>6. CASE Drain(c)
  <2>1. /\ caller[c] = "drain" /\ UNCHANGED active /\ chan[c] \in EventSeqs
    BY <1>2, <1>6 DEF Drain, CallTypes
  <2>2. \/ /\ chan[c] # <<>> /\ chan' = [chan EXCEPT ![c] = Tail(@)]
           /\ \/ UNCHANGED caller
              \/ caller' = [caller EXCEPT ![c] = "forget"] /\ Head(chan[c]).type # "fingerprint"
        \/ caller' = [caller EXCEPT ![c] = "forget"] /\ ~Alive(c) /\ UNCHANGED chan
    BY <1>6 DEF Drain, SendersGone
  <2>3. /\ CallTypes'
        /\ \A d \in Calls \ {c} : caller'[d] = caller[d] /\ chan'[d] = chan[d]
        /\ caller'[c] \in {"drain", "forget"} /\ (SaysDone(chan'[c]) => SaysDone(chan[c]))
        /\ caller'[c] = "forget" => ~Alive(c) \/ SaysDone(chan[c])
    <3>1. CASE chan[c] # <<>> /\ chan' = [chan EXCEPT ![c] = Tail(@)]
               /\ (UNCHANGED caller \/ (caller' = [caller EXCEPT ![c] = "forget"] /\ Head(chan[c]).type # "fingerprint"))
      <4>1. /\ Tail(chan[c]) \in EventSeqs /\ (SaysDone(Tail(chan[c])) => SaysDone(chan[c]))
            /\ Head(chan[c]).type # "fingerprint" => SaysDone(chan[c])
        BY <2>1, <3>1, SayingMore
      <4> QED
        BY <1>1, <1>2, <2>1, <3>1, <4>1 DEF CallTypes
    <3>2. CASE caller' = [caller EXCEPT ![c] = "forget"] /\ ~Alive(c) /\ UNCHANGED chan
      BY <1>1, <1>2, <2>1, <3>2 DEF CallTypes
    <3> QED
      BY <2>2, <3>1, <3>2
  <2>4. \A d \in Calls : Waiting(d)' /\ Quiet(d)'
    BY <1>1, <1>2, <1>3, <1>4, <2>1, <2>3 DEF Waiting, Quiet
  <2>5. SoleTransferIsActive'
    BY <1>1, <1>2, <1>3, <1>4, <2>1, <2>3 DEF SoleTransferIsActive
  <2> QED
    BY <2>3, <2>4, <2>5 DEF ActiveInv
<1>7. CASE Forget(c)
  <2>1. /\ caller[c] = "forget" /\ caller' = [caller EXCEPT ![c] = "returned"] /\ UNCHANGED chan
    BY <1>7 DEF Forget
  <2>2. CallTypes' /\ caller'[c] = "returned" /\ \A d \in Calls \ {c} : caller'[d] = caller[d]
    BY <1>1, <1>2, <2>1 DEF CallTypes
  <2>3. ~Alive(c)
    BY <1>2, <2>1 DEF Waiting
  <2>4. \A d \in Calls : Waiting(d)' /\ Quiet(d)'
    BY <1>1, <1>2, <1>3, <1>4, <2>1, <2>2 DEF Waiting, Quiet
  <2>5. SoleTransferIsActive'
    BY <1>1, <1>3, <1>4, <2>3 DEF SoleTransferIsActive
  <2> QED
    BY <2>2, <2>4, <2>5 DEF ActiveInv
<1> QED
  BY <1>5, <1>6, <1>7 DEF CallerStep

LEMMA IInvInductive == IInv /\ [Next]_vars => IInv'
<1> SUFFICES ASSUME IInv, [Next]_vars PROVE IInv'
  OBVIOUS
<1>1. PinInv' /\ PinTypes'
  BY PinInductive DEF IInv, PinInv
<1>2. ActiveInv'
  <2>1. ASSUME UNCHANGED <<bridge, task, caller, chan, alone, active, doomed>> PROVE ActiveInv'
    BY <2>1 DEF IInv, ActiveInv, CallTypes, Waiting, Quiet, Alive, SoleTransferIsActive
  <2>2. CASE Shift \/ UNCHANGED vars
    BY <2>1, <2>2 DEF Shift, vars, calling
  <2>3. CASE Cancel
    <3>1. doomed' = doomed \cup {active} /\ UNCHANGED <<bridge, task, caller, chan, alone>>
      BY <2>3 DEF Cancel
    <3> QED
      BY <3>1 DEF IInv, ActiveInv, CallTypes, Waiting, Quiet, Alive, SoleTransferIsActive
  <2>4. ASSUME NEW c \in Calls, App(c) PROVE ActiveInv'
    BY <2>4, SpawnMoves
       DEF App, StartListener, PairRendezvous, PairSend, Connect, ConnectDirect, ConnectWithFp
  <2>5. ASSUME NEW c \in Calls, Drained(c) PROVE ActiveInv'
    BY <2>1, <2>5 DEF Drained, calling
  <2> QED
    BY <1>1, <2>2, <2>3, <2>4, <2>5, CallerMoves, TaskMoves, DiesMoves DEF Next
<1> QED
  BY <1>1, <1>2 DEF IInv

LEMMA IInvInitially == Init => IInv
<1> SUFFICES ASSUME Init PROVE IInv
  OBVIOUS
<1>1. \A c \in Calls : task[c] = NoTask /\ caller[c] = "none" /\ chan[c] = <<>> /\ ~alone[c] /\ ~Alive(c)
  BY TasksAreTyped DEF Init, Alive
<1>2. CallTypes
  BY Saying DEF Init, CallTypes
<1>3. \A c \in Calls : Waiting(c) /\ Quiet(c)
  BY <1>1, TasksAreTyped, Saying DEF Waiting, Quiet
<1>4. SoleTransferIsActive
  BY <1>1 DEF SoleTransferIsActive
<1> QED
  BY <1>2, <1>3, <1>4, PinInitially DEF IInv, ActiveInv

(* hyxCancel and cancel: while no other call overlapped it, ACTIVE is the      *)
(* handle of the running transfer, so cancel reaches it, from its track on.    *)
THEOREM SoleTransferIsAlwaysActive == Spec => []SoleTransferIsActive
<1>1. IInv => SoleTransferIsActive
  BY DEF IInv, ActiveInv
<1> QED
  BY <1>1, IInvInitially, IInvInductive, PTL DEF Spec

-------------------------------------------------------------------------------
(* Whom a call exchanges data with. *)

Kept(c) ==
  Given(task[c]) /\ task[c].got # NoFp =>
    task[c].got = task[c].cached \/ (FallsBack(task[c]) /\ WasToldOf(c, task[c].got))

LEMMA KeptIsPinIsKept == PinIsKept <=> \A c \in Calls : Kept(c)
  BY DEF PinIsKept, Kept, Given

(* The task of c takes a step, which the other calls do not see. *)
LEMMA OneKeeps ==
  ASSUME PinIsKept, NEW c \in Calls, UNCHANGED bridge, Kept(c)',
         \A d \in Calls \ {c} : task'[d] = task[d] /\ chan'[d] = chan[d]
  PROVE  PinIsKept'
<1>1. \A d \in Calls : Kept(d)
  BY KeptIsPinIsKept
<1>2. ASSUME NEW d \in Calls \ {c} PROVE Kept(d)'
  <2>1. Kept(d) /\ task'[d] = task[d] /\ chan'[d] = chan[d]
    BY <1>1
  <2>2. \A fp : WasToldOf(d, fp) => WasToldOf(d, fp)'
    BY <2>1 DEF WasToldOf
  <2>3. (Given(task[d])' <=> Given(task[d])) /\ (FallsBack(task[d])' <=> FallsBack(task[d]))
    BY <2>1 DEF Given, FallsBack
  <2> QED
    BY <2>1, <2>2, <2>3 DEF Kept
<1>3. (\A d \in Calls : Kept(d)) => PinIsKept
  BY KeptIsPinIsKept
<1>4. (\A d \in Calls : Kept(d)') => PinIsKept'
  BY DEF PinIsKept, Kept, Given
<1> QED
  BY <1>2, <1>4

(* A call that starts, or whose session is over, is connected to nobody.       *)
LEMMA UnconnectedKeeps ==
  ASSUME IInv, PinIsKept, NEW c \in Calls, UNCHANGED bridge,
         NEW t, t.got = NoFp, task' = [task EXCEPT ![c] = t],
         UNCHANGED chan \/ \E said : chan' = [chan EXCEPT ![c] = @ \o said]
  PROVE  PinIsKept'
<1>1. task \in [Calls -> Task] /\ chan \in [Calls -> EventSeqs]
  BY DEF IInv, PinInv, PinTypes, ActiveInv, CallTypes
<1>2. task'[c] = t /\ \A d \in Calls \ {c} : task'[d] = task[d] /\ chan'[d] = chan[d]
  BY <1>1
<1>3. Kept(c)'
  BY <1>2 DEF Kept
<1> QED
  BY <1>2, <1>3, OneKeeps

LEMMA ReportsKeeps ==
  ASSUME IInv, PinIsKept, NEW c \in Calls, NEW said, Reports(c, said) \/ Ends(c, said), UNCHANGED bridge
  PROVE  PinIsKept'
<1>1. task \in [Calls -> Task]
  BY DEF IInv, PinInv, PinTypes
<1>2. CASE Ends(c, said)
  <2> DEFINE t == [NoTask EXCEPT !.kind = task[c].kind, !.pc = "over"]
  <2>1. t.got = NoFp
    BY DEF NoTask
  <2>2. task' = [task EXCEPT ![c] = t] /\ chan' = [chan EXCEPT ![c] = @ \o said]
    BY <1>2 DEF Ends
  <2> HIDE DEF t
  <2> QED
    BY <2>1, <2>2, UnconnectedKeeps
<1>3. CASE /\ task' = [task EXCEPT ![c].pc = "start", ![c].got = NoFp]
           /\ chan' = [chan EXCEPT ![c] = @ \o said]
  <2> DEFINE t == [task[c] EXCEPT !.pc = "start", !.got = NoFp]
  <2>1. t.got = NoFp /\ task' = [task EXCEPT ![c] = t]
    BY <1>1, <1>3 DEF Task
  <2> HIDE DEF t
  <2> QED
    BY <1>3, <2>1, UnconnectedKeeps
<1> QED
  BY <1>2, <1>3 DEF Reports

(* A connection is with the device that was asked for, or the app is told.     *)
LEMMA DialKeeps ==
  ASSUME IInv, PinIsKept, NEW c \in Calls, Dial(c)
  PROVE  PinIsKept'
<1>1. /\ task \in [Calls -> Task] /\ chan \in [Calls -> EventSeqs] /\ holder \in [Addrs -> Fps]
      /\ Asks(task[c]) /\ UNCHANGED bridge /\ task[c].pc = "dial"
  BY DEF IInv, PinInv, PinTypes, ActiveInv, CallTypes, Dial
<1>2. CASE Ends(c, <<Failed>>)
  BY <1>1, <1>2, ReportsKeeps
<1> DEFINE f == holder[task[c].at]
           event == [type |-> "fingerprint", fp |-> f]
<1>3. CASE /\ Accepts(task[c]) /\ task' = [task EXCEPT ![c].pc = "move", ![c].got = f]
           /\ chan' = IF task[c].pin # NoFp THEN chan ELSE [chan EXCEPT ![c] = Append(@, event)]
  <2>1. f \in Fps /\ task[c].pin \in {NoFp, f}
    BY <1>1, <1>3 DEF Asks, Accepts
  <2>2. /\ task'[c].got = f /\ task'[c].kind = task[c].kind /\ task'[c].cached = task[c].cached
        /\ task'[c].to = task[c].to
        /\ \A d \in Calls \ {c} : task'[d] = task[d] /\ chan'[d] = chan[d]
    BY <1>1, <1>3 DEF Task
  <2>3. task[c].pin = NoFp => \E i \in DOMAIN chan'[c] : chan'[c][i] = event
    <3> SUFFICES ASSUME task[c].pin = NoFp PROVE \E i \in DOMAIN chan'[c] : chan'[c][i] = event
      OBVIOUS
    <3>1. chan'[c] = Append(chan[c], event) /\ chan[c] \in EventSeqs
      BY <1>1, <1>3
    <3>2. LET n == Len(chan[c]) + 1 IN
            n \in DOMAIN Append(chan[c], event) /\ Append(chan[c], event)[n] = event
      BY <3>1 DEF EventSeqs
    <3> QED
      BY <3>1, <3>2
  <2>4. Kept(c)'
    <3> DEFINE CallbackTold == \E i \in DOMAIN chan'[c] : chan'[c][i] = event
    <3>0. /\ WasToldOf(c, task[c].got)' <=> CallbackTold
          /\ FallsBack(task[c])' <=> FallsBack(task[c])
          /\ Given(task[c])' <=> Given(task[c])
      BY <1>1, <2>2 DEF WasToldOf, FallsBack, Given
    <3> HIDE DEF CallbackTold, f, event
    <3> SUFFICES ASSUME Given(task[c]) PROVE f = task[c].cached \/ (FallsBack(task[c]) /\ CallbackTold)
      BY <2>2, <3>0 DEF Kept
    <3>1. task[c].pin = task[c].cached \/ (FallsBack(task[c]) /\ task[c].pin = NoFp)
      BY <1>1, <2>2 DEF Asks, Given
    <3>2. task[c].cached # NoFp
      BY <2>2 DEF Given
    <3> QED
      BY <2>1, <2>3, <3>1, <3>2 DEF CallbackTold
  <2> QED
    BY <1>1, <2>2, <2>4, OneKeeps
<1> QED
  BY <1>2, <1>3 DEF Dial

(* A step of the task that keeps its peer, or has one for the first time and   *)
(* was given no fingerprint.                                                   *)
LEMMA TaskKeeps ==
  ASSUME IInv, PinIsKept, NEW c \in Calls, TaskStep(c) \/ Accept(c) \/ Move(c)
  PROVE  PinIsKept'
<1>1. /\ task \in [Calls -> Task] /\ Asks(task[c])
      /\ \A d \in Calls : Kept(d)
  BY KeptIsPinIsKept DEF IInv, PinInv, PinTypes
<1>2. UNCHANGED bridge
  BY DEF TaskStep, Resolve, Dial, FallBack, Meet, Bind, Refuse, Begin, Move, Accept
<1>3. CASE Ends(c, <<Failed>>) \/ Refuse(c) \/ Move(c)
  BY <1>2, <1>3, ReportsKeeps DEF Refuse, Move
<1>4. CASE /\ Resolve(c) \/ FallBack(c) \/ Bind(c) \/ Begin(c)
           /\ ~Ends(c, <<Failed>>)
  <2> DEFINE Same == /\ task'[c].got = task[c].got /\ task'[c].kind = task[c].kind
                     /\ task'[c].cached = task[c].cached /\ task'[c].to = task[c].to
                     /\ UNCHANGED chan /\ \A d \in Calls \ {c} : task'[d] = task[d]
  <2>1. Same
    <3>1. CASE Resolve(c)
      <4>1. PICK x \in Targets(task[c]) :
              task' = [task EXCEPT ![c].pc = "dial", ![c].at = x[1], ![c].pin = x[2]] /\ UNCHANGED chan
        BY <1>4, <3>1 DEF Resolve
      <4> QED
        BY <1>1, <4>1 DEF Task
    <3>2. CASE FallBack(c)
      BY <1>1, <3>2 DEF FallBack, Task
    <3>3. CASE Bind(c)
      BY <1>1, <1>4, <3>3 DEF Bind, Task
    <3>4. CASE Begin(c)
      BY <1>1, <3>4 DEF Begin, Task
    <3> QED
      BY <1>4, <3>1, <3>2, <3>3, <3>4
  <2>2. Kept(c)'
    BY <1>1, <1>2, <2>1 DEF Kept, Given, FallsBack, WasToldOf
  <2> QED
    BY <1>2, <2>1, <2>2, OneKeeps
<1>5. CASE (Meet(c) \/ Accept(c)) /\ ~Ends(c, <<Failed>>)
  <2>1. /\ task'[c].cached = task[c].cached /\ task'[c].to = task[c].to
        /\ UNCHANGED chan /\ \A d \in Calls \ {c} : task'[d] = task[d]
    BY <1>1, <1>5 DEF Meet, Accept, Task
  <2>2. ~Given(task[c])
    BY <1>1, <1>5 DEF Meet, Accept, Asks
  <2>3. Kept(c)'
    BY <2>1, <2>2 DEF Kept, Given
  <2> QED
    BY <1>2, <2>1, <2>3, OneKeeps
<1> QED
  BY <1>3, <1>4, <1>5, DialKeeps DEF TaskStep

LEMMA KeptInductive == IInv /\ PinIsKept /\ [Next]_vars => PinIsKept'
<1> SUFFICES ASSUME IInv, PinIsKept, [Next]_vars PROVE PinIsKept'
  OBVIOUS
<1>1. /\ task \in [Calls -> Task] /\ chan \in [Calls -> EventSeqs]
  BY DEF IInv, PinInv, PinTypes, ActiveInv, CallTypes
<1>2. ASSUME UNCHANGED <<bridge, task, chan>> PROVE PinIsKept'
  BY <1>2 DEF PinIsKept, FallsBack, WasToldOf
<1>3. CASE Cancel \/ Shift \/ UNCHANGED vars
  BY <1>2, <1>3 DEF Cancel, Shift, vars
<1>4. ASSUME NEW c \in Calls, NEW k, NEW a, NEW fp, Spawn(c, k, a, fp) PROVE PinIsKept'
  <2> DEFINE t == [NoTask EXCEPT !.kind = k, !.pc = "start", !.to = a, !.cached = fp]
  <2>1. t.got = NoFp
    BY DEF NoTask
  <2>2. task' = [task EXCEPT ![c] = t] /\ UNCHANGED <<bridge, chan>>
    BY <1>4 DEF Spawn
  <2> HIDE DEF t
  <2> QED
    BY <2>1, <2>2, UnconnectedKeeps
<1>5. ASSUME NEW c \in Calls, App(c) PROVE PinIsKept'
  BY <1>4, <1>5 DEF App, StartListener, PairRendezvous, PairSend, Connect, ConnectDirect, ConnectWithFp
(* Only a JNI caller takes events away, and its connects do not fall back.     *)
<1>6. ASSUME NEW c \in Calls, CallerStep(c) PROVE PinIsKept'
  <2>1. CASE Track(c) \/ Forget(c)
    BY <1>2, <2>1 DEF Track, Forget
  <2>2. CASE Drain(c)
    <3>1. UNCHANGED <<bridge, task>> /\ bridge = "jni" /\ \A d \in Calls \ {c} : chan'[d] = chan[d]
      BY <1>1, <2>2 DEF Drain, IInv, ActiveInv, Waiting
    <3>2. Kept(c) /\ ~FallsBack(task[c])
      BY <3>1, KeptIsPinIsKept DEF FallsBack
    <3>3. Kept(c)'
      BY <3>1, <3>2 DEF Kept, Given, FallsBack
    <3> QED
      BY <3>1, <3>3, OneKeeps
  <2> QED
    BY <1>6, <2>1, <2>2 DEF CallerStep
<1>7. ASSUME NEW c \in Calls, Dies(c) PROVE PinIsKept'
  <2> DEFINE t == [NoTask EXCEPT !.kind = task[c].kind, !.pc = "gone"]
  <2>1. t.got = NoFp
    BY DEF NoTask
  <2>2. task' = [task EXCEPT ![c] = t] /\ UNCHANGED <<bridge, chan>>
    BY <1>7 DEF Dies
  <2> HIDE DEF t
  <2> QED
    BY <2>1, <2>2, UnconnectedKeeps
<1>8. ASSUME NEW c \in Calls, Drained(c) PROVE PinIsKept'
  BY <1>2, <1>8 DEF Drained
<1> QED
  BY <1>3, <1>5, <1>6, <1>7, <1>8, TaskKeeps DEF Next

(* connect with a pin: whoever holds the address by then, what the call        *)
(* exchanges data with has the fingerprint that the call was given; only the   *)
(* Flutter connect may go on without it, after it told the app the other one.  *)
THEOREM PinIsAlwaysKept == Spec => []PinIsKept
<1>1. Init => PinIsKept
  BY ConstantsAreSane DEF Init, PinIsKept, NoTask
<1> QED
  BY <1>1, IInvInitially, IInvInductive, KeptInductive, PTL DEF Spec

-------------------------------------------------------------------------------
(* The types. *)

(* Only a listener holds the port, and it never dials.                         *)
Held(c) ==
  /\ port[c] = "held" <=> task[c].kind = "listen" /\ task[c].pc \in {"accept", "move", "moving"}
  /\ task[c].pc = "dial" => task[c].kind # "listen"
PlainTypes ==
  /\ bridge \in Bridges /\ blocked \subseteq Fps
  /\ result \in [Calls -> {"none", "ok", "err", "cancelled"}]
  /\ active \in Calls \cup {NoCall} /\ doomed \subseteq Calls
  /\ port \in [Calls -> {"free", "held", "draining"}]
  /\ moved \in [Calls -> Nat] /\ visits \in Nat /\ moves \in Nat
TypeInv == PlainTypes /\ \A c \in Calls : Held(c)

LEMMA PartsAreTypes == IInv /\ TypeInv => TypeOK
  BY DEF IInv, PinInv, PinTypes, ActiveInv, CallTypes, EventSeqs, TypeInv, PlainTypes, Held, TypeOK

(* The task of one call goes on, and its hold of the port with it.             *)
LEMMA OneHolds ==
  ASSUME TypeInv, PlainTypes', NEW c \in Calls, Held(c)',
         \A d \in Calls \ {c} : task'[d] = task[d] /\ port'[d] = port[d]
  PROVE  TypeInv'
  BY DEF TypeInv, Held

LEMMA EndsHolds ==
  ASSUME IInv, TypeInv, NEW c \in Calls, NEW said, Ends(c, said),
         UNCHANGED <<bridge, world, calling>>, moved' \in [Calls -> Nat], visits' \in Nat
  PROVE  TypeInv'
<1>1. /\ task \in [Calls -> Task] /\ port \in [Calls -> {"free", "held", "draining"}]
  BY DEF IInv, PinInv, PinTypes, TypeInv, PlainTypes
<1> DEFINE t == [NoTask EXCEPT !.kind = task[c].kind, !.pc = "over"]
<1>2. t.pc = "over"
  BY <1>1, TasksAreTyped DEF Task
<1>3. task' = [task EXCEPT ![c] = t] /\ port' = [port EXCEPT ![c] = Dropped(@)]
  BY DEF Ends
<1> HIDE DEF t
<1>4. /\ port' \in [Calls -> {"free", "held", "draining"}] /\ port'[c] # "held"
      /\ \A d \in Calls \ {c} : task'[d] = task[d] /\ port'[d] = port[d]
  BY <1>1, <1>3 DEF Dropped
<1>5. task'[c] = t
  BY <1>1, <1>3
<1>6. PlainTypes'
  BY <1>4 DEF TypeInv, PlainTypes, world, calling
<1>7. Held(c)'
  BY <1>2, <1>4, <1>5 DEF Held
<1> QED
  BY <1>4, <1>6, <1>7, OneHolds

LEMMA ReportsHolds ==
  ASSUME IInv, TypeInv, NEW c \in Calls, NEW said, Reports(c, said),
         UNCHANGED <<bridge, world, calling>>, moved' \in [Calls -> Nat], visits' \in Nat
  PROVE  TypeInv'
<1>1. /\ task \in [Calls -> Task] /\ port \in [Calls -> {"free", "held", "draining"}]
  BY DEF IInv, PinInv, PinTypes, TypeInv, PlainTypes
<1>2. CASE Ends(c, said)
  BY <1>2, EndsHolds
<1>3. CASE /\ task' = [task EXCEPT ![c].pc = "start", ![c].got = NoFp]
           /\ port' = [port EXCEPT ![c] = Dropped(@)]
  <2>1. /\ port' \in [Calls -> {"free", "held", "draining"}] /\ port'[c] # "held"
        /\ \A d \in Calls \ {c} : task'[d] = task[d] /\ port'[d] = port[d]
    BY <1>1, <1>3 DEF Dropped
  <2>2. task'[c].pc = "start"
    BY <1>1, <1>3 DEF Task
  <2>3. PlainTypes'
    BY <2>1 DEF TypeInv, PlainTypes, world, calling
  <2>4. Held(c)'
    BY <2>1, <2>2 DEF Held
  <2> QED
    BY <2>1, <2>3, <2>4, OneHolds
<1> QED
  BY <1>2, <1>3 DEF Reports

(* A step of the task that leaves the port alone. *)
LEMMA TaskHolds ==
  ASSUME IInv, TypeInv, NEW c \in Calls, TaskStep(c) \/ Accept(c) \/ Move(c)
  PROVE  TypeInv'
<1>1. /\ task \in [Calls -> Task] /\ port \in [Calls -> {"free", "held", "draining"}]
      /\ moved \in [Calls -> Nat] /\ visits \in Nat /\ Held(c) /\ Asks(task[c])
  BY DEF IInv, PinInv, PinTypes, TypeInv, PlainTypes
<1>2. UNCHANGED <<bridge, world, calling>> /\ moved' \in [Calls -> Nat] /\ visits' \in Nat
  <2>1. CASE Move(c)
    BY <1>1, <2>1 DEF Move
  <2>2. CASE Accept(c)
    BY <1>1, <2>2 DEF Accept
  <2>3. CASE Resolve(c) \/ Dial(c) \/ FallBack(c) \/ Meet(c) \/ Bind(c) \/ Refuse(c) \/ Begin(c)
    BY <1>1, <2>3 DEF Resolve, Dial, FallBack, Meet, Bind, Refuse, Begin
  <2> QED
    BY <2>1, <2>2, <2>3 DEF TaskStep
<1>3. CASE Refuse(c) \/ Move(c)
  BY <1>2, <1>3, ReportsHolds DEF Refuse, Move
<1>4. CASE Ends(c, <<Failed>>)
  BY <1>2, <1>4, EndsHolds
<1>5. CASE Bind(c) /\ port' = [port EXCEPT ![c] = "held"]
  <2>1. task' = [task EXCEPT ![c].pc = "accept"] /\ task[c].kind = "listen"
    <3>1. Ends(c, <<Failed>>) => port'[c] # "held"
      BY <1>1 DEF Ends, Dropped
    <3>2. port'[c] = "held"
      BY <1>1, <1>5
    <3> QED
      BY <1>5, <3>1, <3>2 DEF Bind
  <2>2. PlainTypes'
    BY <1>1, <1>2, <1>5 DEF TypeInv, PlainTypes, world, calling
  <2>3. Held(c)' /\ \A d \in Calls \ {c} : task'[d] = task[d] /\ port'[d] = port[d]
    BY <1>1, <1>5, <2>1 DEF Held, Task
  <2> QED
    BY <2>2, <2>3, OneHolds
<1>6. CASE /\ \/ Resolve(c) \/ Dial(c) \/ FallBack(c) \/ Meet(c) \/ Accept(c) \/ Begin(c)
        /\ UNCHANGED port /\ ~Ends(c, <<Failed>>)
  <2>1. PlainTypes'
    BY <1>1, <1>2, <1>6 DEF TypeInv, PlainTypes, world, calling
  <2>2. \A d \in Calls \ {c} : task'[d] = task[d] /\ port'[d] = port[d]
    BY <1>1, <1>6 DEF Resolve, Dial, FallBack, Meet, Accept, Begin
  <2>3. task'[c].kind = task[c].kind
        /\ \/ task[c].kind # "listen" /\ task'[c].pc \in {"dial", "move"}
           \/ task[c].pc = "accept" /\ task'[c].pc = "move"
           \/ task[c].pc = "move" /\ task'[c].pc = "moving"
    <3>1. CASE Resolve(c)
      <4>1. PICK x \in Targets(task[c]) :
              task' = [task EXCEPT ![c].pc = "dial", ![c].at = x[1], ![c].pin = x[2]]
        BY <1>6, <3>1 DEF Resolve
      <4>2. task'[c] = [task[c] EXCEPT !.pc = "dial", !.at = x[1], !.pin = x[2]] /\ task[c] \in Task
        BY <1>1, <4>1
      <4>3. task'[c].kind = task[c].kind /\ task'[c].pc = "dial"
        BY <4>2 DEF Task
      <4> QED
        BY <3>1, <4>3 DEF Resolve
    <3>2. CASE Dial(c)
      <4>1. task' = [task EXCEPT ![c].pc = "move", ![c].got = holder[task[c].at]] /\ task[c].pc = "dial"
        BY <1>6, <3>2 DEF Dial
      <4>2. task'[c] = [task[c] EXCEPT !.pc = "move", !.got = holder[task[c].at]] /\ task[c] \in Task
        BY <1>1, <4>1
      <4>3. task'[c].kind = task[c].kind /\ task'[c].pc = "move"
        BY <4>2 DEF Task
      <4> QED
        BY <1>1, <4>1, <4>3 DEF Held
    <3>3. CASE Meet(c)
      BY <1>1, <1>6, <3>3 DEF Meet, Task
    <3>4. CASE Accept(c)
      BY <1>1, <1>6, <3>4 DEF Accept, Task
    <3>5. CASE FallBack(c)
      BY <1>1, <3>5 DEF FallBack, Task, Held
    <3>6. CASE Begin(c)
      BY <1>1, <3>6 DEF Begin, Task
    <3> QED
      BY <1>6, <3>1, <3>2, <3>3, <3>4, <3>5, <3>6
  <2>4. Held(c)'
    BY <1>1, <1>6, <2>3 DEF Held, Asks
  <2> QED
    BY <2>1, <2>2, <2>4, OneHolds
<1> QED
  BY <1>3, <1>4, <1>5, <1>6 DEF TaskStep, Resolve, Dial, FallBack, Meet, Bind, Begin, Accept

LEMMA TypeInvInductive == IInv /\ TypeInv /\ [Next]_vars => TypeInv'
<1> SUFFICES ASSUME IInv, TypeInv, [Next]_vars PROVE TypeInv'
  OBVIOUS
<1>1. /\ task \in [Calls -> Task] /\ port \in [Calls -> {"free", "held", "draining"}]
      /\ \A d \in Calls : Held(d) /\ Waiting(d)
  BY DEF IInv, PinInv, PinTypes, ActiveInv, TypeInv, PlainTypes
<1>2. ASSUME NEW c \in Calls, NEW k, NEW a, NEW fp, Spawn(c, k, a, fp) PROVE TypeInv'
  <2> DEFINE t == [NoTask EXCEPT !.kind = k, !.pc = "start", !.to = a, !.cached = fp]
  <2>1. task' = [task EXCEPT ![c] = t] /\ caller[c] = "none"
        /\ UNCHANGED <<bridge, world, result, active, doomed, port, moved, visits>>
    BY <1>2 DEF Spawn
  <2>2. t.pc = "start"
    BY DEF NoTask
  <2> HIDE DEF t
  <2>3. task[c].pc = "unused" /\ port[c] # "held"
    BY <1>1, <2>1 DEF Waiting, Held
  <2>4. task'[c] = t /\ \A d \in Calls \ {c} : task'[d] = task[d]
    BY <1>1, <2>1
  <2>5. PlainTypes' /\ Held(c)'
    BY <2>1, <2>2, <2>3, <2>4 DEF TypeInv, PlainTypes, Held, world
  <2> QED
    BY <2>1, <2>4, <2>5, OneHolds
<1>3. ASSUME NEW c \in Calls, App(c) PROVE TypeInv'
  BY <1>2, <1>3 DEF App, StartListener, PairRendezvous, PairSend, Connect, ConnectDirect, ConnectWithFp
<1>4. ASSUME NEW c \in Calls, CallerStep(c) PROVE TypeInv'
  <2>1. UNCHANGED <<bridge, world, task, doomed, port, moved, visits>> /\ active' \in Calls \cup {NoCall}
    BY <1>4 DEF CallerStep, Track, Tracked, Drain, Forget, TypeInv, PlainTypes
  <2>2. result' \in [Calls -> {"none", "ok", "err", "cancelled"}]
    <3>1. result \in [Calls -> {"none", "ok", "err", "cancelled"}] /\ chan[c] \in EventSeqs
      BY DEF TypeInv, PlainTypes, IInv, ActiveInv, CallTypes
    <3>2. CASE Drain(c)
      <4>1. chan[c] # <<>> => Head(chan[c]) \in Event
        BY <3>1 DEF EventSeqs
      <4>2. chan[c] # <<>> => Head(chan[c]).type \in {"fingerprint", "ok", "err"}
        BY <4>1 DEF Event
      <4> QED
        BY <3>1, <3>2, <4>2 DEF Drain, Closed
    <3>3. CASE UNCHANGED result
      BY <3>1, <3>3
    <3> QED
      BY <1>4, <3>2, <3>3 DEF CallerStep, Track, Forget
  <2> QED
    BY <2>1, <2>2 DEF TypeInv, PlainTypes, Held, world
<1>5. ASSUME NEW c \in Calls, Dies(c) PROVE TypeInv'
  <2> DEFINE t == [NoTask EXCEPT !.kind = task[c].kind, !.pc = "gone"]
  <2>1. /\ task' = [task EXCEPT ![c] = t] /\ port' = [port EXCEPT ![c] = Dropped(@)]
        /\ UNCHANGED <<bridge, world, calling, moved, visits>>
    BY <1>5 DEF Dies
  <2>2. t.pc = "gone"
    BY <1>1, TasksAreTyped DEF Task
  <2> HIDE DEF t
  <2>3. /\ port' \in [Calls -> {"free", "held", "draining"}] /\ port'[c] # "held" /\ task'[c] = t
        /\ \A d \in Calls \ {c} : task'[d] = task[d] /\ port'[d] = port[d]
    BY <1>1, <2>1 DEF Dropped
  <2>4. PlainTypes'
    BY <2>1, <2>3 DEF TypeInv, PlainTypes, world, calling
  <2> QED
    BY <2>2, <2>3, <2>4, OneHolds DEF Held
<1>6. ASSUME NEW c \in Calls, Drained(c) PROVE TypeInv'
  <2>1. port[c] = "draining" /\ port' = [port EXCEPT ![c] = "free"]
        /\ UNCHANGED <<bridge, world, calling, task, moved, visits>>
    BY <1>6 DEF Drained
  <2> QED
    BY <1>1, <2>1 DEF TypeInv, PlainTypes, Held, world, calling
<1>7. CASE Cancel
  <2>1. doomed' = doomed \cup {active} /\ active # NoCall /\ active' = NoCall
        /\ UNCHANGED <<bridge, world, task, result, port, moved, visits>>
    BY <1>7 DEF Cancel
  <2> QED
    BY <2>1 DEF TypeInv, PlainTypes, Held, world
<1>8. CASE Shift
  <2>1. moves' = moves + 1 /\ blocked' \subseteq Fps
        /\ UNCHANGED <<bridge, calling, task, port, moved, visits>>
    BY <1>8 DEF Shift, TypeInv, PlainTypes
  <2> QED
    BY <2>1 DEF TypeInv, PlainTypes, Held, calling
<1>9. CASE UNCHANGED vars
  BY <1>9 DEF vars, world, TypeInv, PlainTypes, Held
<1> QED
  BY <1>3, <1>4, <1>5, <1>6, <1>7, <1>8, <1>9, TaskHolds DEF Next

LEMMA TypeInvInitially == Init => TypeInv
<1> SUFFICES ASSUME Init PROVE TypeInv
  OBVIOUS
<1>1. \A c \in Calls : task[c].pc = "unused" /\ port[c] = "free"
  BY TasksAreTyped DEF Init
<1>2. PlainTypes
  BY DEF Init, PlainTypes
<1> QED
  BY <1>1, <1>2 DEF TypeInv, Held

(* What the bridges and their tasks keep stays well-formed, and one listener   *)
(* at a time holds an endpoint of the port it accepts on.                      *)
THEOREM TypeCorrect == Spec => []TypeOK
  BY IInvInitially, IInvInductive, TypeInvInitially, TypeInvInductive, PartsAreTypes, PTL DEF Spec

-------------------------------------------------------------------------------
(* What the app is told. *)

Oks(s) == {i \in DOMAIN s : s[i].type = "ok"}

(* What one or two more events add to a queue.                                 *)
LEMMA OksOfQueue ==
  ASSUME NEW s \in EventSeqs
  PROVE  IsFiniteSet(Oks(s)) /\ Cardinality(Oks(s)) \in Nat
<1>1. Oks(s) \subseteq 1..Len(s) /\ Len(s) \in Nat
  BY DEF Oks, EventSeqs
<1>2. IsFiniteSet(1..Len(s))
  BY <1>1, FS_Interval
<1> QED
  BY <1>1, <1>2, FS_Subset, FS_CardinalityType

LEMMA OksOfMore ==
  ASSUME NEW s \in EventSeqs
  PROVE  /\ Cardinality(Oks(s \o <<Ok>>)) = Cardinality(Oks(s)) + 1
         /\ Oks(s \o <<Failed>>) = Oks(s) /\ Oks(s \o <<Failed, Failed>>) = Oks(s)
         /\ \A f \in Fps : Oks(Append(s, [type |-> "fingerprint", fp |-> f])) = Oks(s)
<1>1. /\ Len(s) \in Nat /\ DOMAIN s = 1..Len(s) /\ Ok.type = "ok" /\ Failed.type = "err"
      /\ Len(s) + 1 \notin 1..Len(s) /\ Len(s) + 2 \notin 1..Len(s)
      /\ 1..(Len(s) + 1) = 1..Len(s) \cup {Len(s) + 1}
      /\ 1..(Len(s) + 2) = 1..Len(s) \cup {Len(s) + 1, Len(s) + 2}
  BY DEF EventSeqs, Ok, Failed
<1>2. Oks(s \o <<Ok>>) = Oks(s) \cup {Len(s) + 1}
  <2>1. /\ DOMAIN (s \o <<Ok>>) = 1..(Len(s) + 1)
        /\ \A i \in 1..Len(s) : (s \o <<Ok>>)[i] = s[i]
        /\ (s \o <<Ok>>)[Len(s) + 1] = Ok
    BY DEF EventSeqs
  <2> QED
    BY <1>1, <2>1 DEF Oks
<1>3. Cardinality(Oks(s \o <<Ok>>)) = Cardinality(Oks(s)) + 1
  <2>1. Len(s) + 1 \notin Oks(s) /\ IsFiniteSet(Oks(s))
    BY <1>1, OksOfQueue DEF Oks
  <2> QED
    BY <1>2, <2>1, FS_AddElement
<1>4. Oks(s \o <<Failed>>) = Oks(s)
  <2>1. /\ DOMAIN (s \o <<Failed>>) = 1..(Len(s) + 1)
        /\ \A i \in 1..Len(s) : (s \o <<Failed>>)[i] = s[i]
        /\ (s \o <<Failed>>)[Len(s) + 1] = Failed
    BY DEF EventSeqs
  <2> QED
    BY <1>1, <2>1 DEF Oks
<1>5. Oks(s \o <<Failed, Failed>>) = Oks(s)
  <2>1. /\ DOMAIN (s \o <<Failed, Failed>>) = 1..(Len(s) + 2)
        /\ \A i \in 1..Len(s) : (s \o <<Failed, Failed>>)[i] = s[i]
        /\ (s \o <<Failed, Failed>>)[Len(s) + 1] = Failed
        /\ (s \o <<Failed, Failed>>)[Len(s) + 2] = Failed
    BY DEF EventSeqs
  <2> QED
    BY <1>1, <2>1 DEF Oks
<1>6. ASSUME NEW f \in Fps
      PROVE  Oks(Append(s, [type |-> "fingerprint", fp |-> f])) = Oks(s)
  <2> DEFINE t == Append(s, [type |-> "fingerprint", fp |-> f])
  <2>1. /\ DOMAIN t = 1..(Len(s) + 1) /\ \A i \in 1..Len(s) : t[i] = s[i]
        /\ t[Len(s) + 1].type = "fingerprint"
    BY DEF EventSeqs
  <2> HIDE DEF t
  <2>2. Oks(t) = Oks(s)
    BY <1>1, <2>1 DEF Oks
  <2> QED
    BY <2>2 DEF t
<1> QED
  BY <1>3, <1>4, <1>5, <1>6

(* The last word of a JNI task is in its channel, or was the caller's result;  *)
(* it says what became of the transfer.                                        *)
SaysTrue(s, n) == \A i \in DOMAIN s : s[i].type # "fingerprint" => (s[i].type = "ok" <=> n = 1)

(* What a word more, or an event taken off, makes of that.                     *)
LEMMA LastWord ==
  ASSUME NEW s \in EventSeqs
  PROVE  /\ SaysDone(s \o <<Ok>>) /\ SaysDone(s \o <<Failed>>) /\ SaysDone(s \o <<Failed, Failed>>)
         /\ ~SaysDone(s) => /\ SaysTrue(s \o <<Ok>>, 1)
                            /\ SaysTrue(s \o <<Failed>>, 0) /\ SaysTrue(s \o <<Failed, Failed>>, 0)
<1>1. /\ Len(s) \in Nat /\ DOMAIN s = 1..Len(s)
      /\ Ok.type = "ok" /\ Failed.type = "err"
      /\ 1..(Len(s) + 1) = 1..Len(s) \cup {Len(s) + 1}
      /\ 1..(Len(s) + 2) = 1..Len(s) \cup {Len(s) + 1, Len(s) + 2}
  BY DEF EventSeqs, Ok, Failed
<1>2. ASSUME NEW e \in {Ok, Failed}
      PROVE  /\ SaysDone(s \o <<e>>)
             /\ ~SaysDone(s) => SaysTrue(s \o <<e>>, IF e = Ok THEN 1 ELSE 0)
  <2>1. /\ DOMAIN (s \o <<e>>) = 1..(Len(s) + 1)
        /\ \A i \in 1..Len(s) : (s \o <<e>>)[i] = s[i]
        /\ (s \o <<e>>)[Len(s) + 1] = e
    BY DEF EventSeqs
  <2>2. e.type # "fingerprint" /\ (e.type = "ok" <=> e = Ok)
    BY <1>1
  <2> QED
    BY <1>1, <2>1, <2>2 DEF SaysDone, SaysTrue
<1>3. /\ SaysDone(s \o <<Failed, Failed>>)
      /\ ~SaysDone(s) => SaysTrue(s \o <<Failed, Failed>>, 0)
  <2>1. /\ DOMAIN (s \o <<Failed, Failed>>) = 1..(Len(s) + 2)
        /\ \A i \in 1..Len(s) : (s \o <<Failed, Failed>>)[i] = s[i]
        /\ (s \o <<Failed, Failed>>)[Len(s) + 1] = Failed
        /\ (s \o <<Failed, Failed>>)[Len(s) + 2] = Failed
    BY DEF EventSeqs
  <2> QED
    BY <1>1, <2>1 DEF SaysDone, SaysTrue
<1>4. Ok # Failed
  BY <1>1
<1> QED
  BY <1>2, <1>3, <1>4

LEMMA WordTaken ==
  ASSUME NEW s \in EventSeqs, s # <<>>, NEW n
  PROVE  /\ SaysTrue(s, n) => SaysTrue(Tail(s), n)
         /\ SaysTrue(s, n) /\ Head(s).type # "fingerprint" => (Head(s).type = "ok" <=> n = 1)
         /\ Head(s).type = "fingerprint" /\ SaysDone(s) => SaysDone(Tail(s))
<1>1. 1 \in DOMAIN s /\ Head(s) = s[1] /\ DOMAIN s = 1..Len(s) /\ Len(s) \in Nat
      /\ DOMAIN Tail(s) = 1..(Len(s) - 1) /\ \A i \in DOMAIN Tail(s) : Tail(s)[i] = s[i + 1]
  BY DEF EventSeqs
<1>2. \A i \in DOMAIN s : i = 1 \/ (i - 1 \in DOMAIN Tail(s) /\ Tail(s)[i - 1] = s[i])
  BY <1>1
<1>3. \A i \in DOMAIN Tail(s) : i + 1 \in DOMAIN s
  BY <1>1
<1>4. SaysTrue(s, n) => SaysTrue(Tail(s), n)
  BY <1>1, <1>3 DEF SaysTrue
<1>5. SaysTrue(s, n) /\ Head(s).type # "fingerprint" => (Head(s).type = "ok" <=> n = 1)
  BY <1>1 DEF SaysTrue
<1>6. Head(s).type = "fingerprint" /\ SaysDone(s) => SaysDone(Tail(s))
  BY <1>1, <1>2 DEF SaysDone
<1> QED
  BY <1>4, <1>5, <1>6

LEMMA FingerprintIsNoWord ==
  ASSUME NEW s \in EventSeqs, NEW f \in Fps, NEW n
  PROVE  LET t == Append(s, [type |-> "fingerprint", fp |-> f]) IN
           SaysTrue(s, n) => SaysTrue(t, n)
<1> DEFINE t == Append(s, [type |-> "fingerprint", fp |-> f])
<1>1. \A i \in DOMAIN t : (i \in DOMAIN s /\ t[i] = s[i]) \/ t[i].type = "fingerprint"
  BY DEF EventSeqs
<1> QED
  BY <1>1 DEF SaysTrue

Honest(c) ==
  /\ task[c].pc = "gone" => c \in doomed
  /\ bridge = "frb" => result[c] = "none" /\ Cardinality(Oks(chan[c])) = moved[c]
  /\ bridge = "jni" =>
       /\ caller[c] # "none" => task[c].pc # "unused"
       /\ result[c] # "none" => caller[c] \in {"forget", "returned"} /\ ~Alive(c)
       /\ task[c].pc # "over" => moved[c] = 0 /\ ~SaysDone(chan[c])
       /\ task[c].pc = "over" /\ result[c] = "none" => SaysDone(chan[c])
       /\ SaysTrue(chan[c], moved[c])
       /\ result[c] = "ok" => moved[c] = 1
       /\ result[c] = "cancelled" => moved[c] = 0 /\ c \in doomed

HonestInv == \A c \in Calls : Honest(c)

LEMMA HonestIsTrue == IInv /\ TypeInv /\ HonestInv => ResultIsTrue
<1> SUFFICES ASSUME IInv, TypeInv, HonestInv, NEW c \in Calls
             PROVE  /\ result[c] = "ok" => moved[c] = 1
                    /\ result[c] = "cancelled" => moved[c] = 0 /\ c \in doomed
                    /\ bridge = "frb" => Told(c) = moved[c]
  BY DEF ResultIsTrue
<1>1. bridge \in {"jni", "frb"}
  BY DEF TypeInv, PlainTypes
<1> QED
  BY <1>1 DEF HonestInv, Honest, Told, Oks

(* The task of one call ends with a true word, or goes on. *)
LEMMA OneHonest ==
  ASSUME HonestInv, NEW c \in Calls, UNCHANGED <<bridge, calling>>, Honest(c)',
         \A d \in Calls \ {c} : task'[d] = task[d] /\ chan'[d] = chan[d] /\ moved'[d] = moved[d]
  PROVE  HonestInv'
  BY DEF HonestInv, Honest, Alive, calling

LEMMA EndsHonest ==
  ASSUME IInv, TypeInv, HonestInv, NEW c \in Calls, Alive(c), UNCHANGED <<bridge, calling>>,
         NEW said \in {<<Ok>>, <<Failed>>, <<Failed, Failed>>}, Ends(c, said),
         moved' = IF said = <<Ok>> THEN [moved EXCEPT ![c] = @ + 1] ELSE moved
  PROVE  HonestInv'
<1>1. /\ task \in [Calls -> Task] /\ chan \in [Calls -> EventSeqs] /\ moved \in [Calls -> Nat]
      /\ chan[c] \in EventSeqs /\ Honest(c) /\ bridge \in {"jni", "frb"}
  BY DEF IInv, PinInv, PinTypes, ActiveInv, CallTypes, TypeInv, PlainTypes, HonestInv
<1> DEFINE t == [NoTask EXCEPT !.kind = task[c].kind, !.pc = "over"]
           s == chan[c] \o said
<1>2. t.pc = "over"
  BY <1>1, TasksAreTyped DEF Task
<1>3. task' = [task EXCEPT ![c] = t] /\ chan' = [chan EXCEPT ![c] = s]
  BY DEF Ends
<1>4. Cardinality(Oks(s)) = Cardinality(Oks(chan[c])) + (IF said = <<Ok>> THEN 1 ELSE 0)
  <2>1. <<Ok>> # <<Failed>> /\ <<Ok>> # <<Failed, Failed>>
    BY DEF Ok, Failed
  <2>2. Cardinality(Oks(chan[c])) \in Nat
    BY <1>1, OksOfQueue
  <2> QED
    BY <1>1, <2>1, <2>2, OksOfMore
<1>5. /\ SaysDone(s)
      /\ ~SaysDone(chan[c]) => SaysTrue(s, IF said = <<Ok>> THEN 1 ELSE 0)
  <2>1. <<Ok>> # <<Failed>> /\ <<Ok>> # <<Failed, Failed>>
    BY DEF Ok, Failed
  <2> QED
    BY <1>1, <2>1, LastWord
<1>6. s \in EventSeqs
  <2>1. <<Ok>> \in EventSeqs /\ <<Failed>> \in EventSeqs /\ <<Failed, Failed>> \in EventSeqs
    BY Saying DEF EventSeqs
  <2>2. said \in EventSeqs
    BY <2>1
  <2> QED
    BY <1>1, <2>2, SayingMore
<1> HIDE DEF s, t
<1>7. /\ task'[c] = t /\ chan'[c] = s
      /\ moved'[c] = moved[c] + (IF said = <<Ok>> THEN 1 ELSE 0)
      /\ \A d \in Calls \ {c} : task'[d] = task[d] /\ chan'[d] = chan[d] /\ moved'[d] = moved[d]
  BY <1>1, <1>3
<1>8. UNCHANGED <<bridge, caller, result, doomed>>
  BY DEF calling
<1>9. task[c].pc \notin {"unused", "over", "gone"}
  BY DEF Alive
<1>10. Honest(c)'
  <2>1. bridge = "jni" => moved[c] = 0 /\ ~SaysDone(chan[c]) /\ result[c] = "none"
    BY <1>1, <1>9 DEF Honest, Alive
  <2>2. bridge = "jni" => moved'[c] = IF said = <<Ok>> THEN 1 ELSE 0
    BY <1>7, <2>1
  <2>3. bridge = "frb" => result'[c] = "none" /\ Cardinality(Oks(chan'[c])) = moved'[c]
    BY <1>1, <1>4, <1>7, <1>8 DEF Honest
  <2> QED
    BY <1>1, <1>2, <1>5, <1>7, <1>8, <2>1, <2>2, <2>3 DEF Honest
<1> QED
  BY <1>7, <1>10, OneHonest

(* A listener that goes on says what it does as well; it is an FRB one.        *)
LEMMA ReportsHonest ==
  ASSUME IInv, TypeInv, HonestInv, NEW c \in Calls, Alive(c), UNCHANGED <<bridge, calling>>,
         NEW said \in {<<Ok>>, <<Failed>>, <<Failed, Failed>>}, Reports(c, said),
         moved' = IF said = <<Ok>> THEN [moved EXCEPT ![c] = @ + 1] ELSE moved
  PROVE  HonestInv'
<1>1. /\ task \in [Calls -> Task] /\ chan \in [Calls -> EventSeqs] /\ moved \in [Calls -> Nat]
      /\ chan[c] \in EventSeqs /\ Honest(c)
  BY DEF IInv, PinInv, PinTypes, ActiveInv, CallTypes, TypeInv, PlainTypes, HonestInv
<1>2. CASE Ends(c, said)
  BY <1>2, EndsHonest
<1>3. CASE /\ bridge = "frb" /\ task' = [task EXCEPT ![c].pc = "start", ![c].got = NoFp]
           /\ chan' = [chan EXCEPT ![c] = @ \o said]
  <2> DEFINE s == chan[c] \o said
  <2>1. Cardinality(Oks(s)) = Cardinality(Oks(chan[c])) + (IF said = <<Ok>> THEN 1 ELSE 0)
    <3>1. <<Ok>> # <<Failed>> /\ <<Ok>> # <<Failed, Failed>>
      BY DEF Ok, Failed
    <3>2. Cardinality(Oks(chan[c])) \in Nat
      BY <1>1, OksOfQueue
    <3> QED
      BY <1>1, <3>1, <3>2, OksOfMore
  <2> HIDE DEF s
  <2>2. /\ task'[c].pc = "start" /\ chan'[c] = s
        /\ moved'[c] = moved[c] + (IF said = <<Ok>> THEN 1 ELSE 0)
        /\ \A d \in Calls \ {c} : task'[d] = task[d] /\ chan'[d] = chan[d] /\ moved'[d] = moved[d]
    BY <1>1, <1>3 DEF Task, s
  <2>3. Honest(c)'
    BY <1>1, <1>3, <2>1, <2>2 DEF Honest, calling
  <2> QED
    BY <2>2, <2>3, OneHonest
<1> QED
  BY <1>2, <1>3 DEF Reports

(* A step of the task that says nothing of the outcome. *)
LEMMA TalksHonest ==
  ASSUME IInv, TypeInv, HonestInv, NEW c \in Calls, Alive(c), UNCHANGED <<bridge, calling, moved>>,
         \A d \in Calls \ {c} : task'[d] = task[d],
         task'[c].pc \in {"start", "dial", "accept", "move", "moving"} \/ (task'[c].pc = "gone" /\ c \in doomed),
         \/ UNCHANGED chan
         \/ \E f \in Fps : chan' = [chan EXCEPT ![c] = Append(@, [type |-> "fingerprint", fp |-> f])]
  PROVE  HonestInv'
<1>1. chan \in [Calls -> EventSeqs] /\ Honest(c) /\ task[c].pc \notin {"unused", "over", "gone"}
  BY DEF IInv, ActiveInv, CallTypes, HonestInv, Alive
<1>2. /\ \A d \in Calls \ {c} : chan'[d] = chan[d]
      /\ Oks(chan'[c]) = Oks(chan[c]) /\ (SaysDone(chan'[c]) => SaysDone(chan[c]))
      /\ SaysTrue(chan[c], moved[c]) => SaysTrue(chan'[c], moved[c])
  <2>1. CASE UNCHANGED chan
    BY <2>1
  <2>2. ASSUME NEW f \in Fps, chan' = [chan EXCEPT ![c] = Append(@, [type |-> "fingerprint", fp |-> f])]
        PROVE  /\ \A d \in Calls \ {c} : chan'[d] = chan[d]
               /\ Oks(chan'[c]) = Oks(chan[c]) /\ (SaysDone(chan'[c]) => SaysDone(chan[c]))
               /\ SaysTrue(chan[c], moved[c]) => SaysTrue(chan'[c], moved[c])
    <3>1. /\ chan'[c] = Append(chan[c], [type |-> "fingerprint", fp |-> f])
          /\ \A d \in Calls \ {c} : chan'[d] = chan[d]
      BY <1>1, <2>2
    <3> DEFINE t == Append(chan[c], [type |-> "fingerprint", fp |-> f])
    <3>2. chan[c] \in EventSeqs
      BY <1>1
    <3>3. Oks(t) = Oks(chan[c])
      BY <3>2, OksOfMore
    <3>4. SaysDone(t) => SaysDone(chan[c])
      BY <3>2, SayingMore
    <3>5. SaysTrue(chan[c], moved[c]) => SaysTrue(t, moved[c])
      BY <3>2, FingerprintIsNoWord
    <3>6. chan'[c] = t
      BY <3>1
    <3> HIDE DEF t
    <3> QED
      BY <3>1, <3>3, <3>4, <3>5, <3>6
  <2> QED
    BY <2>1, <2>2
<1>3. Honest(c)'
  BY <1>1, <1>2 DEF Honest, calling, Alive
<1> QED
  BY <1>2, <1>3, OneHonest

LEMMA TaskHonest ==
  ASSUME IInv, TypeInv, HonestInv, NEW c \in Calls, TaskStep(c) \/ Accept(c) \/ Move(c) \/ Dies(c)
  PROVE  HonestInv'
<1>1. /\ task[c].pc \notin {"unused", "over", "gone"} /\ UNCHANGED <<bridge, calling>>
  BY DEF TaskStep, Resolve, Dial, FallBack, Meet, Bind, Refuse, Begin, Move, Accept, Dies, Alive
<1>2. Alive(c) /\ task \in [Calls -> Task] /\ holder \in [Addrs -> Fps] /\ Asks(task[c])
  BY <1>1 DEF Alive, IInv, PinInv, PinTypes
<1>3. <<Ok>> # <<Failed>> /\ <<Ok>> # <<Failed, Failed>>
  BY DEF Ok, Failed
<1>4. CASE Ends(c, <<Failed>>) /\ UNCHANGED moved
  BY <1>1, <1>2, <1>3, <1>4, EndsHonest
<1>5. CASE Refuse(c) \/ Move(c)
  BY <1>1, <1>2, <1>3, <1>5, ReportsHonest DEF Refuse, Move
<1>6. CASE /\ \/ Resolve(c) \/ Dial(c) \/ FallBack(c) \/ Meet(c) \/ Bind(c) \/ Accept(c) \/ Begin(c)
        /\ ~Ends(c, <<Failed>>)
  <2>1. \A d \in Calls \ {c} : task'[d] = task[d]
    BY <1>2, <1>6 DEF Resolve, Dial, FallBack, Meet, Bind, Accept, Begin
  <2>2. \/ UNCHANGED chan
        \/ \E f \in Fps : chan' = [chan EXCEPT ![c] = Append(@, [type |-> "fingerprint", fp |-> f])]
    <3>1. CASE Dial(c)
      <4>1. holder[task[c].at] \in Fps
        BY <1>2, <3>1 DEF Dial, Asks
      <4> QED
        BY <1>6, <3>1, <4>1 DEF Dial
    <3>2. CASE Resolve(c) \/ FallBack(c) \/ Meet(c) \/ Bind(c) \/ Accept(c) \/ Begin(c)
      BY <1>6, <3>2 DEF Resolve, FallBack, Meet, Bind, Accept, Begin
    <3> QED
      BY <1>6, <3>1, <3>2
  <2>3. task'[c].pc \in {"dial", "accept", "move", "moving"} /\ UNCHANGED moved
    <3>1. CASE Resolve(c)
      <4>1. PICK x \in Targets(task[c]) :
              task' = [task EXCEPT ![c].pc = "dial", ![c].at = x[1], ![c].pin = x[2]]
        BY <1>6, <3>1 DEF Resolve
      <4>2. task'[c] = [task[c] EXCEPT !.pc = "dial", !.at = x[1], !.pin = x[2]] /\ task[c] \in Task
        BY <1>2, <4>1
      <4> QED
        BY <3>1, <4>2 DEF Task, Resolve
    <3>2. CASE Dial(c)
      <4>1. task' = [task EXCEPT ![c].pc = "move", ![c].got = holder[task[c].at]]
        BY <1>6, <3>2 DEF Dial
      <4>2. task'[c] = [task[c] EXCEPT !.pc = "move", !.got = holder[task[c].at]] /\ task[c] \in Task
        BY <1>2, <4>1
      <4> QED
        BY <3>2, <4>2 DEF Task, Dial
    <3>3. CASE Meet(c) \/ Accept(c)
      <4>1. PICK f \in Fps : task' = [task EXCEPT ![c].pc = "move", ![c].got = f]
        BY <1>6, <3>3 DEF Meet, Accept
      <4>2. task'[c] = [task[c] EXCEPT !.pc = "move", !.got = f] /\ task[c] \in Task
        BY <1>2, <4>1
      <4> QED
        BY <3>3, <4>2 DEF Task, Meet, Accept
    <3>4. CASE Bind(c)
      BY <1>2, <1>6, <3>4 DEF Bind, Task
    <3>5. CASE FallBack(c) \/ Begin(c)
      BY <1>2, <3>5 DEF FallBack, Begin, Task
    <3> QED
      BY <1>6, <3>1, <3>2, <3>3, <3>4, <3>5
  <2> QED
    BY <1>1, <1>2, <2>1, <2>2, <2>3, TalksHonest
<1>7. CASE Dies(c)
  <2> DEFINE t == [NoTask EXCEPT !.kind = task[c].kind, !.pc = "gone"]
  <2>1. task' = [task EXCEPT ![c] = t] /\ UNCHANGED <<chan, moved>> /\ c \in doomed
    BY <1>7 DEF Dies
  <2>2. t.pc = "gone"
    BY <1>2, TasksAreTyped DEF Task
  <2> HIDE DEF t
  <2>3. task'[c].pc = "gone" /\ \A d \in Calls \ {c} : task'[d] = task[d]
    BY <1>2, <2>1, <2>2
  <2> QED
    BY <1>1, <1>2, <2>1, <2>3, TalksHonest
<1> QED
  BY <1>4, <1>5, <1>6, <1>7 DEF TaskStep, Resolve, Dial, FallBack, Meet, Bind, Begin, Accept

(* A result is taken from the channel, or means that the task was dropped.     *)
LEMMA CallerHonest ==
  ASSUME IInv, TypeInv, HonestInv, NEW c \in Calls, CallerStep(c)
  PROVE  HonestInv'
<1>1. /\ chan \in [Calls -> EventSeqs] /\ result \in [Calls -> {"none", "ok", "err", "cancelled"}]
      /\ caller \in [Calls -> {"none", "spawned", "drain", "forget", "returned"}]
      /\ bridge \in {"jni", "frb"} /\ chan[c] \in EventSeqs /\ Honest(c) /\ Waiting(c)
  BY DEF IInv, ActiveInv, CallTypes, TypeInv, PlainTypes, HonestInv
<1>2. /\ UNCHANGED <<bridge, task, doomed, moved>> /\ caller[c] \in {"spawned", "drain", "forget"}
      /\ \A d \in Calls \ {c} : caller'[d] = caller[d] /\ chan'[d] = chan[d] /\ result'[d] = result[d]
  BY <1>1 DEF CallerStep, Track, Drain, Forget
<1>3. ASSUME Honest(c)' PROVE HonestInv'
  BY <1>2, <1>3 DEF HonestInv, Honest, Alive
<1>4. CASE Track(c)
  <2>1. /\ caller[c] = "spawned" /\ caller'[c] \in {"drain", "returned"} /\ UNCHANGED <<chan, result>>
    BY <1>1, <1>4 DEF Track
  <2>2. Honest(c)'
    BY <1>1, <1>2, <2>1 DEF Honest, Alive
  <2> QED
    BY <1>3, <2>2
<1>5. CASE Forget(c)
  <2>1. caller[c] = "forget" /\ caller'[c] = "returned" /\ UNCHANGED <<chan, result>>
    BY <1>1, <1>5 DEF Forget
  <2>2. Honest(c)'
    BY <1>1, <1>2, <2>1 DEF Honest, Alive
  <2> QED
    BY <1>3, <2>2
<1>6. CASE Drain(c)
  <2>1. /\ bridge = "jni" /\ caller[c] = "drain" /\ task[c].pc # "unused" /\ result[c] = "none"
    BY <1>1, <1>6 DEF Drain, Waiting, Honest
  <2>2. CASE chan[c] # <<>> /\ Head(chan[c]).type = "fingerprint"
    <3>1. chan'[c] = Tail(chan[c]) /\ caller'[c] = caller[c] /\ result'[c] = result[c]
      BY <1>1, <1>6, <2>2 DEF Drain
    <3>2. /\ SaysDone(Tail(chan[c])) <=> SaysDone(chan[c])
          /\ SaysTrue(Tail(chan[c]), moved[c])
      BY <1>1, <2>1, <2>2, SayingMore, WordTaken DEF Honest
    <3>3. Honest(c)'
      BY <1>1, <1>2, <2>1, <3>1, <3>2 DEF Honest, Alive
    <3> QED
      BY <1>3, <3>3
  <2>3. CASE chan[c] # <<>> /\ Head(chan[c]).type # "fingerprint"
    <3>1. chan'[c] = Tail(chan[c]) /\ caller'[c] = "forget" /\ result'[c] = Head(chan[c]).type
      BY <1>1, <1>6, <2>3 DEF Drain
    <3>2. Head(chan[c]).type \in {"ok", "err"}
      <4>1. Head(chan[c]) \in Event
        BY <1>1, <2>3 DEF EventSeqs
      <4> QED
        BY <2>3, <4>1 DEF Event
    <3>3. SaysDone(chan[c])
      BY <1>1, <2>3, SayingMore
    <3>4. /\ SaysTrue(Tail(chan[c]), moved[c])
          /\ Head(chan[c]).type = "ok" => moved[c] = 1
      BY <1>1, <2>1, <2>3, WordTaken DEF Honest
    <3>5. task[c].pc = "over"
      BY <1>1, <2>1, <3>3 DEF Honest
    <3>6. Honest(c)'
      BY <1>1, <1>2, <2>1, <3>1, <3>2, <3>4, <3>5 DEF Honest, Alive
    <3> QED
      BY <1>3, <3>6
  <2>4. CASE chan[c] = <<>>
    <3>1. ~Alive(c) /\ UNCHANGED chan /\ caller'[c] = "forget" /\ result'[c] = "cancelled"
      BY <1>1, <1>6, <2>4 DEF Drain, SendersGone, Closed
    <3>2. ~SaysDone(chan[c])
      BY <2>4, Saying
    <3>3. task[c].pc = "gone"
      BY <1>1, <2>1, <3>1, <3>2 DEF Honest, Alive
    <3>4. Honest(c)'
      BY <1>1, <1>2, <2>1, <3>1, <3>2, <3>3 DEF Honest, Alive
    <3> QED
      BY <1>3, <3>4
  <2> QED
    BY <2>2, <2>3, <2>4
<1> QED
  BY <1>4, <1>5, <1>6 DEF CallerStep

LEMMA HonestInductive == IInv /\ TypeInv /\ HonestInv /\ [Next]_vars => HonestInv'
<1> SUFFICES ASSUME IInv, TypeInv, HonestInv, [Next]_vars PROVE HonestInv'
  OBVIOUS
<1>1. ASSUME NEW c \in Calls, NEW k, NEW a, NEW fp, Spawn(c, k, a, fp) PROVE HonestInv'
  <2> DEFINE t == [NoTask EXCEPT !.kind = k, !.pc = "start", !.to = a, !.cached = fp]
  <2>1. /\ task' = [task EXCEPT ![c] = t] /\ caller[c] = "none" /\ caller' = [caller EXCEPT ![c] = "spawned"]
        /\ UNCHANGED <<bridge, chan, result, doomed, moved>>
    BY <1>1 DEF Spawn
  <2>2. t.pc = "start"
    BY DEF NoTask
  <2> HIDE DEF t
  <2>3. /\ task'[c].pc = "start" /\ caller'[c] = "spawned" /\ task[c].pc = "unused"
        /\ \A d \in Calls \ {c} : task'[d] = task[d] /\ caller'[d] = caller[d]
    BY <2>1, <2>2 DEF IInv, PinInv, PinTypes, ActiveInv, CallTypes, Waiting
  <2>4. Honest(c)'
    BY <2>1, <2>3 DEF HonestInv, Honest, Alive
  <2>5. \A d \in Calls \ {c} : Honest(d)'
    BY <2>1, <2>3 DEF HonestInv, Honest, Alive
  <2> QED
    BY <2>4, <2>5 DEF HonestInv
<1>2. ASSUME NEW c \in Calls, App(c) PROVE HonestInv'
  BY <1>1, <1>2 DEF App, StartListener, PairRendezvous, PairSend, Connect, ConnectDirect, ConnectWithFp
<1>3. CASE Cancel
  <2>1. doomed \subseteq doomed' /\ UNCHANGED <<bridge, task, caller, chan, result, moved>>
    BY <1>3 DEF Cancel
  <2> QED
    BY <2>1 DEF HonestInv, Honest, Alive
<1>4. CASE UNCHANGED <<bridge, task, caller, chan, result, moved, doomed>>
  BY <1>4 DEF HonestInv, Honest, Alive
<1>5. Shift \/ UNCHANGED vars \/ (\E c \in Calls : Drained(c)) =>
        UNCHANGED <<bridge, task, caller, chan, result, moved, doomed>>
  BY DEF Shift, Drained, vars, calling
<1> QED
  BY <1>2, <1>3, <1>4, <1>5, TaskHonest, CallerHonest DEF Next

LEMMA HonestInitially == Init => HonestInv
<1> SUFFICES ASSUME Init PROVE HonestInv
  OBVIOUS
<1>1. ASSUME NEW c \in Calls
      PROVE  /\ task[c].pc = "unused" /\ caller[c] = "none" /\ chan[c] = <<>> /\ result[c] = "none"
             /\ moved[c] = 0
  BY TasksAreTyped DEF Init
<1>2. Oks(<<>>) = {} /\ Cardinality({}) = 0 /\ ~SaysDone(<<>>) /\ SaysTrue(<<>>, 0)
  BY FS_EmptySet DEF Oks, SaysDone, SaysTrue
<1> QED
  BY <1>1, <1>2 DEF HonestInv, Honest

(* Nothing an app is told is wrong: "" from a JNI call means a transfer that   *)
(* completed, "Transfer cancelled" one that did not and whose handle was used, *)
(* and a stream has one Completed for each transfer that did.                  *)
THEOREM ResultIsAlwaysTrue == Spec => []ResultIsTrue
  BY IInvInitially, IInvInductive, TypeInvInitially, TypeInvInductive, HonestInitially, HonestInductive,
     HonestIsTrue, PTL DEF Spec
===============================================================================
