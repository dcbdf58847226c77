----------------------------- MODULE AppTransfers -----------------------------
(* The transfers an app runs through the Rust library: the JNI calls of the    *)
(* Android app (mobile/src/lib.rs), which block until their task reports, and  *)
(* the FRB calls of the Flutter app (packages/hyx_isolates/.../transfer.rs),   *)
(* which return at once and report on a stream.  Both spawn one task a call    *)
(* and keep one global ACTIVE handle, which cancel aborts.                     *)
(*                                                                             *)
(* The apps are the environment: they may start any call from any thread and   *)
(* cancel at any time.  A transfer (FolderTransfer) and a pairing (Establish)  *)
(* have either outcome here, and a transfer may wait for its peer for ever.    *)
(* Progress events and formatting are left out.                                *)
EXTENDS Naturals, Sequences, FiniteSets

CONSTANTS
  Bridges,      (* which of "jni", "frb"                                       *)
  Calls,        (* calls the app may make, each once                          *)
  NoCall,
  Addrs, NoAddr,
  Fps,          (* certificate fingerprints, one a device                     *)
  Holders,      (* who may hold which address at first                        *)
  NoFp,         (* none, or a text that does not parse as one                 *)
  MaxVisits,    (* peers that dial a listener: a bound only                   *)
  MaxMoves      (* times an address changes hands, or the block list changes:  *)
                (* a bound only                                               *)

ASSUME ConstantsAreSane ==
  /\ Bridges \subseteq {"jni", "frb"}
  /\ Holders \subseteq [Addrs -> Fps]
  /\ {MaxVisits, MaxMoves} \subseteq Nat
  /\ NoCall \notin Calls /\ NoAddr \notin Addrs /\ NoFp \notin Fps

VARIABLES
  bridge,   (* the bridge in use                                               *)
  holder,   (* the device that answers at an address                          *)
  blocked,  (* BLOCKED_DEVICES                                                 *)
  task,     (* of each call: what it was asked, where it is                   *)
  caller,   (* where the thread that made the call is                         *)
  chan,     (* what the task has sent: the mpsc channel (JNI) or the stream    *)
  result,   (* what a JNI call returned                                        *)
  active,   (* ACTIVE                                                          *)
  doomed,   (* tasks whose abort handle was used                              *)
  port,     (* the listening port: a call's endpoint holds it, or a closed one *)
            (* of it still drains its connections                             *)
  moved,    (* history: transfers of a call that completed                    *)
  alone,    (* history: no other call has overlapped this one                 *)
  visits, moves
vars == <<bridge, holder, blocked, task, caller, chan, result, active, doomed, port, moved, alone, visits, moves>>
world == <<holder, blocked, moves>>
calling == <<caller, result, active, doomed, alone>>

Kinds == {"listen", "connect", "connectWithFp", "direct", "pairReceive", "pairSend"}
Task == [kind : Kinds \cup {"none"},
         pc : {"unused", "start", "dial", "accept", "move", "moving", "over", "gone"},
         to : Addrs \cup {NoAddr}, at : Addrs \cup {NoAddr}, cached : Fps \cup {NoFp},
         pin : Fps \cup {NoFp}, got : Fps \cup {NoFp}]
NoTask == [kind |-> "none", pc |-> "unused", to |-> NoAddr, at |-> NoAddr,
           cached |-> NoFp, pin |-> NoFp, got |-> NoFp]

Event == [type : {"fingerprint"}, fp : Fps] \cup [type : {"ok", "err"}]
Ok == [type |-> "ok"]
Failed == [type |-> "err"]

Alive(c) == task[c].pc \notin {"unused", "over", "gone"}
Receives(c) == task[c].kind \in {"listen", "pairReceive"}

Init ==
  /\ bridge \in Bridges
  /\ holder \in Holders /\ blocked = {}
  /\ task = [c \in Calls |-> NoTask]
  /\ caller = [c \in Calls |-> "none"]
  /\ chan = [c \in Calls |-> <<>>]
  /\ result = [c \in Calls |-> "none"]
  /\ active = NoCall /\ doomed = {}
  /\ port = [c \in Calls |-> "free"]
  /\ moved = [c \in Calls |-> 0]
  /\ alone = [c \in Calls |-> FALSE]
  /\ visits = 0 /\ moves = 0

-------------------------------------------------------------------------------
(* The thread that makes a call. *)

(* runtime().spawn: the task may run, and end, before the call goes on. *)
Spawn(c, k, a, fp) ==
  /\ caller[c] = "none"
  /\ task' = [task EXCEPT ![c] = [NoTask EXCEPT !.kind = k, !.pc = "start", !.to = a, !.cached = fp]]
  /\ caller' = [caller EXCEPT ![c] = "spawned"]
  /\ alone' = [d \in Calls |-> IF d = c THEN \A o \in Calls : ~Alive(o) /\ caller[o] \in {"none", "returned"}
                                         ELSE FALSE]
  /\ UNCHANGED <<bridge, world, chan, result, active, doomed, port, moved, visits>>

StartListener(c) == Spawn(c, "listen", NoAddr, NoFp)
PairRendezvous(c) == Spawn(c, "pairReceive", NoAddr, NoFp)
PairSend(c) == Spawn(c, "pairSend", NoAddr, NoFp)

(* JNI only: it takes no fingerprint. *)
Connect(c) == bridge = "jni" /\ \E a \in Addrs \cup {NoAddr} : Spawn(c, "connect", a, NoFp)

(* FRB only: a fingerprint of another length fails as a missing peer does. *)
ConnectDirect(c) == bridge = "frb" /\ \E a \in Addrs, fp \in Fps : Spawn(c, "direct", a, fp)

ConnectWithFp(c) ==
  \E a \in Addrs \cup {NoAddr}, fp \in Fps \cup {NoFp} : Spawn(c, "connectWithFp", a, fp)

(* Mutant: a second transfer does not replace the handle of the first. *)
TrackFirst(c) == IF active = NoCall THEN c ELSE active

(* track: the last call to track owns ACTIVE. *)
Tracked(c) == c

Track(c) ==
  /\ caller[c] = "spawned"
  /\ active' = Tracked(c)
  /\ caller' = [caller EXCEPT ![c] = IF bridge = "jni" THEN "drain" ELSE "returned"]
  /\ UNCHANGED <<bridge, world, task, chan, result, doomed, port, moved, alone, visits>>

(* Mutants: the caller keeps a sender of its own; a closed channel is success. *)
SendersNeverGone(c) == FALSE
ClosedIsOk(c) == "ok"

(* Every sender of a channel is owned by its task. *)
SendersGone(c) == ~Alive(c)
Closed(c) == "cancelled"

(* drain: callbacks for what comes, the result of Done, and a failure if the   *)
(* channel closes without one.                                                 *)
Drain(c) ==
  /\ caller[c] = "drain"
  /\ \/ /\ chan[c] # <<>>
        /\ chan' = [chan EXCEPT ![c] = Tail(@)]
        /\ IF Head(chan[c]).type = "fingerprint"
             THEN UNCHANGED <<caller, result>>
             ELSE /\ caller' = [caller EXCEPT ![c] = "forget"]
                  /\ result' = [result EXCEPT ![c] = Head(chan[c]).type]
     \/ /\ chan[c] = <<>> /\ SendersGone(c)
        /\ caller' = [caller EXCEPT ![c] = "forget"]
        /\ result' = [result EXCEPT ![c] = Closed(c)]
        /\ UNCHANGED chan
  /\ UNCHANGED <<bridge, world, task, active, doomed, port, moved, alone, visits>>

(* forget_active, whoever's handle it is. *)
Forget(c) ==
  /\ caller[c] = "forget"
  /\ active' = NoCall
  /\ caller' = [caller EXCEPT ![c] = "returned"]
  /\ UNCHANGED <<bridge, world, task, chan, result, doomed, port, moved, alone, visits>>

Cancel ==
  /\ active # NoCall
  /\ doomed' = doomed \cup {active}
  /\ active' = NoCall
  /\ UNCHANGED <<bridge, world, task, caller, chan, result, port, moved, alone, visits>>

-------------------------------------------------------------------------------
(* The task of a call. *)

(* A dropped endpoint drains. *)
Dropped(p) == IF p = "held" THEN "draining" ELSE p

(* Mutant: the endpoint outlives the task. *)
EndsListening(c, said) ==
  /\ task' = [task EXCEPT ![c] = [NoTask EXCEPT !.kind = task[c].kind, !.pc = "over"]]
  /\ chan' = [chan EXCEPT ![c] = @ \o said]
  /\ UNCHANGED port

(* The task ends, with or without a word. *)
Ends(c, said) ==
  /\ task' = [task EXCEPT ![c] = [NoTask EXCEPT !.kind = task[c].kind, !.pc = "over"]]
  /\ chan' = [chan EXCEPT ![c] = @ \o said]
  /\ port' = [port EXCEPT ![c] = Dropped(@)]

(* discover_peer: the fingerprint of a beacon from the address, or any peer's. *)
Beacons(a) == IF a = NoAddr THEN {<<b, holder[b]>> : b \in Addrs} ELSE {<<a, holder[a]>>}

(* What to dial and which certificate to ask for: a cached fingerprint is      *)
(* taken as it is; with none that parses, a beacon's; with no beacon none at   *)
(* all (TOFU), where the call allows it.  NoFp asks for nothing.               *)
Targets(t) ==
  CASE t.kind = "direct" -> {<<t.to, t.cached>>}
    [] t.kind = "connectWithFp" /\ t.to # NoAddr ->
         IF t.cached \in Fps THEN {<<t.to, t.cached>>} ELSE Beacons(t.to) \cup {<<t.to, NoFp>>}
    [] OTHER -> Beacons(t.to)

Resolve(c) ==
  /\ task[c].pc = "start" /\ task[c].kind \in {"connect", "connectWithFp", "direct"}
  /\ \/ \E x \in Targets(task[c]) :
          /\ task' = [task EXCEPT ![c].pc = "dial", ![c].at = x[1], ![c].pin = x[2]]
          /\ UNCHANGED <<chan, port>>
     \/ Ends(c, <<Failed>>)          (* the name, or any beacon, is not found  *)
  /\ UNCHANGED <<bridge, world, calling, moved, visits>>

(* Mutant: any failed pin falls back to trust on first use. *)
AcceptsAnyone(t) == TRUE

(* A pinning connect fails at any other certificate, as Error::Quic.           *)
Accepts(t) == t.pin \in {NoFp, holder[t.at]}

(* An unpinned connection tells the app the certificate it found.              *)
Dial(c) ==
  /\ task[c].pc = "dial"
  /\ \/ /\ Accepts(task[c])
        /\ task' = [task EXCEPT ![c].pc = "move", ![c].got = holder[task[c].at]]
        /\ chan' = IF task[c].pin # NoFp THEN chan
                   ELSE [chan EXCEPT ![c] = Append(@, [type |-> "fingerprint", fp |-> holder[task[c].at]])]
        /\ UNCHANGED port
     \/ Ends(c, <<Failed>>)        (* out of reach, or another certificate   *)
  /\ UNCHANGED <<bridge, world, calling, moved, visits>>

(* Only connect of the Flutter app reads Error::FingerprintMismatch.           *)
FallsBack(t) == bridge = "frb" /\ t.kind = "connectWithFp"

(* The certificate is the pinned one, but the HelloAck claims another: the     *)
(* cross-check of the handshake fails, and connect dials again with connect_tofu, *)
(* whoever answers.                                                            *)
FallBack(c) ==
  /\ task[c].pc = "dial" /\ task[c].pin # NoFp /\ Accepts(task[c]) /\ FallsBack(task[c])
  /\ task' = [task EXCEPT ![c].pin = NoFp]
  /\ UNCHANGED <<bridge, world, calling, chan, port, moved, visits>>

(* from_rendezvous. *)
Meet(c) ==
  /\ task[c].pc = "start" /\ task[c].kind \in {"pairReceive", "pairSend"}
  /\ \/ \E f \in Fps : task' = [task EXCEPT ![c].pc = "move", ![c].got = f] /\ UNCHANGED <<chan, port>>
     \/ Ends(c, <<Failed>>)
  /\ UNCHANGED <<bridge, world, calling, moved, visits>>

(* P2PSession::accept binds an endpoint of its own, each time; a port that is  *)
(* held, or drains, is in use.                                                 *)
Bind(c) ==
  /\ task[c].pc = "start" /\ task[c].kind = "listen"
  /\ IF \A d \in Calls : port[d] = "free"
       THEN /\ port' = [port EXCEPT ![c] = "held"]
            /\ task' = [task EXCEPT ![c].pc = "accept"]
            /\ UNCHANGED chan
       ELSE Ends(c, <<Failed>>)
  /\ UNCHANGED <<bridge, world, calling, moved, visits>>

(* The first peer that dials, which may fail its handshake. *)
Accept(c) ==
  /\ task[c].pc = "accept" /\ visits < MaxVisits
  /\ visits' = visits + 1
  /\ \/ \E f \in Fps : task' = [task EXCEPT ![c].pc = "move", ![c].got = f] /\ UNCHANGED <<chan, port>>
     \/ Ends(c, <<Failed>>)
  /\ UNCHANGED <<bridge, world, calling, moved>>

(* The one-shot calls report and end.  An FRB listener reports, drops the      *)
(* session with its endpoint and accepts again.                                *)
Reports(c, said) ==
  IF bridge = "frb" /\ task[c].kind = "listen"
    THEN /\ task' = [task EXCEPT ![c].pc = "start", ![c].got = NoFp]
         /\ chan' = [chan EXCEPT ![c] = @ \o said]
         /\ port' = [port EXCEPT ![c] = Dropped(@)]
    ELSE Ends(c, said)

(* A receiving FRB call looks the peer up in the block list; the refusal is    *)
(* told by receive_into and by its caller.                                     *)
Blocked(c) == bridge = "frb" /\ Receives(c) /\ task[c].got \in blocked

Refuse(c) ==
  /\ task[c].pc = "move" /\ Blocked(c)
  /\ Reports(c, <<Failed, Failed>>)
  /\ UNCHANGED <<bridge, world, calling, moved, visits>>

Begin(c) ==
  /\ task[c].pc = "move" /\ ~Blocked(c)
  /\ task' = [task EXCEPT ![c].pc = "moving"]
  /\ UNCHANGED <<bridge, world, calling, chan, port, moved, visits>>

(* The transfer ends.  It need not: the receives of a transfer have no timeout, *)
(* and keepalives hold up the connection of a peer that says nothing.          *)
Move(c) ==
  /\ task[c].pc = "moving"
  /\ \/ Reports(c, <<Ok>>) /\ moved' = [moved EXCEPT ![c] = @ + 1]
     \/ Reports(c, <<Failed>>) /\ UNCHANGED moved
  /\ UNCHANGED <<bridge, world, calling, visits>>

(* An aborted task is dropped, with its session, its senders and its beacons,  *)
(* when the runtime next comes to it.                                          *)
Dies(c) ==
  /\ c \in doomed /\ Alive(c)
  /\ task' = [task EXCEPT ![c] = [NoTask EXCEPT !.kind = task[c].kind, !.pc = "gone"]]
  /\ port' = [port EXCEPT ![c] = Dropped(@)]
  /\ UNCHANGED <<bridge, world, calling, chan, moved, visits>>

-------------------------------------------------------------------------------
(* The rest. *)

Drained(c) ==
  /\ port[c] = "draining"
  /\ port' = [port EXCEPT ![c] = "free"]
  /\ UNCHANGED <<bridge, world, calling, task, chan, moved, visits>>

(* An address goes to another device, or the app calls set_blocked_devices.    *)
Shift ==
  /\ moves < MaxMoves
  /\ moves' = moves + 1
  /\ \/ \E a \in Addrs : \E f \in Fps \ {holder[a]} : holder' = [holder EXCEPT ![a] = f] /\ UNCHANGED blocked
     \/ bridge = "frb" /\ \E f \in Fps : blocked' = {f} /\ UNCHANGED holder
  /\ UNCHANGED <<bridge, calling, task, chan, port, moved, visits>>

App(c) ==
  StartListener(c) \/ PairRendezvous(c) \/ PairSend(c) \/ Connect(c) \/ ConnectDirect(c) \/ ConnectWithFp(c)
CallerStep(c) == Track(c) \/ Drain(c) \/ Forget(c)
TaskStep(c) == Resolve(c) \/ Dial(c) \/ FallBack(c) \/ Meet(c) \/ Bind(c) \/ Refuse(c) \/ Begin(c)

Next ==
  \/ \E c \in Calls : App(c) \/ CallerStep(c) \/ TaskStep(c) \/ Accept(c) \/ Move(c) \/ Dies(c) \/ Drained(c)
  \/ Cancel
  \/ Shift

Spec == Init /\ [][Next]_vars

(* The thread and the task of a call run, and a dial has its timeouts.  Nobody *)
(* need dial a listener, nobody cancel, and no peer answer in a transfer.      *)
FairSpec ==
  Spec /\ \A c \in Calls : WF_vars(CallerStep(c) \/ TaskStep(c) \/ Dies(c))

-------------------------------------------------------------------------------
(* Properties. *)

TypeOK ==
  /\ bridge \in Bridges
  /\ holder \in [Addrs -> Fps] /\ blocked \subseteq Fps
  /\ task \in [Calls -> Task]
  /\ caller \in [Calls -> {"none", "spawned", "drain", "forget", "returned"}]
  /\ chan \in [Calls -> Seq(Event)]
  /\ result \in [Calls -> {"none", "ok", "err", "cancelled"}]
  /\ active \in Calls \cup {NoCall} /\ doomed \subseteq Calls
  /\ port \in [Calls -> {"free", "held", "draining"}]
  /\ \A c \in Calls : port[c] = "held" <=> task[c].kind = "listen" /\ task[c].pc \in {"accept", "move", "moving"}
  /\ moved \in [Calls -> Nat] /\ alone \in [Calls -> BOOLEAN]
  /\ {visits, moves} \subseteq Nat

(* hyxCancel and cancel stop the transfer that runs, if it is the only one:    *)
(* while no other call overlapped it, ACTIVE is its handle from track on.      *)
SoleTransferIsActive ==
  \A c \in Calls : alone[c] /\ Alive(c) /\ caller[c] # "spawned" /\ c \notin doomed => active = c

(* A call that was given a fingerprint exchanges data with the device of that  *)
(* fingerprint only, whoever holds the address by then.  Only connect of the   *)
(* Flutter app may go on with another one, which it has told the app by then.  *)
WasToldOf(c, fp) == \E i \in DOMAIN chan[c] : chan[c][i] = [type |-> "fingerprint", fp |-> fp]
PinIsKept ==
  \A c \in Calls : task[c].cached \in Fps /\ task[c].to # NoAddr /\ task[c].got # NoFp =>
    task[c].got = task[c].cached \/ (FallsBack(task[c]) /\ WasToldOf(c, task[c].got))

(* What the app is told is what happened: an empty JNI result is a transfer    *)
(* that completed, "Transfer cancelled" one that did not and was cancelled,    *)
(* and a stream says Completed once for every file that arrived or was sent.   *)
Told(c) == Cardinality({i \in DOMAIN chan[c] : chan[c][i].type = "ok"})
ResultIsTrue ==
  \A c \in Calls :
    /\ result[c] = "ok" => moved[c] = 1
    /\ result[c] = "cancelled" => moved[c] = 0 /\ c \in doomed
    /\ bridge = "frb" => Told(c) = moved[c]

(* Every call returns and its task ends, unless it is a listener, or is in a   *)
(* transfer whose peer is silent; and then, too, if it is cancelled.  A        *)
(* listener returns if its task is over.                                       *)
EveryCallReturns ==
  \A c \in Calls :
    caller[c] # "none" /\ (task[c].kind # "listen" \/ c \in doomed \/ ~Alive(c))
      ~> (caller[c] = "returned" /\ ~Alive(c)) \/ (task[c].pc = "moving" /\ c \notin doomed)
===============================================================================
