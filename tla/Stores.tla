-------------------------------- MODULE Stores --------------------------------
(* The small files that the hyx processes of one account share: the identity   *)
(* (core/src/identity.rs), the known peers (core/src/known_peers.rs) and the   *)
(* transfer history (core/src/history.rs, which alone takes a lock).           *)
(*                                                                             *)
(* A process of Procs runs once: it gets its identity, may pin a peer it       *)
(* discovered, transfers, and appends its record; or it is hyx history, and    *)
(* reads.  It may crash between any two system calls, and any of them may      *)
(* fail.  What is synced stays (a process crashes, not the machine).           *)
EXTENDS Naturals, FiniteSets

CONSTANTS
  Procs,        (* processes; each names its key pair and its record too       *)
  Peers,
  Absent, Torn, (* a file that does not exist; one not yet, or badly, written  *)
  NoProc,
  MaxDamage     (* times the disk damages the history: a bound only            *)

ASSUME ConstantsAreSane ==
  /\ MaxDamage \in Nat
  /\ NoProc \notin Procs
  /\ {Absent, Torn} \cap Procs = {} /\ Absent # Torn
  /\ \A S \in (SUBSET Procs) \cup (SUBSET Peers) : S \notin {Absent, Torn}

VARIABLES
  pc, mem,        (* of each process: where it is, the records it has read     *)
  id,             (* the key and the certificate it works with                 *)
  known, fd,      (* the peers it has read or pinned; the temporary file it    *)
                  (* has open                                                  *)
  key, cert,      (* identity.key, identity.cert: whose                        *)
  text,           (* what the temporary file that a process created holds      *)
  tmpAt, peersAt, (* which of them is known_peers.json.tmp, known_peers.json   *)
  lock,           (* who holds history.json.lock                               *)
  htmp, hist,     (* history.json.tmp, history.json: the records               *)
  damaged,        (* a byte of history.json is bad: it does not parse          *)
  aside,          (* the records in history.json.corrupt-<seconds>, and those  *)
                  (* that the disk itself wiped out                            *)
  damages,
  acked, pinned,  (* history: records and peers whose writer was told Ok       *)
  before,         (* history: what was acked when a reader started             *)
  raced, crossed  (* history: two processes generated, or pinned, at a time    *)
run == <<pc, mem>>
identity == <<id, key, cert, raced>>
peers == <<known, fd, text, tmpAt, peersAt, pinned, crossed>>
history == <<lock, htmp, hist, damaged, aside, acked>>
vars == <<run, identity, peers, history, damages, before>>

Generating == {"openKey", "fillKey", "openCert", "fillCert"}
Pinning == {"openTmp", "fillTmp", "renameTmp"}
Appending == {"load", "openH", "fillH", "renameH", "unlock"}
Ended == {"over", "shown", "unread", "dead"}
Places == {"idle", "identity", "readKey", "readCert", "pin", "lock", "look", "read"}
            \cup Generating \cup Pinning \cup Appending \cup Ended

Nobody == [key |-> Absent, cert |-> Absent]
Go(p, to) == pc' = [pc EXCEPT ![p] = to]

Init ==
  /\ pc = [p \in Procs |-> "idle"] /\ mem = [p \in Procs |-> {}]
  /\ id = [p \in Procs |-> Nobody]
  /\ known = [p \in Procs |-> {}] /\ fd = [p \in Procs |-> NoProc]
  /\ key = Absent /\ cert = Absent /\ raced = FALSE
  /\ text = [p \in Procs |-> {}] /\ tmpAt = NoProc /\ peersAt = NoProc /\ crossed = FALSE
  /\ lock = NoProc /\ htmp = Absent /\ hist = Absent /\ damaged = FALSE /\ aside = {}
  /\ damages = 0 /\ acked = {} /\ pinned = {} /\ before = [p \in Procs |-> {}]

Start(p) ==
  /\ pc[p] = "idle"
  /\ \E to \in {"identity", "look"} : Go(p, to)
  /\ before' = [before EXCEPT ![p] = IF pc'[p] = "look" THEN acked ELSE {}]
  /\ UNCHANGED <<mem, identity, peers, history, damages>>

-------------------------------------------------------------------------------
(* Identity::load_or_generate. *)

(* Mutant: the files are looked for elsewhere. *)
NeverStored(k, c) == FALSE

Stored(k, c) == Absent \notin {k, c}

LoadOrGenerate(p) ==
  /\ pc[p] = "identity"
  /\ IF Stored(key, cert)
       THEN Go(p, "readKey") /\ UNCHANGED raced
       ELSE Go(p, "openKey") /\ raced' = (raced \/ \E q \in Procs : pc[q] \in Generating)
  /\ UNCHANGED <<mem, id, key, cert, peers, history, damages, before>>

(* load: one file after the other, of which either may not parse. *)
ReadKey(p) ==
  /\ pc[p] = "readKey"
  /\ id' = [id EXCEPT ![p].key = key]
  /\ Go(p, "readCert")
  /\ UNCHANGED <<mem, key, cert, raced, peers, history, damages, before>>

ReadCert(p) ==
  /\ pc[p] = "readCert"
  /\ id' = [id EXCEPT ![p].cert = cert]
  /\ Go(p, IF Torn \in {id[p].key, cert} THEN "dead" ELSE "pin")
  /\ UNCHANGED <<mem, key, cert, raced, peers, history, damages, before>>

(* persist: first the key, then the certificate, each truncated, then written. *)
OpenKey(p) ==
  /\ pc[p] = "openKey"
  /\ key' = Torn /\ Go(p, "fillKey")
  /\ UNCHANGED <<mem, id, cert, raced, peers, history, damages, before>>

FillKey(p) ==
  /\ pc[p] = "fillKey"
  /\ key' = p /\ Go(p, "openCert")
  /\ UNCHANGED <<mem, id, cert, raced, peers, history, damages, before>>

OpenCert(p) ==
  /\ pc[p] = "openCert"
  /\ cert' = Torn /\ Go(p, "fillCert")
  /\ UNCHANGED <<mem, id, key, raced, peers, history, damages, before>>

FillCert(p) ==
  /\ pc[p] = "fillCert"
  /\ cert' = p /\ id' = [id EXCEPT ![p] = [key |-> p, cert |-> p]]
  /\ Go(p, "pin")
  /\ UNCHANGED <<mem, key, raced, peers, history, damages, before>>

-------------------------------------------------------------------------------
(* KnownPeers: open_default and verify_or_pin, with no lock but the process's  *)
(* own.  Its caller (discover_peer) presents the fingerprint it claims, and    *)
(* goes on whatever happens.                                                   *)

(* The call fails, or there was none: an accepting process pins nobody. *)
NoPin(p) ==
  /\ pc[p] \in {"pin"} \cup Pinning
  /\ Go(p, "lock")
  /\ known' = [known EXCEPT ![p] = {}] /\ fd' = [fd EXCEPT ![p] = NoProc]
  /\ UNCHANGED <<mem, text, tmpAt, peersAt, pinned, crossed, identity, history, damages, before>>

(* What a file of the store holds; a store that does not exist is empty. *)
Content(f) == IF f = NoProc THEN {} ELSE text[f]

OpenPeers(p) ==
  /\ pc[p] = "pin" /\ Content(peersAt) # Torn
  /\ \E q \in Peers : known' = [known EXCEPT ![p] = Content(peersAt) \cup {q}]
  /\ Go(p, "openTmp")
  /\ crossed' = (crossed \/ \E q \in Procs : pc[q] \in Pinning)
  /\ UNCHANGED <<mem, fd, text, tmpAt, peersAt, pinned, identity, history, damages, before>>

(* Mutant: the store is written in place. *)
InPlace(p) == IF peersAt = NoProc THEN p ELSE peersAt

(* flush creates the temporary file, or truncates the one that is there. *)
Temporary(p) == IF tmpAt = NoProc THEN p ELSE tmpAt

OpenTmp(p) ==
  /\ pc[p] = "openTmp"
  /\ fd' = [fd EXCEPT ![p] = Temporary(p)]
  /\ tmpAt' = Temporary(p)
  /\ text' = [text EXCEPT ![Temporary(p)] = Torn]
  /\ Go(p, "fillTmp")
  /\ UNCHANGED <<mem, known, peersAt, pinned, crossed, identity, history, damages, before>>

(* What a longer text of another process leaves behind does not parse. *)
FillTmp(p) ==
  /\ pc[p] = "fillTmp"
  /\ LET there == text[fd[p]]
     IN  text' = [text EXCEPT ![fd[p]] =
                    IF there = Torn THEN known[p]
                    ELSE IF Cardinality(there) > Cardinality(known[p]) THEN Torn ELSE known[p]]
  /\ Go(p, "renameTmp")
  /\ UNCHANGED <<mem, known, fd, tmpAt, peersAt, pinned, crossed, identity, history, damages, before>>

(* The name is renamed, not the file that p has open. *)
RenameTmp(p) ==
  /\ pc[p] = "renameTmp" /\ tmpAt # NoProc
  /\ peersAt' = tmpAt /\ tmpAt' = NoProc
  /\ pinned' = pinned \cup known[p]
  /\ Go(p, "lock")
  /\ known' = [known EXCEPT ![p] = {}] /\ fd' = [fd EXCEPT ![p] = NoProc]
  /\ UNCHANGED <<mem, text, crossed, identity, history, damages, before>>

-------------------------------------------------------------------------------
(* append_record_locked.  A call that fails drops its handle of the lock file, *)
(* as a crash does (Stop).                                                     *)

(* Mutant: nobody waits for the lock. *)
NoLock(p) == TRUE

MayLock(p) == lock = NoProc

Lock(p) ==
  /\ pc[p] = "lock" /\ MayLock(p)
  /\ lock' = p /\ Go(p, "load")
  /\ UNCHANGED <<mem, identity, peers, htmp, hist, damaged, aside, acked, damages, before>>

(* A history that does not exist, or is empty, holds no records.                *)
Records == IF hist \in {Absent, Torn} THEN {} ELSE hist

(* Mutant: a damaged history is written over. *)
WrittenOver(rs) == {}

Quarantined(rs) == rs

(* load_or_quarantine, and the new record.  A history that does not parse is   *)
(* renamed aside, where its text stays; an empty one is taken as no records.   *)
Load(p) ==
  /\ pc[p] = "load"
  /\ IF damaged
       THEN /\ aside' = aside \cup Quarantined(Records) /\ hist' = Absent /\ damaged' = FALSE
            /\ mem' = [mem EXCEPT ![p] = {p}]
       ELSE /\ mem' = [mem EXCEPT ![p] = Records \cup {p}]
            /\ UNCHANGED <<hist, damaged, aside>>
  /\ Go(p, "openH")
  /\ UNCHANGED <<identity, peers, lock, htmp, acked, damages, before>>

OpenH(p) ==
  /\ pc[p] = "openH"
  /\ htmp' = Torn /\ Go(p, "fillH")
  /\ UNCHANGED <<mem, identity, peers, lock, hist, damaged, aside, acked, damages, before>>

FillH(p) ==
  /\ pc[p] = "fillH"
  /\ htmp' = mem[p] /\ Go(p, "renameH")
  /\ UNCHANGED <<mem, identity, peers, lock, hist, damaged, aside, acked, damages, before>>

RenameH(p) ==
  /\ pc[p] = "renameH" /\ htmp # Absent
  /\ hist' = htmp /\ damaged' = FALSE /\ htmp' = Absent
  /\ Go(p, "unlock")
  /\ UNCHANGED <<mem, identity, peers, lock, aside, acked, damages, before>>

Unlock(p) ==
  /\ pc[p] = "unlock"
  /\ lock' = NoProc /\ acked' = acked \cup {p}
  /\ Go(p, "over") /\ mem' = [mem EXCEPT ![p] = {}]
  /\ UNCHANGED <<identity, peers, htmp, hist, damaged, aside, damages, before>>

-------------------------------------------------------------------------------
(* hyx history: without the lock. *)

Look(p) ==
  /\ pc[p] = "look"
  /\ Go(p, IF hist = Absent THEN "shown" ELSE "read")
  /\ UNCHANGED <<mem, identity, peers, history, damages, before>>

Read(p) ==
  /\ pc[p] = "read"
  /\ IF hist \in {Absent, Torn} \/ damaged
       THEN Go(p, "unread") /\ UNCHANGED mem
       ELSE Go(p, "shown") /\ mem' = [mem EXCEPT ![p] = hist]
  /\ UNCHANGED <<identity, peers, history, damages, before>>

-------------------------------------------------------------------------------
(* Mutant: the lock is a file that its owner removes. *)
KeepsLock(p) == lock

(* The system drops the lock of a handle that is closed. *)
Released(p) == IF lock = p THEN NoProc ELSE lock

(* A crash, or a call of load_or_generate or of append_record_locked fails. *)
Stop(p) ==
  /\ pc[p] \notin {"idle"} \cup Ended
  /\ Go(p, "dead")
  /\ lock' = Released(p)
  /\ mem' = [mem EXCEPT ![p] = {}] /\ id' = [id EXCEPT ![p] = Nobody]
  /\ known' = [known EXCEPT ![p] = {}] /\ fd' = [fd EXCEPT ![p] = NoProc]
  /\ UNCHANGED <<key, cert, raced, text, tmpAt, peersAt, pinned, crossed>>
  /\ UNCHANGED <<htmp, hist, damaged, aside, acked, damages, before>>

(* One bad byte, or a file that is empty: then the records it held are gone by *)
(* no doing of the program, and count as put aside.  Two quarantines of one    *)
(* second would share a name: damage is rarer than that.                       *)
Damage ==
  /\ damages < MaxDamage /\ hist # Absent
  /\ damages' = damages + 1
  /\ \/ damaged' = TRUE /\ UNCHANGED <<hist, aside>>
     \/ hist' = Torn /\ damaged' = FALSE /\ aside' = aside \cup Records
  /\ UNCHANGED <<run, identity, peers, lock, htmp, acked, before>>

Step(p) ==
  \/ LoadOrGenerate(p) \/ ReadKey(p) \/ ReadCert(p)
  \/ OpenKey(p) \/ FillKey(p) \/ OpenCert(p) \/ FillCert(p)
  \/ NoPin(p) \/ OpenPeers(p) \/ OpenTmp(p) \/ FillTmp(p) \/ RenameTmp(p)
  \/ Lock(p) \/ Load(p) \/ OpenH(p) \/ FillH(p) \/ RenameH(p) \/ Unlock(p)
  \/ Look(p) \/ Read(p)

Next ==
  \/ \E p \in Procs : Start(p) \/ Step(p) \/ Stop(p)
  \/ Damage

Spec == Init /\ [][Next]_vars

-------------------------------------------------------------------------------
(* Properties. *)

TypeOK ==
  /\ pc \in [Procs -> Places] /\ mem \in [Procs -> SUBSET Procs]
  /\ id \in [Procs -> [key : Procs \cup {Absent, Torn}, cert : Procs \cup {Absent, Torn}]]
  /\ {key, cert} \subseteq Procs \cup {Absent, Torn}
  /\ known \in [Procs -> SUBSET Peers] /\ fd \in [Procs -> Procs \cup {NoProc}]
  /\ text \in [Procs -> (SUBSET Peers) \cup {Torn}]
  /\ {tmpAt, peersAt} \subseteq Procs \cup {NoProc}
  /\ htmp \in (SUBSET Procs) \cup {Absent, Torn} /\ hist \in (SUBSET Procs) \cup {Absent, Torn}
  /\ lock \in {p \in Procs : pc[p] \in Appending} \cup {NoProc}
  /\ aside \subseteq Procs /\ acked \subseteq Procs /\ pinned \subseteq Peers
  /\ before \in [Procs -> SUBSET Procs]
  /\ {damaged, raced, crossed} \subseteq BOOLEAN /\ damages \in Nat

(* A record that record_transfer said is written is in the history or in a     *)
(* quarantined one, whoever crashes when, and whatever is damaged.             *)
NoRecordIsLost == acked \subseteq Records \cup aside

(* hyx history, which takes no lock, shows every record written before it      *)
(* started, and never fails on a file that is being replaced.                  *)
HistoryIsReadable ==
  damages = 0 =>
    \A p \in Procs : pc[p] # "unread" /\ (pc[p] = "shown" => before[p] \subseteq mem[p])

(* Processes that get an identity get the same one, with the key of its        *)
(* certificate, whatever crashed before; unless two generated at a time.       *)
HasIdentity(p) == pc[p] \in {"pin", "lock", "over"} \cup Pinning \cup Appending
IdentityIsOne ==
  ~raced => \A p, q \in Procs : HasIdentity(p) /\ HasIdentity(q) =>
              id[p].key \in Procs /\ id[p].key = id[p].cert /\ id[p] = id[q]

(* A crash loses no peer that was pinned, nor the store; unless two processes  *)
(* were pinning at a time.                                                     *)
PeersAreKept == ~crossed => Content(peersAt) # Torn /\ pinned \subseteq Content(peersAt)
===============================================================================
