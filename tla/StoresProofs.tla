----------------------------- MODULE StoresProofs -----------------------------
(* Proofs about the transfer history in Stores, for any number of processes    *)
(* and any damage.                                                             *)
EXTENDS Stores, TLAPS

USE ConstantsAreSane

(* What the history is made of. *)
HistoryType ==
  /\ pc \in [Procs -> Places] /\ mem \in [Procs -> SUBSET Procs]
  /\ htmp \in (SUBSET Procs) \cup {Absent, Torn} /\ hist \in (SUBSET Procs) \cup {Absent, Torn}
  /\ lock \in Procs \cup {NoProc} /\ aside \subseteq Procs /\ acked \subseteq Procs
  /\ damaged \in BOOLEAN

(* The lock is held by the one process that reads and rewrites the history,    *)
(* and by no process that has ended.                                           *)
LockIsHeld == \A p \in Procs : lock = p <=> pc[p] \in Appending

(* The owner of the lock holds, in memory, in its temporary file or in the     *)
(* history, its own record and all that was acked and not moved aside.         *)
Rewriting == {"openH", "fillH", "renameH"}
OwnerHasAll ==
  \A p \in Procs :
    /\ pc[p] \in Rewriting => p \in mem[p] /\ acked \subseteq mem[p] \cup aside
    /\ pc[p] = "renameH" => htmp = mem[p]
    /\ pc[p] = "unlock" => p \in Records \cup aside

IInv == HistoryType /\ LockIsHeld /\ OwnerHasAll /\ NoRecordIsLost

LEMMA RecordsAreProcs == HistoryType => Records \subseteq Procs
  BY DEF HistoryType, Records

(* A step that leaves the history alone and neither enters nor leaves          *)
(* append_record_locked.                                                       *)
LEMMA Elsewhere ==
  ASSUME IInv, NEW p \in Procs, NEW to \in Places \ Appending, pc[p] \notin Appending,
         pc' = [pc EXCEPT ![p] = to], mem' \in [Procs -> SUBSET Procs],
         \A q \in Procs \ {p} : mem'[q] = mem[q], UNCHANGED history
  PROVE  IInv'
<1>1. HistoryType'
  BY DEF IInv, HistoryType, history
<1>2. \A q \in Procs : pc'[q] = pc[q] \/ (q = p /\ pc'[q] \notin Appending)
  BY DEF IInv, HistoryType
<1>3. LockIsHeld'
  BY <1>2 DEF IInv, LockIsHeld, history
<1>4. NoRecordIsLost' /\ Records' = Records
  BY DEF IInv, NoRecordIsLost, Records, history
<1>5. OwnerHasAll'
  <2> SUFFICES ASSUME NEW q \in Procs, pc'[q] \in Appending
               PROVE  /\ pc'[q] \in Rewriting => q \in mem'[q] /\ acked' \subseteq mem'[q] \cup aside'
                      /\ pc'[q] = "renameH" => htmp' = mem'[q]
                      /\ pc'[q] = "unlock" => q \in Records' \cup aside'
    BY DEF OwnerHasAll, Appending, Rewriting
  <2>1. q # p /\ pc'[q] = pc[q] /\ mem'[q] = mem[q]
    BY <1>2
  <2> QED
    BY <2>1, <1>4 DEF IInv, OwnerHasAll, history
<1> QED
  BY <1>1, <1>3, <1>4, <1>5 DEF IInv

(* A step of the owner of the lock leaves the rest as it was. *)
LEMMA OthersStay ==
  ASSUME IInv, NEW p \in Procs, NEW to \in Places, pc' = [pc EXCEPT ![p] = to], pc[p] \in Appending
  PROVE  /\ pc' \in [Procs -> Places]
         /\ pc'[p] = to
         /\ \A q \in Procs \ {p} : pc'[q] = pc[q] /\ pc'[q] \notin Appending /\ lock # q
         /\ lock = p
  BY DEF IInv, HistoryType, LockIsHeld

LEMMA LockStep ==
  ASSUME IInv, NEW p \in Procs, Lock(p)
  PROVE  IInv'
<1> USE DEF Lock, Go, MayLock
<1>1. HistoryType'
  BY DEF IInv, HistoryType, Places, Appending
<1>2. \A q \in Procs : pc[q] \notin Appending
  BY DEF IInv, LockIsHeld
<1>3. \A q \in Procs \ {p} : pc'[q] = pc[q]
  BY DEF IInv, HistoryType
<1>4. pc'[p] = "load"
  BY DEF IInv, HistoryType
<1>5. LockIsHeld'
  BY <1>2, <1>3, <1>4 DEF LockIsHeld, Appending
<1>6. OwnerHasAll'
  BY <1>2, <1>3, <1>4 DEF OwnerHasAll, Appending, Rewriting
<1>7. NoRecordIsLost'
  BY DEF IInv, NoRecordIsLost, Records
<1> QED
  BY <1>1, <1>5, <1>6, <1>7 DEF IInv

LEMMA LoadStep ==
  ASSUME IInv, NEW p \in Procs, Load(p)
  PROVE  IInv'
<1> DEFINE kept == IF damaged THEN {} ELSE Records
<1>1. /\ pc[p] = "load" /\ pc' = [pc EXCEPT ![p] = "openH"] /\ mem' = [mem EXCEPT ![p] = kept \cup {p}]
      /\ UNCHANGED <<lock, htmp, acked>>
  BY DEF Load, Go
<1>2. pc[p] \in Appending /\ "openH" \in Places
  BY <1>1 DEF Appending, Places
<1>3. Records \subseteq Procs
  BY RecordsAreProcs DEF IInv
<1>4. HistoryType'
  BY <1>1, <1>2, <1>3 DEF IInv, HistoryType, Load, Quarantined
<1>5. /\ pc'[p] = "openH" /\ lock = p
      /\ \A q \in Procs \ {p} : pc'[q] = pc[q] /\ pc'[q] \notin Appending /\ lock # q
  BY <1>1, <1>2, OthersStay
<1>6. LockIsHeld'
  BY <1>1, <1>5 DEF LockIsHeld, Appending
<1>7. acked \subseteq kept \cup aside' /\ acked' = acked /\ aside \subseteq aside'
  BY <1>1 DEF IInv, NoRecordIsLost, Load, Quarantined
<1>8. kept \subseteq Records'
  BY DEF Load, Records
<1>9. NoRecordIsLost'
  BY <1>7, <1>8 DEF NoRecordIsLost
<1>10. mem'[p] = kept \cup {p}
  BY <1>1 DEF IInv, HistoryType
<1>11. OwnerHasAll'
  BY <1>5, <1>7, <1>10 DEF OwnerHasAll, Appending, Rewriting
<1> QED
  BY <1>4, <1>6, <1>9, <1>11 DEF IInv

LEMMA WriteStep ==
  ASSUME IInv, NEW p \in Procs, OpenH(p) \/ FillH(p)
  PROVE  IInv'
<1> DEFINE to == IF pc[p] = "openH" THEN "fillH" ELSE "renameH"
<1>1. /\ pc[p] \in {"openH", "fillH"} /\ pc' = [pc EXCEPT ![p] = to]
      /\ UNCHANGED <<mem, lock, hist, damaged, aside, acked>>
      /\ htmp' = IF pc[p] = "openH" THEN Torn ELSE mem[p]
  BY DEF OpenH, FillH, Go
<1>2. pc[p] \in Appending /\ to \in Places /\ to \in {"fillH", "renameH"}
  BY <1>1 DEF Appending, Places
<1>3. HistoryType'
  BY <1>1, <1>2 DEF IInv, HistoryType
<1>4. /\ pc'[p] = to /\ lock = p
      /\ \A q \in Procs \ {p} : pc'[q] = pc[q] /\ pc'[q] \notin Appending /\ lock # q
  BY <1>1, <1>2, OthersStay
<1>5. LockIsHeld'
  BY <1>1, <1>2, <1>4 DEF LockIsHeld, Appending
<1>6. NoRecordIsLost'
  BY <1>1 DEF IInv, NoRecordIsLost, Records
<1>7. p \in mem[p] /\ acked \subseteq mem[p] \cup aside
  BY <1>1 DEF IInv, OwnerHasAll, Rewriting
<1>8. OwnerHasAll'
  BY <1>1, <1>2, <1>4, <1>7 DEF OwnerHasAll, Appending, Rewriting
<1> QED
  BY <1>3, <1>5, <1>6, <1>8 DEF IInv

LEMMA RenameStep ==
  ASSUME IInv, NEW p \in Procs, RenameH(p)
  PROVE  IInv'
<1>1. /\ pc[p] = "renameH" /\ pc' = [pc EXCEPT ![p] = "unlock"]
      /\ UNCHANGED <<mem, lock, aside, acked>>
  BY DEF RenameH, Go
<1>2. pc[p] \in Appending /\ "unlock" \in Places
  BY <1>1 DEF Appending, Places
<1>3. htmp = mem[p] /\ p \in mem[p] /\ acked \subseteq mem[p] \cup aside
  BY <1>1 DEF IInv, OwnerHasAll, Rewriting
<1>4. mem[p] \in SUBSET Procs
  BY DEF IInv, HistoryType
<1>5. hist' = mem[p] /\ Records' = mem[p] /\ damaged' = FALSE /\ htmp' = Absent
  BY <1>3, <1>4, ConstantsAreSane DEF RenameH, Records
<1>6. HistoryType'
  BY <1>1, <1>2, <1>4, <1>5 DEF IInv, HistoryType
<1>7. /\ pc'[p] = "unlock" /\ lock = p
      /\ \A q \in Procs \ {p} : pc'[q] = pc[q] /\ pc'[q] \notin Appending /\ lock # q
  BY <1>1, <1>2, OthersStay
<1>8. LockIsHeld'
  BY <1>1, <1>7 DEF LockIsHeld, Appending
<1>9. NoRecordIsLost'
  BY <1>1, <1>3, <1>5 DEF NoRecordIsLost
<1>10. OwnerHasAll'
  BY <1>3, <1>5, <1>7 DEF OwnerHasAll, Appending, Rewriting
<1> QED
  BY <1>6, <1>8, <1>9, <1>10 DEF IInv

(* The record of p is acknowledged when it is in the history. *)
LEMMA UnlockStep ==
  ASSUME IInv, NEW p \in Procs, Unlock(p)
  PROVE  IInv'
<1>1. /\ pc[p] = "unlock" /\ pc' = [pc EXCEPT ![p] = "over"]
      /\ lock' = NoProc /\ acked' = acked \cup {p} /\ mem' = [mem EXCEPT ![p] = {}]
      /\ UNCHANGED <<htmp, hist, damaged, aside>>
  BY DEF Unlock, Go
<1>2. pc[p] \in Appending /\ "over" \in Places /\ "over" \notin Appending
  BY <1>1 DEF Appending, Places, Ended
<1>3. HistoryType'
  BY <1>1, <1>2 DEF IInv, HistoryType
<1>4. /\ pc'[p] = "over"
      /\ \A q \in Procs \ {p} : pc'[q] = pc[q] /\ pc'[q] \notin Appending
  BY <1>1, <1>2, OthersStay
<1>5. \A q \in Procs : pc'[q] \notin Appending
  BY <1>2, <1>4
<1>6. LockIsHeld'
  BY <1>1, <1>5 DEF LockIsHeld
<1>7. p \in Records \cup aside
  BY <1>1 DEF IInv, OwnerHasAll
<1>8. NoRecordIsLost'
  BY <1>1, <1>7 DEF IInv, NoRecordIsLost, Records
<1>9. OwnerHasAll'
  BY <1>5 DEF OwnerHasAll, Appending, Rewriting
<1> QED
  BY <1>3, <1>6, <1>8, <1>9 DEF IInv

(* A process that stops leaves the history as it is, and the lock free if it   *)
(* held it.                                                                    *)
LEMMA StopStep ==
  ASSUME IInv, NEW p \in Procs, Stop(p)
  PROVE  IInv'
<1>1. /\ pc' = [pc EXCEPT ![p] = "dead"] /\ mem' = [mem EXCEPT ![p] = {}]
      /\ lock' = (IF lock = p THEN NoProc ELSE lock)
      /\ UNCHANGED <<htmp, hist, damaged, aside, acked>>
  BY DEF Stop, Go, Released
<1>2. "dead" \in Places /\ "dead" \notin Appending
  BY DEF Places, Ended, Appending
<1>3. HistoryType'
  BY <1>1, <1>2 DEF IInv, HistoryType
<1>4. /\ pc'[p] = "dead" /\ \A q \in Procs \ {p} : pc'[q] = pc[q] /\ mem'[q] = mem[q]
  BY <1>1, <1>2 DEF IInv, HistoryType
<1>5. LockIsHeld'
  BY <1>1, <1>2, <1>4 DEF IInv, HistoryType, LockIsHeld
<1>6. NoRecordIsLost' /\ Records' = Records
  BY <1>1 DEF IInv, NoRecordIsLost, Records
<1>7. OwnerHasAll'
  BY <1>1, <1>4, <1>6 DEF IInv, OwnerHasAll, Rewriting
<1> QED
  BY <1>3, <1>5, <1>6, <1>7 DEF IInv

LEMMA DamageStep ==
  ASSUME IInv, Damage
  PROVE  IInv'
<1>1. UNCHANGED <<pc, mem, lock, htmp, acked>> /\ damaged' \in BOOLEAN
  BY DEF Damage, run
<1>2. /\ Records \cup aside = Records' \cup aside' /\ aside \subseteq aside' /\ aside' \subseteq Procs
      /\ hist' \in {hist, Torn}
  <2>1. Records \subseteq Procs /\ aside \subseteq Procs
    BY RecordsAreProcs DEF IInv, HistoryType
  <2> QED
    BY <2>1 DEF Damage, Records
<1>3. HistoryType'
  BY <1>1, <1>2 DEF IInv, HistoryType
<1>4. LockIsHeld' /\ OwnerHasAll' /\ NoRecordIsLost'
  BY <1>1, <1>2 DEF IInv, LockIsHeld, OwnerHasAll, NoRecordIsLost
<1> QED
  BY <1>3, <1>4 DEF IInv

LEMMA ElsewhereSteps ==
  ASSUME IInv, NEW p \in Procs,
         \/ Start(p) \/ LoadOrGenerate(p) \/ ReadKey(p) \/ ReadCert(p)
         \/ OpenKey(p) \/ FillKey(p) \/ OpenCert(p) \/ FillCert(p)
         \/ NoPin(p) \/ OpenPeers(p) \/ OpenTmp(p) \/ FillTmp(p) \/ RenameTmp(p)
         \/ Look(p)
  PROVE  IInv'
<1> USE DEF Go, Places, Appending, Generating, Pinning, Ended
<1>0. mem \in [Procs -> SUBSET Procs]
  BY DEF IInv, HistoryType
<1>1. UNCHANGED <<mem, history>> /\ pc[p] \notin Appending
  <2>1. CASE Start(p) BY <2>1 DEF Start
  <2>2. CASE LoadOrGenerate(p) BY <2>2 DEF LoadOrGenerate
  <2>3. CASE ReadKey(p) \/ ReadCert(p) BY <2>3 DEF ReadKey, ReadCert
  <2>4. CASE OpenKey(p) \/ FillKey(p) \/ OpenCert(p) \/ FillCert(p)
    BY <2>4 DEF OpenKey, FillKey, OpenCert, FillCert
  <2>5. CASE NoPin(p) BY <2>5 DEF NoPin
  <2>6. CASE OpenPeers(p) \/ OpenTmp(p) BY <2>6 DEF OpenPeers, OpenTmp
  <2>7. CASE FillTmp(p) BY <2>7 DEF FillTmp
  <2>8. CASE RenameTmp(p) \/ Look(p) BY <2>8 DEF RenameTmp, Look
  <2> QED BY <2>1, <2>2, <2>3, <2>4, <2>5, <2>6, <2>7, <2>8
<1>2. \E to \in Places \ Appending : pc' = [pc EXCEPT ![p] = to]
  <2>1. CASE Start(p) BY <2>1 DEF Start
  <2>2. CASE LoadOrGenerate(p) BY <2>2 DEF LoadOrGenerate
  <2>3. CASE ReadKey(p) \/ ReadCert(p) BY <2>3 DEF ReadKey, ReadCert
  <2>4. CASE OpenKey(p) \/ FillKey(p) \/ OpenCert(p) \/ FillCert(p)
    BY <2>4 DEF OpenKey, FillKey, OpenCert, FillCert
  <2>5. CASE NoPin(p) BY <2>5 DEF NoPin
  <2>6. CASE OpenPeers(p) \/ OpenTmp(p) BY <2>6 DEF OpenPeers, OpenTmp
  <2>7. CASE FillTmp(p) BY <2>7 DEF FillTmp
  <2>8. CASE RenameTmp(p) \/ Look(p) BY <2>8 DEF RenameTmp, Look
  <2> QED BY <2>1, <2>2, <2>3, <2>4, <2>5, <2>6, <2>7, <2>8
<1>3. PICK to \in Places \ Appending : pc' = [pc EXCEPT ![p] = to]
  BY <1>2
<1>4. mem' \in [Procs -> SUBSET Procs] /\ (\A q \in Procs \ {p} : mem'[q] = mem[q]) /\ UNCHANGED history
  BY <1>0, <1>1
<1> QED
  BY <1>1, <1>3, <1>4, Elsewhere

LEMMA ReadStep ==
  ASSUME IInv, NEW p \in Procs, Read(p)
  PROVE  IInv'
<1>1. /\ pc[p] = "read" /\ UNCHANGED history
      /\ \/ pc' = [pc EXCEPT ![p] = "unread"] /\ UNCHANGED mem
         \/ /\ pc' = [pc EXCEPT ![p] = "shown"] /\ hist \notin {Absent, Torn}
            /\ mem' = [mem EXCEPT ![p] = hist]
  BY DEF Read, Go
<1>2. mem' \in [Procs -> SUBSET Procs] /\ \A q \in Procs \ {p} : mem'[q] = mem[q]
  BY <1>1 DEF IInv, HistoryType
<1>3. {"unread", "shown"} \subseteq Places \ Appending /\ pc[p] \notin Appending
  BY <1>1 DEF Places, Ended, Appending
<1>4. PICK to \in Places \ Appending : pc' = [pc EXCEPT ![p] = to]
  BY <1>1, <1>3
<1> QED
  BY <1>1, <1>2, <1>3, <1>4, Elsewhere

LEMMA Initially == Init => IInv
<1> SUFFICES ASSUME Init PROVE IInv
  OBVIOUS
<1>1. HistoryType
  BY DEF Init, HistoryType, Places
<1>2. \A p \in Procs : pc[p] = "idle" /\ lock # p
  BY DEF Init
<1>3. LockIsHeld /\ OwnerHasAll
  BY <1>2 DEF LockIsHeld, OwnerHasAll, Appending, Rewriting
<1>4. NoRecordIsLost
  BY DEF Init, NoRecordIsLost
<1> QED
  BY <1>1, <1>3, <1>4 DEF IInv

LEMMA Inductive == IInv /\ [Next]_vars => IInv'
<1> SUFFICES ASSUME IInv, [Next]_vars PROVE IInv'
  OBVIOUS
<1>1. CASE Damage
  BY <1>1, DamageStep
<1>2. CASE \E p \in Procs : Start(p) \/ Step(p) \/ Stop(p)
  <2>1. PICK p \in Procs : Start(p) \/ Step(p) \/ Stop(p)
    BY <1>2
  <2>2. CASE Start(p)
    BY <2>2, ElsewhereSteps
  <2>3. CASE Stop(p)
    BY <2>3, StopStep
  <2>4. CASE Step(p)
    BY <2>4, ElsewhereSteps, LockStep, LoadStep, WriteStep, RenameStep, UnlockStep, ReadStep DEF Step
  <2> QED
    BY <2>1, <2>2, <2>3, <2>4
<1>3. CASE UNCHANGED vars
  BY <1>3 DEF vars, run, history, IInv, HistoryType, LockIsHeld, OwnerHasAll, NoRecordIsLost, Records
<1> QED
  BY <1>1, <1>2, <1>3 DEF Next

LEMMA AlwaysIInv == Spec => []IInv
  BY Initially, Inductive, PTL DEF Spec

(* history.json.lock: only the one process that holds it reads, rewrites and   *)
(* acknowledges, and a process that ends in the middle leaves it free.         *)
THEOREM TheLockIsHeld == Spec => []LockIsHeld
<1>1. IInv => LockIsHeld
  BY DEF IInv
<1> QED
  BY AlwaysIInv, <1>1, PTL

(* append_record_locked: what was acknowledged stays, in the history or in a   *)
(* quarantined one, however many processes append, fail and crash.             *)
THEOREM RecordsAreKept == Spec => []NoRecordIsLost
<1>1. IInv => NoRecordIsLost
  BY DEF IInv
<1> QED
  BY AlwaysIInv, <1>1, PTL

-------------------------------------------------------------------------------
(* Reading without the lock. *)

DamageType == damages \in Nat /\ before \in [Procs -> SUBSET Procs]

(* While the disk is sound nothing is quarantined, the history never goes away *)
(* again, and what a reader has to see is acked already.                       *)
ReadersSee ==
  damages = 0 =>
    /\ ~damaged /\ aside = {} /\ hist # Torn
    /\ \A p \in Procs :
         /\ pc[p] = "read" => hist # Absent
         /\ pc[p] \in {"look", "read"} => before[p] \subseteq acked

RInv == IInv /\ DamageType /\ ReadersSee /\ HistoryIsReadable

(* A step of one process that is no reader before or after it. *)
LEMMA WritersSteps ==
  ASSUME RInv, NEW p \in Procs, NEW to \in Places \ {"look", "read", "shown", "unread"},
         pc' = [pc EXCEPT ![p] = to], \A q \in Procs \ {p} : mem'[q] = mem[q],
         UNCHANGED <<damages, before>>, acked \subseteq acked',
         damages = 0 => ~damaged' /\ aside' = {} /\ hist' # Torn /\ (hist # Absent => hist' # Absent)
  PROVE  DamageType' /\ ReadersSee' /\ HistoryIsReadable'
<1>1. DamageType'
  BY DEF RInv, DamageType
<1>2. pc'[p] = to /\ \A q \in Procs \ {p} : pc'[q] = pc[q]
  BY DEF RInv, IInv, HistoryType
<1>3. ReadersSee'
  BY <1>2 DEF RInv, ReadersSee
<1>4. HistoryIsReadable'
  BY <1>2 DEF RInv, HistoryIsReadable
<1> QED
  BY <1>1, <1>3, <1>4

LEMMA StartReads ==
  ASSUME RInv, NEW p \in Procs, Start(p)
  PROVE  DamageType' /\ ReadersSee' /\ HistoryIsReadable'
<1>1. PICK to \in {"identity", "look"} : pc' = [pc EXCEPT ![p] = to]
  BY DEF Start, Go
<1>2. /\ pc'[p] = to /\ \A q \in Procs \ {p} : pc'[q] = pc[q]
      /\ UNCHANGED <<mem, hist, damaged, aside, acked, damages>>
  BY <1>1 DEF RInv, IInv, HistoryType, Start, history
<1>3. before' = [before EXCEPT ![p] = IF to = "look" THEN acked ELSE {}]
  BY <1>2 DEF Start
<1>4. acked \subseteq Procs
  BY DEF RInv, IInv, HistoryType
<1>5. DamageType'
  BY <1>2, <1>3, <1>4 DEF RInv, DamageType
<1>6. /\ \A q \in Procs \ {p} : before'[q] = before[q]
      /\ before'[p] = IF to = "look" THEN acked ELSE {}
  BY <1>3 DEF RInv, DamageType
<1>7. ReadersSee'
  BY <1>2, <1>6 DEF RInv, ReadersSee
<1>8. HistoryIsReadable'
  BY <1>2, <1>6 DEF RInv, HistoryIsReadable
<1> QED
  BY <1>5, <1>7, <1>8

LEMMA LookReads ==
  ASSUME RInv, NEW p \in Procs, Look(p)
  PROVE  DamageType' /\ ReadersSee' /\ HistoryIsReadable'
<1>1. /\ pc[p] = "look" /\ pc' = [pc EXCEPT ![p] = IF hist = Absent THEN "shown" ELSE "read"]
      /\ UNCHANGED <<mem, hist, damaged, aside, acked, damages, before>>
  BY DEF Look, Go, history
<1>2. /\ pc'[p] = (IF hist = Absent THEN "shown" ELSE "read")
      /\ \A q \in Procs \ {p} : pc'[q] = pc[q]
  BY <1>1 DEF RInv, IInv, HistoryType
<1>3. DamageType'
  BY <1>1 DEF RInv, DamageType
<1>4. ReadersSee'
  BY <1>1, <1>2 DEF RInv, ReadersSee
<1>5. damages = 0 /\ hist = Absent => before[p] = {}
  BY <1>1 DEF RInv, IInv, ReadersSee, NoRecordIsLost, Records
<1>6. HistoryIsReadable'
  BY <1>1, <1>2, <1>5 DEF RInv, HistoryIsReadable
<1> QED
  BY <1>3, <1>4, <1>6

LEMMA ReadReads ==
  ASSUME RInv, NEW p \in Procs, Read(p)
  PROVE  DamageType' /\ ReadersSee' /\ HistoryIsReadable'
<1>1. /\ pc[p] = "read" /\ UNCHANGED <<hist, damaged, aside, acked, damages, before>>
      /\ \/ (hist \in {Absent, Torn} \/ damaged) /\ pc' = [pc EXCEPT ![p] = "unread"] /\ UNCHANGED mem
         \/ pc' = [pc EXCEPT ![p] = "shown"] /\ mem' = [mem EXCEPT ![p] = hist]
  BY DEF Read, Go, history
<1>2. /\ pc'[p] \in {"unread", "shown"}
      /\ \A q \in Procs \ {p} : pc'[q] = pc[q] /\ mem'[q] = mem[q]
      /\ damages = 0 => pc'[p] = "shown" /\ mem'[p] = hist
  BY <1>1 DEF RInv, IInv, HistoryType, ReadersSee
<1>3. DamageType'
  BY <1>1 DEF RInv, DamageType
<1>4. ReadersSee'
  BY <1>1, <1>2 DEF RInv, ReadersSee
<1>5. damages = 0 => before[p] \subseteq hist
  BY <1>1 DEF RInv, IInv, ReadersSee, NoRecordIsLost, Records
<1>6. HistoryIsReadable'
  BY <1>1, <1>2, <1>5 DEF RInv, HistoryIsReadable
<1> QED
  BY <1>3, <1>4, <1>6

LEMMA WritersRead ==
  ASSUME RInv, NEW p \in Procs, Stop(p) \/ (Step(p) /\ ~Look(p) /\ ~Read(p))
  PROVE  DamageType' /\ ReadersSee' /\ HistoryIsReadable'
<1> DEFINE Writing(to) ==
      /\ pc' = [pc EXCEPT ![p] = to] /\ (\A q \in Procs \ {p} : mem'[q] = mem[q])
      /\ UNCHANGED <<damages, before>> /\ acked \subseteq acked'
      /\ damages = 0 => ~damaged' /\ aside' = {} /\ hist' # Torn /\ (hist # Absent => hist' # Absent)
           Writers == Places \ {"look", "read", "shown", "unread"}
<1>1. mem \in [Procs -> SUBSET Procs] /\ (damages = 0 => ~damaged /\ aside = {} /\ hist # Torn)
  BY DEF RInv, IInv, HistoryType, ReadersSee
<1>2. \E to \in Writers : Writing(to)
  <2> USE <1>1 DEF Go, Places, Generating, Pinning, Appending, Ended
  <2>1. CASE Stop(p)
    BY <2>1 DEF Stop
  <2>2. CASE LoadOrGenerate(p)
    BY <2>2 DEF LoadOrGenerate, history
  <2>3. CASE ReadKey(p) \/ ReadCert(p)
    BY <2>3 DEF ReadKey, ReadCert, history
  <2>4. CASE OpenKey(p) \/ FillKey(p) \/ OpenCert(p) \/ FillCert(p)
    BY <2>4 DEF OpenKey, FillKey, OpenCert, FillCert, history
  <2>5. CASE NoPin(p)
    BY <2>5 DEF NoPin, history
  <2>6. CASE OpenPeers(p) \/ OpenTmp(p)
    BY <2>6 DEF OpenPeers, OpenTmp, history
  <2>7. CASE FillTmp(p) \/ RenameTmp(p)
    BY <2>7 DEF FillTmp, RenameTmp, history
  <2>8. CASE Lock(p)
    BY <2>8 DEF Lock
  <2>9. CASE Load(p)
    BY <2>9 DEF Load
  <2>10. CASE OpenH(p) \/ FillH(p)
    BY <2>10 DEF OpenH, FillH
  <2>11. CASE RenameH(p)
    <3>1. htmp = mem[p] /\ mem[p] \in SUBSET Procs
      BY <2>11 DEF RenameH, RInv, IInv, HistoryType, OwnerHasAll
    <3> QED
      BY <2>11, <3>1 DEF RenameH
  <2>12. CASE Unlock(p)
    BY <2>12 DEF Unlock
  <2> QED
    BY <2>1, <2>2, <2>3, <2>4, <2>5, <2>6, <2>7, <2>8, <2>9, <2>10, <2>11, <2>12 DEF Step
<1>3. PICK to \in Writers : Writing(to)
  BY <1>2
<1> QED
  BY <1>3, WritersSteps

LEMMA ReadersInductive == RInv /\ [Next]_vars => RInv'
<1> SUFFICES ASSUME RInv, [Next]_vars PROVE RInv'
  OBVIOUS
<1>1. IInv'
  BY Inductive DEF RInv
<1>2. DamageType' /\ ReadersSee' /\ HistoryIsReadable'
  <2>1. CASE Damage
    BY <2>1 DEF Damage, RInv, DamageType, ReadersSee, HistoryIsReadable
  <2>2. CASE \E p \in Procs : Start(p) \/ Step(p) \/ Stop(p)
    <3>1. PICK p \in Procs : Start(p) \/ Step(p) \/ Stop(p)
      BY <2>2
    <3> QED
      BY <3>1, StartReads, LookReads, ReadReads, WritersRead
  <2>3. CASE UNCHANGED vars
    BY <2>3 DEF vars, run, history, RInv, DamageType, ReadersSee, HistoryIsReadable
  <2> QED
    BY <2>1, <2>2, <2>3 DEF Next
<1> QED
  BY <1>1, <1>2 DEF RInv

LEMMA AlwaysRInv == Spec => []RInv
<1>1. Init => DamageType /\ ReadersSee /\ HistoryIsReadable
  BY DEF Init, DamageType, ReadersSee, HistoryIsReadable
<1>2. Init => RInv
  BY <1>1, Initially DEF RInv
<1> QED
  BY <1>2, ReadersInductive, PTL DEF Spec

(* hyx history, which takes no lock: while the disk is sound it shows every    *)
(* record acknowledged before it started, and never fails.                     *)
THEOREM HistoryIsAlwaysReadable == Spec => []HistoryIsReadable
<1>1. RInv => HistoryIsReadable
  BY DEF RInv
<1> QED
  BY AlwaysRInv, <1>1, PTL

-------------------------------------------------------------------------------
(* The identity. *)

Whose == Procs \cup {Absent, Torn}
IdType ==
  /\ pc \in [Procs -> Places] /\ id \in [Procs -> [key : Whose, cert : Whose]]
  /\ key \in Whose /\ cert \in Whose /\ raced \in BOOLEAN

(* Nobody generates once there is a certificate, and nobody reads before: what *)
(* is read is what the one generator wrote.                                    *)
Files ==
  /\ cert # Absent => key \in Procs /\ cert \in {key, Torn}
  /\ \A p, q \in Procs : pc[p] \in Generating /\ pc[q] \in Generating => p = q
Made(p) ==
  /\ pc[p] \in {"openKey", "fillKey", "openCert"} => cert = Absent
  /\ pc[p] \in {"openCert", "fillCert"} => key = p
  /\ pc[p] = "fillCert" => cert = Torn
  /\ pc[p] \in {"readKey", "readCert"} => cert # Absent
  /\ pc[p] = "readCert" => id[p].key = key
  /\ HasIdentity(p) => cert = key /\ id[p].key = key /\ id[p].cert = key /\ key \in Procs

IdInv == IdType /\ (~raced => Files /\ \A p \in Procs : Made(p))

LEMMA OneIdentity == IdInv => IdentityIsOne
<1> SUFFICES ASSUME IdInv, ~raced, NEW p \in Procs, NEW q \in Procs, HasIdentity(p), HasIdentity(q)
             PROVE  id[p].key \in Procs /\ id[p].key = id[p].cert /\ id[p] = id[q]
  BY DEF IdentityIsOne
<1>1. /\ id[p].key = key /\ id[p].cert = key /\ id[q].key = key /\ id[q].cert = key /\ key \in Procs
  BY DEF IdInv, Made
<1>2. id[p] \in [key : Whose, cert : Whose] /\ id[q] \in [key : Whose, cert : Whose]
  BY DEF IdInv, IdType
<1> QED
  BY <1>1, <1>2

(* A step that leaves the files and the identities alone. *)
LEMMA IdElsewhere ==
  ASSUME IdInv, NEW p \in Procs, NEW to \in Places, pc' = [pc EXCEPT ![p] = to], UNCHANGED identity,
         to \notin Generating \cup {"readKey", "readCert"},
         to \in {"pin", "lock", "over"} \cup Pinning \cup Appending => HasIdentity(p)
  PROVE  IdInv'
<1>1. /\ pc'[p] = to /\ pc' \in [Procs -> Places] /\ \A q \in Procs \ {p} : pc'[q] = pc[q]
      /\ UNCHANGED <<id, key, cert, raced>>
  BY DEF IdInv, IdType, identity
<1>2. IdType'
  BY <1>1 DEF IdInv, IdType
<1>3. ASSUME ~raced PROVE Files' /\ \A q \in Procs : Made(q)'
  <2>1. Files /\ \A q \in Procs : Made(q)
    BY <1>3 DEF IdInv
  <2>2. Files'
    BY <1>1, <2>1 DEF Files, Generating
  <2>3. ASSUME NEW q \in Procs PROVE Made(q)'
    <3>1. CASE q = p
      BY <1>1, <2>1, <3>1 DEF Made, HasIdentity, Generating
    <3>2. CASE q # p
      BY <1>1, <2>1, <3>2 DEF Made, HasIdentity
    <3> QED
      BY <3>1, <3>2
  <2> QED
    BY <2>2, <2>3
<1> QED
  BY <1>1, <1>2, <1>3 DEF IdInv

(* A step on the files, or with them. *)
LEMMA IdStep ==
  ASSUME IdInv, NEW p \in Procs,
         \/ LoadOrGenerate(p) \/ ReadKey(p) \/ ReadCert(p)
         \/ OpenKey(p) \/ FillKey(p) \/ OpenCert(p) \/ FillCert(p)
  PROVE  IdInv'
<1> USE DEF Go
<1>1. PICK to \in Places : pc' = [pc EXCEPT ![p] = to]
  BY DEF LoadOrGenerate, ReadKey, ReadCert, OpenKey, FillKey, OpenCert, FillCert, Places, Generating, Ended
<1>2. pc'[p] = to /\ pc' \in [Procs -> Places] /\ \A q \in Procs \ {p} : pc'[q] = pc[q]
  BY <1>1 DEF IdInv, IdType
<1>3. IdType'
  <2>1. IdType
    BY DEF IdInv
  <2>2. \A w \in [key : Whose, cert : Whose], x \in Whose :
          [w EXCEPT !.key = x] \in [key : Whose, cert : Whose] /\ [w EXCEPT !.cert = x] \in [key : Whose, cert : Whose]
    OBVIOUS
  <2>3. CASE ReadKey(p)
    <3>1. id' = [id EXCEPT ![p] = [id[p] EXCEPT !.key = key]] /\ UNCHANGED <<key, cert, raced>>
      BY <2>3 DEF ReadKey
    <3> QED
      BY <1>2, <2>1, <2>2, <3>1 DEF IdType
  <2>4. CASE ReadCert(p)
    <3>1. id' = [id EXCEPT ![p] = [id[p] EXCEPT !.cert = cert]] /\ UNCHANGED <<key, cert, raced>>
      BY <2>4 DEF ReadCert
    <3> QED
      BY <1>2, <2>1, <2>2, <3>1 DEF IdType
  <2>5. CASE LoadOrGenerate(p)
    BY <1>2, <2>1, <2>5 DEF IdType, LoadOrGenerate
  <2>6. CASE OpenKey(p) \/ FillKey(p) \/ OpenCert(p) \/ FillCert(p)
    BY <1>2, <2>1, <2>6 DEF IdType, Whose, OpenKey, FillKey, OpenCert, FillCert
  <2> QED
    BY <2>3, <2>4, <2>5, <2>6
<1>4. \A q \in Procs \ {p} : id'[q] = id[q]
  BY DEF IdInv, IdType, LoadOrGenerate, ReadKey, ReadCert, OpenKey, FillKey, OpenCert, FillCert
<1>5. ASSUME ~raced' PROVE Files' /\ \A q \in Procs : Made(q)'
  <2>1. ~raced /\ Files /\ \A q \in Procs : Made(q)
    BY <1>5 DEF IdInv, IdType, LoadOrGenerate, ReadKey, ReadCert, OpenKey, FillKey, OpenCert, FillCert
  <2>2. CASE LoadOrGenerate(p)
    <3>1. UNCHANGED <<id, key, cert>>
      BY <2>2 DEF LoadOrGenerate
    <3>2. \/ key # Absent /\ cert # Absent /\ to = "readKey"
          \/ /\ (key = Absent \/ cert = Absent) /\ to = "openKey"
             /\ \A q \in Procs : pc[q] \notin Generating
      BY <1>2, <1>5, <2>1, <2>2 DEF LoadOrGenerate, Stored, IdInv, IdType
    <3>3. Files'
      BY <1>2, <2>1, <3>1, <3>2 DEF Files, Generating
    <3>4. ASSUME NEW q \in Procs PROVE Made(q)'
      <4>1. CASE q = p
        BY <1>2, <2>1, <3>1, <3>2, <4>1 DEF Made, Files, HasIdentity, Pinning, Appending
      <4>2. CASE q # p
        BY <1>2, <2>1, <3>1, <4>2 DEF Made, HasIdentity
      <4> QED
        BY <4>1, <4>2
    <3> QED
      BY <3>3, <3>4
  <2>3. CASE ReadKey(p) \/ ReadCert(p)
    <3>1. UNCHANGED <<key, cert>> /\ pc[p] \in {"readKey", "readCert"}
      BY <2>3 DEF ReadKey, ReadCert
    <3>2. /\ pc[p] = "readKey" => to = "readCert" /\ id'[p].key = key
          /\ pc[p] = "readCert" => /\ to = IF Torn \in {id[p].key, cert} THEN "dead" ELSE "pin"
                                   /\ id'[p].key = id[p].key /\ id'[p].cert = cert
      BY <1>2, <2>3 DEF ReadKey, ReadCert, IdInv, IdType
    <3>3. Files'
      BY <1>2, <2>1, <3>1, <3>2 DEF Files, Generating
    <3>4. ASSUME NEW q \in Procs PROVE Made(q)'
      <4>1. CASE q = p
        BY <1>2, <2>1, <3>1, <3>2, <4>1 DEF Made, Files, HasIdentity, Pinning, Appending
      <4>2. CASE q # p
        BY <1>2, <1>4, <2>1, <3>1, <4>2 DEF Made, HasIdentity
      <4> QED
        BY <4>1, <4>2
    <3> QED
      BY <3>3, <3>4
  <2>4. CASE OpenKey(p) \/ FillKey(p)
    <3>1. /\ UNCHANGED <<id, cert>> /\ pc[p] \in {"openKey", "fillKey"}
          /\ to = (IF pc[p] = "openKey" THEN "fillKey" ELSE "openCert")
          /\ key' = (IF pc[p] = "openKey" THEN Torn ELSE p)
      BY <1>2, <2>4 DEF OpenKey, FillKey, IdInv, IdType
    <3>2. cert = Absent /\ \A q \in Procs \ {p} : pc[q] \notin Generating
      BY <2>1, <3>1 DEF Made, Files, Generating
    <3>3. Files'
      BY <1>2, <3>1, <3>2 DEF Files
    <3>4. ASSUME NEW q \in Procs PROVE Made(q)'
      <4>1. CASE q = p
        BY <1>2, <3>1, <3>2, <4>1 DEF Made, HasIdentity, Pinning, Appending
      <4>2. CASE q # p
        BY <1>2, <2>1, <3>1, <3>2, <4>2 DEF Made, HasIdentity, Generating
      <4> QED
        BY <4>1, <4>2
    <3> QED
      BY <3>3, <3>4
  <2>5. CASE OpenCert(p) \/ FillCert(p)
    <3>1. /\ UNCHANGED key /\ pc[p] \in {"openCert", "fillCert"}
          /\ pc[p] = "openCert" => to = "fillCert" /\ cert' = Torn /\ UNCHANGED id
          /\ pc[p] = "fillCert" => to = "pin" /\ cert' = p /\ id'[p] = [key |-> p, cert |-> p]
      BY <1>2, <2>5 DEF OpenCert, FillCert, IdInv, IdType
    <3>2. /\ key = p /\ (\A q \in Procs \ {p} : pc[q] \notin Generating)
          /\ pc[p] = "fillCert" => cert = Torn
          /\ pc[p] = "openCert" => cert = Absent
          /\ \A q \in Procs : ~HasIdentity(q)
      BY <2>1, <3>1 DEF Made, Files, Generating
    <3>3. Files'
      BY <1>2, <3>1, <3>2 DEF Files, Generating
    <3>4. ASSUME NEW q \in Procs PROVE Made(q)'
      <4>1. CASE q = p
        BY <1>2, <3>1, <3>2, <4>1 DEF Made, HasIdentity, Pinning, Appending
      <4>2. CASE q # p
        BY <1>2, <1>4, <2>1, <3>1, <3>2, <4>2 DEF Made, HasIdentity, Generating
      <4> QED
        BY <4>1, <4>2
    <3> QED
      BY <3>3, <3>4
  <2> QED
    BY <2>2, <2>3, <2>4, <2>5
<1> QED
  BY <1>3, <1>5 DEF IdInv

LEMMA IdStop ==
  ASSUME IdInv, NEW p \in Procs, Stop(p)
  PROVE  IdInv'
<1>1. /\ pc' = [pc EXCEPT ![p] = "dead"] /\ id' = [id EXCEPT ![p] = Nobody] /\ UNCHANGED <<key, cert, raced>>
  BY DEF Stop, Go
<1>2. /\ pc'[p] = "dead" /\ \A q \in Procs \ {p} : pc'[q] = pc[q] /\ id'[q] = id[q]
  BY <1>1 DEF IdInv, IdType
<1>3. IdType'
  BY <1>1 DEF IdInv, IdType, Nobody, Whose, Places, Ended
<1>4. ASSUME ~raced PROVE Files' /\ \A q \in Procs : Made(q)'
  <2>1. Files /\ \A q \in Procs : Made(q)
    BY <1>4 DEF IdInv
  <2>2. Files'
    BY <1>1, <1>2, <2>1 DEF Files, Generating
  <2>3. ASSUME NEW q \in Procs PROVE Made(q)'
    <3>1. CASE q = p
      BY <1>2, <3>1 DEF Made, HasIdentity, Pinning, Appending
    <3>2. CASE q # p
      BY <1>1, <1>2, <2>1, <3>2 DEF Made, HasIdentity
    <3> QED
      BY <3>1, <3>2
  <2> QED
    BY <2>2, <2>3
<1> QED
  BY <1>1, <1>3, <1>4 DEF IdInv

LEMMA IdOthers ==
  ASSUME IdInv, NEW p \in Procs,
         \/ Start(p) \/ NoPin(p) \/ OpenPeers(p) \/ OpenTmp(p) \/ FillTmp(p) \/ RenameTmp(p)
         \/ Lock(p) \/ Load(p) \/ OpenH(p) \/ FillH(p) \/ RenameH(p) \/ Unlock(p) \/ Look(p) \/ Read(p)
  PROVE  IdInv'
<1> USE DEF Go, Places, Generating, Pinning, Appending, Ended, HasIdentity
<1>1. UNCHANGED identity
  BY DEF Start, NoPin, OpenPeers, OpenTmp, FillTmp, RenameTmp, Lock, Load, OpenH, FillH, RenameH, Unlock, Look, Read
<1>2. \E to \in Places \ (Generating \cup {"readKey", "readCert"}) :
        /\ pc' = [pc EXCEPT ![p] = to]
        /\ to \in {"pin", "lock", "over"} \cup Pinning \cup Appending => HasIdentity(p)
  <2>1. CASE Start(p) \/ Look(p) \/ Read(p)
    BY <2>1 DEF Start, Look, Read
  <2>2. CASE NoPin(p) \/ OpenPeers(p) \/ OpenTmp(p)
    BY <2>2 DEF NoPin, OpenPeers, OpenTmp
  <2>3. CASE FillTmp(p) \/ RenameTmp(p) \/ Lock(p)
    BY <2>3 DEF FillTmp, RenameTmp, Lock
  <2>4. CASE Load(p) \/ OpenH(p) \/ FillH(p)
    BY <2>4 DEF Load, OpenH, FillH
  <2>5. CASE RenameH(p) \/ Unlock(p)
    BY <2>5 DEF RenameH, Unlock
  <2> QED
    BY <2>1, <2>2, <2>3, <2>4, <2>5
<1> QED
  BY <1>1, <1>2, IdElsewhere

LEMMA AlwaysIdInv == Spec => []IdInv
<1>1. Init => IdInv
  <2> SUFFICES ASSUME Init PROVE IdInv
    OBVIOUS
  <2>1. IdType
    BY DEF Init, IdType, Whose, Nobody, Places
  <2>2. Files /\ \A p \in Procs : Made(p)
    BY DEF Init, Files, Made, HasIdentity, Generating, Pinning, Appending
  <2> QED
    BY <2>1, <2>2 DEF IdInv
<1>2. IdInv /\ [Next]_vars => IdInv'
  <2> SUFFICES ASSUME IdInv, [Next]_vars PROVE IdInv'
    OBVIOUS
  <2>1. CASE Damage \/ UNCHANGED vars
    <3>1. UNCHANGED <<pc, id, key, cert, raced>>
      BY <2>1 DEF Damage, vars, run, identity
    <3> QED
      BY <3>1 DEF IdInv, IdType, Files, Made, HasIdentity
  <2>2. CASE \E p \in Procs : Start(p) \/ Step(p) \/ Stop(p)
    <3>1. PICK p \in Procs : Start(p) \/ Step(p) \/ Stop(p)
      BY <2>2
    <3> QED
      BY <3>1, IdStep, IdOthers, IdStop DEF Step
  <2> QED
    BY <2>1, <2>2 DEF Next
<1> QED
  BY <1>1, <1>2, PTL DEF Spec

(* load_or_generate: whoever crashes when, processes that get an identity get  *)
(* the same one, with the key of its certificate, unless two generated at a    *)
(* time.                                                                       *)
THEOREM IdentityIsAlwaysOne == Spec => []IdentityIsOne
  BY AlwaysIdInv, OneIdentity, PTL

-------------------------------------------------------------------------------
(* The known peers. *)

(* The steps before a process creates its temporary file. *)
NotYet == {"idle", "identity", "readKey", "readCert", "pin", "openTmp"} \cup Generating

PeerType ==
  /\ pc \in [Procs -> Places] /\ known \in [Procs -> SUBSET Peers] /\ fd \in [Procs -> Procs \cup {NoProc}]
  /\ text \in [Procs -> (SUBSET Peers) \cup {Torn}] /\ crossed \in BOOLEAN
  /\ tmpAt \in Procs \cup {NoProc} /\ peersAt \in Procs \cup {NoProc}

(* The temporary file is another one than the store, of a process that has     *)
(* created it.                                                                 *)
Apart ==
  /\ tmpAt # NoProc => tmpAt # peersAt
  /\ \A p \in Procs : pc[p] \in NotYet => tmpAt # p /\ peersAt # p

(* What the one process that pins knows, and what its temporary file holds.    *)
Kept == Content(peersAt) # Torn /\ pinned \subseteq Content(peersAt)
Pins(p) ==
  /\ pc[p] \in Pinning => Content(peersAt) \subseteq known[p] /\ \A q \in Procs : pc[q] \in Pinning => q = p
  /\ pc[p] \in {"fillTmp", "renameTmp"} => tmpAt \in Procs /\ fd[p] = tmpAt
  /\ pc[p] = "fillTmp" => text[tmpAt] = Torn
  /\ pc[p] = "renameTmp" => text[tmpAt] = known[p]

PeerInv == PeerType /\ Apart /\ (~crossed => Kept /\ \A p \in Procs : Pins(p))

(* A step that leaves the store, its temporary file and what is in them alone. *)
LEMMA PeerElsewhere ==
  ASSUME PeerInv, NEW p \in Procs, NEW to \in Places \ Pinning, pc' = [pc EXCEPT ![p] = to],
         UNCHANGED <<text, tmpAt, peersAt, pinned, crossed>>,
         known' \in [Procs -> SUBSET Peers], fd' \in [Procs -> Procs \cup {NoProc}],
         \A q \in Procs \ {p} : known'[q] = known[q] /\ fd'[q] = fd[q],
         to \in NotYet => pc[p] \in NotYet
  PROVE  PeerInv'
<1>1. pc'[p] = to /\ pc' \in [Procs -> Places] /\ \A q \in Procs \ {p} : pc'[q] = pc[q]
  BY DEF PeerInv, PeerType
<1>2. PeerType' /\ Apart'
  BY <1>1 DEF PeerInv, PeerType, Apart
<1>3. Content(peersAt)' = Content(peersAt)
  BY DEF Content
<1>4. ASSUME ~crossed PROVE Kept' /\ \A q \in Procs : Pins(q)'
  <2>1. Kept /\ \A q \in Procs : Pins(q)
    BY <1>4 DEF PeerInv
  <2>2. ASSUME NEW q \in Procs PROVE Pins(q)'
    <3>1. CASE q = p
      BY <1>1, <3>1 DEF Pins, Pinning
    <3>2. CASE q # p
      BY <1>1, <1>3, <2>1, <3>2 DEF Pins
    <3> QED
      BY <3>1, <3>2
  <2> QED
    BY <1>3, <2>1, <2>2 DEF Kept
<1> QED
  BY <1>2, <1>4 DEF PeerInv

LEMMA PeerOthers ==
  ASSUME PeerInv, NEW p \in Procs,
         \/ Start(p) \/ LoadOrGenerate(p) \/ ReadKey(p) \/ ReadCert(p)
         \/ OpenKey(p) \/ FillKey(p) \/ OpenCert(p) \/ FillCert(p) \/ NoPin(p) \/ Stop(p)
         \/ Lock(p) \/ Load(p) \/ OpenH(p) \/ FillH(p) \/ RenameH(p) \/ Unlock(p) \/ Look(p) \/ Read(p)
  PROVE  PeerInv'
<1> USE DEF Go, Places, Generating, Pinning, Appending, Ended, NotYet
<1>1. known \in [Procs -> SUBSET Peers] /\ fd \in [Procs -> Procs \cup {NoProc}]
  BY DEF PeerInv, PeerType
<1>2. /\ UNCHANGED <<text, tmpAt, peersAt, pinned, crossed>>
      /\ \/ UNCHANGED <<known, fd>>
         \/ known' = [known EXCEPT ![p] = {}] /\ fd' = [fd EXCEPT ![p] = NoProc]
  BY DEF Start, LoadOrGenerate, ReadKey, ReadCert, OpenKey, FillKey, OpenCert, FillCert, NoPin, Stop,
         Lock, Load, OpenH, FillH, RenameH, Unlock, Look, Read, peers
<1>3. /\ known' \in [Procs -> SUBSET Peers] /\ fd' \in [Procs -> Procs \cup {NoProc}]
      /\ \A q \in Procs \ {p} : known'[q] = known[q] /\ fd'[q] = fd[q]
  BY <1>1, <1>2
<1>4. \E to \in Places \ Pinning : pc' = [pc EXCEPT ![p] = to] /\ (to \in NotYet => pc[p] \in NotYet)
  <2>1. CASE Start(p) \/ Look(p) \/ Read(p) \/ LoadOrGenerate(p)
    BY <2>1 DEF Start, Look, Read, LoadOrGenerate
  <2>2. CASE ReadKey(p) \/ ReadCert(p) \/ OpenKey(p) \/ FillKey(p)
    BY <2>2 DEF ReadKey, ReadCert, OpenKey, FillKey
  <2>3. CASE OpenCert(p) \/ FillCert(p) \/ NoPin(p) \/ Stop(p)
    BY <2>3 DEF OpenCert, FillCert, NoPin, Stop
  <2>4. CASE Lock(p) \/ Load(p) \/ OpenH(p)
    BY <2>4 DEF Lock, Load, OpenH
  <2>5. CASE FillH(p) \/ RenameH(p) \/ Unlock(p)
    BY <2>5 DEF FillH, RenameH, Unlock
  <2> QED
    BY <2>1, <2>2, <2>3, <2>4, <2>5
<1> QED
  BY <1>2, <1>3, <1>4, PeerElsewhere

LEMMA OpenPeersKeeps ==
  ASSUME PeerInv, NEW p \in Procs, OpenPeers(p)
  PROVE  PeerInv'
<1>1. /\ pc[p] = "pin" /\ pc' = [pc EXCEPT ![p] = "openTmp"] /\ Content(peersAt) # Torn
      /\ crossed' = (crossed \/ \E q \in Procs : pc[q] \in Pinning)
      /\ UNCHANGED <<fd, text, tmpAt, peersAt, pinned>>
  BY DEF OpenPeers, Go
<1>2. PICK q \in Peers : known' = [known EXCEPT ![p] = Content(peersAt) \cup {q}]
  BY DEF OpenPeers
<1>3. Content(peersAt) \in SUBSET Peers /\ Content(peersAt)' = Content(peersAt)
  BY <1>1 DEF Content, PeerInv, PeerType
<1>4. pc'[p] = "openTmp" /\ \A r \in Procs \ {p} : pc'[r] = pc[r] /\ known'[r] = known[r]
  BY <1>1, <1>2 DEF PeerInv, PeerType
<1>5. PeerType'
  BY <1>1, <1>2, <1>3 DEF PeerInv, PeerType, Places, Pinning
<1>6. Apart'
  BY <1>1, <1>4 DEF PeerInv, Apart, NotYet
<1>7. ASSUME ~crossed' PROVE Kept' /\ \A r \in Procs : Pins(r)'
  <2>1. Kept /\ (\A r \in Procs : Pins(r) /\ pc[r] \notin Pinning)
    BY <1>1, <1>7 DEF PeerInv, PeerType
  <2>2. known'[p] = Content(peersAt) \cup {q}
    BY <1>2 DEF PeerInv, PeerType
  <2>3. ASSUME NEW r \in Procs PROVE Pins(r)'
    <3>1. CASE r = p
      BY <1>3, <1>4, <2>1, <2>2, <3>1 DEF Pins, Pinning
    <3>2. CASE r # p
      BY <1>4, <2>1, <3>2 DEF Pins, Pinning
    <3> QED
      BY <3>1, <3>2
  <2> QED
    BY <1>1, <1>3, <2>1, <2>3 DEF Kept
<1> QED
  BY <1>5, <1>6, <1>7 DEF PeerInv

(* flush: the temporary file is created, or the one there is truncated. *)
LEMMA OpenTmpKeeps ==
  ASSUME PeerInv, NEW p \in Procs, OpenTmp(p)
  PROVE  PeerInv'
<1> DEFINE t == Temporary(p)
<1>1. /\ pc[p] = "openTmp" /\ pc' = [pc EXCEPT ![p] = "fillTmp"] /\ fd' = [fd EXCEPT ![p] = t]
      /\ tmpAt' = t /\ text' = [text EXCEPT ![t] = Torn] /\ UNCHANGED <<known, peersAt, pinned, crossed>>
  BY DEF OpenTmp, Go
<1>2. t \in Procs /\ t # peersAt /\ (tmpAt = NoProc => t = p) /\ (tmpAt # NoProc => t = tmpAt)
  BY <1>1 DEF Temporary, PeerInv, PeerType, Apart, NotYet
<1>3. /\ pc'[p] = "fillTmp" /\ fd'[p] = t /\ text'[t] = Torn
      /\ \A r \in Procs \ {p} : pc'[r] = pc[r]
      /\ \A r \in Procs \ {t} : text'[r] = text[r]
  BY <1>1, <1>2 DEF PeerInv, PeerType
<1>4. PeerType'
  BY <1>1, <1>2 DEF PeerInv, PeerType, Places, Pinning
<1>5. Apart'
  BY <1>1, <1>2, <1>3 DEF PeerInv, Apart, NotYet, Generating
<1>6. Content(peersAt)' = Content(peersAt)
  BY <1>1, <1>2, <1>3 DEF Content, PeerInv, PeerType
<1>7. ASSUME ~crossed PROVE Kept' /\ \A r \in Procs : Pins(r)'
  <2>1. Kept /\ (\A r \in Procs : Pins(r)) /\ (\A r \in Procs \ {p} : pc[r] \notin Pinning)
    BY <1>1, <1>7 DEF PeerInv, Pins, Pinning
  <2>2. ASSUME NEW r \in Procs PROVE Pins(r)'
    <3>1. CASE r = p
      BY <1>1, <1>2, <1>3, <1>6, <2>1, <3>1 DEF Pins, Pinning
    <3>2. CASE r # p
      BY <1>3, <2>1, <3>2 DEF Pins, Pinning
    <3> QED
      BY <3>1, <3>2
  <2> QED
    BY <1>1, <1>6, <2>1, <2>2 DEF Kept
<1> QED
  BY <1>1, <1>4, <1>5, <1>7 DEF PeerInv

LEMMA FillTmpKeeps ==
  ASSUME PeerInv, NEW p \in Procs, FillTmp(p)
  PROVE  PeerInv'
<1>1. /\ pc[p] = "fillTmp" /\ pc' = [pc EXCEPT ![p] = "renameTmp"]
      /\ UNCHANGED <<known, fd, tmpAt, peersAt, pinned, crossed>>
  BY DEF FillTmp, Go
<1>2. PICK x \in {Torn, known[p]} : text' = [text EXCEPT ![fd[p]] = x] /\ (text[fd[p]] = Torn => x = known[p])
  BY DEF FillTmp
<1>3. pc'[p] = "renameTmp" /\ \A r \in Procs \ {p} : pc'[r] = pc[r]
  BY <1>1 DEF PeerInv, PeerType
<1>4. PeerType'
  BY <1>1, <1>2 DEF PeerInv, PeerType, Places, Pinning
<1>5. Apart'
  BY <1>1, <1>3 DEF PeerInv, Apart, NotYet, Generating
<1>6. ASSUME ~crossed PROVE Kept' /\ \A r \in Procs : Pins(r)'
  <2>1. Kept /\ (\A r \in Procs : Pins(r)) /\ (\A r \in Procs \ {p} : pc[r] \notin Pinning)
    BY <1>1, <1>6 DEF PeerInv, Pins, Pinning
  <2>2. tmpAt \in Procs /\ fd[p] = tmpAt /\ x = known[p] /\ tmpAt # peersAt
    BY <1>1, <1>2, <2>1 DEF Pins, PeerInv, PeerType, Apart
  <2>3. text'[tmpAt] = known[p] /\ \A r \in Procs \ {tmpAt} : text'[r] = text[r]
    BY <1>2, <2>2 DEF PeerInv, PeerType
  <2>4. Content(peersAt)' = Content(peersAt)
    BY <1>1, <2>2, <2>3 DEF Content, PeerInv, PeerType
  <2>5. ASSUME NEW r \in Procs PROVE Pins(r)'
    <3>1. CASE r = p
      BY <1>1, <1>3, <2>1, <2>2, <2>3, <2>4, <3>1 DEF Pins, Pinning
    <3>2. CASE r # p
      BY <1>3, <2>1, <3>2 DEF Pins, Pinning
    <3> QED
      BY <3>1, <3>2
  <2> QED
    BY <1>1, <2>1, <2>4, <2>5 DEF Kept
<1> QED
  BY <1>1, <1>4, <1>5, <1>6 DEF PeerInv

LEMMA RenameTmpKeeps ==
  ASSUME PeerInv, NEW p \in Procs, RenameTmp(p)
  PROVE  PeerInv'
<1>1. /\ pc[p] = "renameTmp" /\ pc' = [pc EXCEPT ![p] = "lock"] /\ tmpAt # NoProc
      /\ peersAt' = tmpAt /\ tmpAt' = NoProc /\ pinned' = pinned \cup known[p]
      /\ known' = [known EXCEPT ![p] = {}] /\ fd' = [fd EXCEPT ![p] = NoProc] /\ UNCHANGED <<text, crossed>>
  BY DEF RenameTmp, Go
<1>2. pc'[p] = "lock" /\ \A r \in Procs \ {p} : pc'[r] = pc[r]
  BY <1>1 DEF PeerInv, PeerType
<1>3. PeerType'
  BY <1>1 DEF PeerInv, PeerType, Places
<1>4. Apart'
  BY <1>1, <1>2 DEF PeerInv, PeerType, Apart, NotYet, Generating
<1>5. ASSUME ~crossed PROVE Kept' /\ \A r \in Procs : Pins(r)'
  <2>1. Kept /\ Pins(p) /\ (\A r \in Procs \ {p} : pc[r] \notin Pinning)
    BY <1>1, <1>5 DEF PeerInv, Pins, Pinning
  <2>2. Content(peersAt) \subseteq known[p] /\ text[tmpAt] = known[p] /\ known[p] \in SUBSET Peers
    BY <1>1, <2>1 DEF Pins, Pinning, PeerInv, PeerType
  <2>3. Content(peersAt)' = known[p] /\ known[p] # Torn
    BY <1>1, <2>2 DEF Content
  <2>4. \A r \in Procs : pc'[r] \notin Pinning
    BY <1>2, <2>1 DEF Pinning
  <2> QED
    BY <1>1, <2>1, <2>2, <2>3, <2>4 DEF Kept, Pins, Pinning
<1> QED
  BY <1>1, <1>3, <1>4, <1>5 DEF PeerInv

LEMMA AlwaysPeerInv == Spec => []PeerInv
<1>1. Init => PeerInv
  <2> SUFFICES ASSUME Init PROVE PeerInv
    OBVIOUS
  <2>1. PeerType
    BY DEF Init, PeerType, Places
  <2>2. Apart /\ Kept /\ \A p \in Procs : Pins(p)
    BY DEF Init, Apart, Kept, Content, Pins, Pinning
  <2> QED
    BY <2>1, <2>2 DEF PeerInv
<1>2. PeerInv /\ [Next]_vars => PeerInv'
  <2> SUFFICES ASSUME PeerInv, [Next]_vars PROVE PeerInv'
    OBVIOUS
  <2>1. CASE Damage \/ UNCHANGED vars
    <3>1. UNCHANGED <<pc, known, fd, text, tmpAt, peersAt, pinned, crossed>>
      BY <2>1 DEF Damage, vars, run, peers
    <3> QED
      BY <3>1 DEF PeerInv, PeerType, Apart, Kept, Pins, Content
  <2>2. CASE \E p \in Procs : Start(p) \/ Step(p) \/ Stop(p)
    <3>1. PICK p \in Procs : Start(p) \/ Step(p) \/ Stop(p)
      BY <2>2
    <3> QED
      BY <3>1, PeerOthers, OpenPeersKeeps, OpenTmpKeeps, FillTmpKeeps, RenameTmpKeeps DEF Step
  <2> QED
    BY <2>1, <2>2 DEF Next
<1> QED
  BY <1>1, <1>2, PTL DEF Spec

(* verify_or_pin: a crash at any step loses no peer that was pinned, and       *)
(* leaves a store that parses, unless two processes were pinning at a time.    *)
THEOREM PeersAreAlwaysKept == Spec => []PeersAreKept
<1>1. PeerInv => PeersAreKept
  BY DEF PeerInv, Kept, PeersAreKept
<1> QED
  BY AlwaysPeerInv, <1>1, PTL

-------------------------------------------------------------------------------
(* What verify_or_pin pins are peers.                                         *)
PinnedArePeers == pinned \subseteq Peers

(* Every reachable state of the stores is well typed; the lock is held by      *)
(* nobody or by a process that is appending.                                   *)
THEOREM TypeCorrect == Spec => []TypeOK
<1>1. PeerInv /\ PinnedArePeers /\ [Next]_vars => PinnedArePeers'
  <2> SUFFICES ASSUME PeerInv, PinnedArePeers, [Next]_vars PROVE PinnedArePeers'
    OBVIOUS
  <2>1. CASE Damage \/ UNCHANGED vars
    BY <2>1 DEF Damage, vars, peers, PinnedArePeers
  <2>2. ASSUME NEW p \in Procs, RenameTmp(p) PROVE PinnedArePeers'
    BY <2>2 DEF RenameTmp, PeerInv, PeerType, PinnedArePeers
  <2>3. ASSUME NEW p \in Procs, Start(p) \/ Stop(p) \/ (Step(p) /\ ~RenameTmp(p)) PROVE UNCHANGED pinned
    BY <2>3 DEF Step, Start, Stop, LoadOrGenerate, ReadKey, ReadCert, OpenKey, FillKey, OpenCert, FillCert,
       NoPin, OpenPeers, OpenTmp, FillTmp, Lock, Load, OpenH, FillH, RenameH, Unlock, Look, Read, peers
  <2> QED
    BY <2>1, <2>2, <2>3 DEF Next, PinnedArePeers
<1>2. Init => PinnedArePeers
  BY DEF Init, PinnedArePeers
<1>3. RInv /\ IdInv /\ PeerInv /\ PinnedArePeers => TypeOK
  <2> SUFFICES ASSUME RInv, IdInv, PeerInv, PinnedArePeers PROVE TypeOK
    OBVIOUS
  <2>1. lock \in {p \in Procs : pc[p] \in Appending} \cup {NoProc}
    BY DEF RInv, IInv, HistoryType, LockIsHeld
  <2>2. /\ id \in [Procs -> [key : Procs \cup {Absent, Torn}, cert : Procs \cup {Absent, Torn}]]
        /\ {key, cert} \subseteq Procs \cup {Absent, Torn}
    BY DEF IdInv, IdType, Whose
  <2>3. {damaged, raced, crossed} \subseteq BOOLEAN
    BY DEF RInv, IInv, HistoryType, IdInv, IdType, PeerInv, PeerType
  <2>4. HistoryType /\ DamageType /\ PeerType
    BY DEF RInv, IInv, PeerInv
  <2>5. {tmpAt, peersAt} \subseteq Procs \cup {NoProc}
    BY <2>4 DEF PeerType
  <2>6. /\ pc \in [Procs -> Places] /\ mem \in [Procs -> SUBSET Procs]
        /\ htmp \in (SUBSET Procs) \cup {Absent, Torn} /\ hist \in (SUBSET Procs) \cup {Absent, Torn}
        /\ aside \subseteq Procs /\ acked \subseteq Procs
    BY <2>4, Zenon DEF HistoryType
  <2>7. before \in [Procs -> SUBSET Procs] /\ damages \in Nat
    BY <2>4, Zenon DEF DamageType
  <2>8. /\ known \in [Procs -> SUBSET Peers] /\ fd \in [Procs -> Procs \cup {NoProc}]
        /\ text \in [Procs -> (SUBSET Peers) \cup {Torn}]
    BY <2>4, Zenon DEF PeerType
  <2>9. pinned \subseteq Peers
    BY DEF PinnedArePeers
  <2> QED
    BY <2>1, <2>2, <2>3, <2>5, <2>6, <2>7, <2>8, <2>9 DEF TypeOK
<1> QED
  BY AlwaysRInv, AlwaysIdInv, AlwaysPeerInv, <1>1, <1>2, <1>3, PTL DEF Spec
===============================================================================
