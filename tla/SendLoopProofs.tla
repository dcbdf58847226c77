---------------------------- MODULE SendLoopProofs ----------------------------
(* Proofs about SendLoop: its limiter, its confirmed chunks and its progress,  *)
(* for any files, compression, delays and number of lost connections.          *)
EXTENDS SendLoop, FiniteSetTheorems, TLAPS

LEMMA LimitsAreNat ==
  Grow \in Nat /\ Burst \in Nat /\ MaxLag \in Nat
<1>1. {Grow, Burst, MaxLag} \subseteq Nat
  BY ConstantsAreSane
<1> QED
  BY <1>1

USE LimitsAreNat

(* Steps on the chunks of an open file. *)
InLoop == {"chunk", "limit", "asleep", "append"}
InHand == {"limit", "asleep", "append"}

LoopType ==
  /\ file \in Files \cup {0} /\ (pc \in InLoop \cup {"exchange"} => file \in Files)
  /\ chunk \in Nat /\ (pc \in InHand => chunk \in Chunks(file))

LEMMA SizesAreNat ==
  ASSUME NEW f \in Files, NEW c \in Chunks(f)
  PROVE  c \in Nat /\ Sizes[f][c] \in Nat
<1>1. Sizes[f] \in Seq(Nat \ {0})
  BY ConstantsAreSane DEF Files
<1> QED
  BY <1>1 DEF Chunks

-------------------------------------------------------------------------------
(* The limiter. *)

ClockType ==
  /\ now \in Nat /\ last \in Nat /\ wakeAt \in Nat /\ opened \in Nat /\ passed \in Nat
  /\ tokens \in Int /\ frame.size \in Nat

(* What passed and what is left in the bucket are at most what it was filled   *)
(* with up to its last update; and a sleep ends when the frame is paid for.    *)
Account ==
  /\ opened <= last /\ last <= now
  /\ passed + tokens <= Burst + (last - opened)
  /\ pc = "asleep" => now <= wakeAt /\ frame.size <= tokens + (wakeAt - last)

RateInv == LoopType /\ ClockType /\ Account /\ RateIsKept

LEMMA RefilledIsInt ==
  ASSUME ClockType, NEW t \in Nat, last <= t
  PROVE  Refilled(t) \in Int /\ Refilled(t) <= tokens + (t - last)
  BY DEF ClockType, Refilled

(* The bucket and the frame in hand are as they were. *)
LEMMA IdleKeepsRate ==
  ASSUME RateInv, UNCHANGED <<clock, frame>>, pc' # "asleep"
  PROVE  ClockType' /\ Account' /\ RateIsKept'
  BY DEF RateInv, ClockType, Account, RateIsKept, clock

LEMMA OpenKeepsRate ==
  ASSUME RateInv, NEW f \in Files, Open(f)
  PROVE  RateInv'
<1>1. LoopType'
  BY DEF Open, NewBucket, NewCompressor, LoopType, InLoop, InHand
<1>2. ClockType' /\ Account' /\ RateIsKept'
  BY DEF Open, NewBucket, NewCompressor, RateInv, ClockType, Account, RateIsKept, NoFrame
<1> QED
  BY <1>1, <1>2 DEF RateInv

LEMMA CompressKeepsRate ==
  ASSUME RateInv, Compress
  PROVE  RateInv'
<1>1. /\ pc = "chunk" /\ pc' = "limit" /\ chunk \in Chunks(file) /\ file \in Files
      /\ UNCHANGED <<file, chunk, tokens, last, wakeAt, opened, passed>>
  BY DEF Compress, RateInv, LoopType, InLoop
<1>2. LoopType'
  BY <1>1 DEF RateInv, LoopType, InLoop, InHand, Chunks
<1>3. PICK d \in Lags : now' = now + d
  BY DEF Compress
<1>4. d \in Nat
  BY <1>3 DEF Lags
<1>5. Sizes[file][chunk] \in Nat
  BY <1>1, SizesAreNat
<1>6. frame'.size \in Nat
  <2>1. CASE decided /\ ~enabled
    BY <1>5, <2>1 DEF Compress
  <2>2. CASE ~(decided /\ ~enabled)
    <3>1. PICK c \in 1..(Sizes[file][chunk] + Grow) :
            frame' = [chunk |-> chunk, size |-> c, packed |-> TRUE]
      BY <2>2 DEF Compress
    <3> QED
      BY <1>5, <3>1
  <2> QED
    BY <2>1, <2>2
<1>7. ClockType' /\ Account' /\ RateIsKept'
  BY <1>1, <1>3, <1>4, <1>6 DEF RateInv, ClockType, Account, RateIsKept
<1> QED
  BY <1>2, <1>7 DEF RateInv

LEMMA PassKeepsRate ==
  ASSUME RateInv, Pass
  PROVE  RateInv'
<1>1. /\ pc = "limit" /\ pc' = "append"
      /\ UNCHANGED <<file, chunk, now, wakeAt, opened, frame>>
      /\ Refilled(now) >= frame.size
      /\ tokens' = Refilled(now) - frame.size /\ last' = now
      /\ passed' = passed + frame.size
  BY DEF Pass, Stamped, packer
<1>2. LoopType'
  BY <1>1 DEF RateInv, LoopType, InLoop, InHand, Chunks
<1>3. Refilled(now) \in Int /\ Refilled(now) <= tokens + (now - last)
  BY RefilledIsInt DEF RateInv, ClockType, Account
<1>4. ClockType' /\ Account' /\ RateIsKept'
  BY <1>1, <1>3 DEF RateInv, ClockType, Account, RateIsKept
<1> QED
  BY <1>2, <1>4 DEF RateInv

(* A frame may be larger than the bucket: then the sleep is as long as what is *)
(* missing, and the bucket goes below zero by what the cap cut off.            *)
LEMMA SleepKeepsRate ==
  ASSUME RateInv, Sleep
  PROVE  RateInv'
<1>1. /\ pc = "limit" /\ pc' = "asleep"
      /\ UNCHANGED <<file, chunk, now, opened, passed, frame>>
      /\ Refilled(now) < frame.size
      /\ tokens' = Refilled(now) /\ last' = now
      /\ wakeAt' = now + (frame.size - Refilled(now))
  BY DEF Sleep, Stamped, packer
<1>2. LoopType'
  BY <1>1 DEF RateInv, LoopType, InLoop, InHand, Chunks
<1>3. Refilled(now) \in Int /\ Refilled(now) <= tokens + (now - last)
  BY RefilledIsInt DEF RateInv, ClockType, Account
<1>4. ClockType' /\ Account' /\ RateIsKept'
  BY <1>1, <1>3 DEF RateInv, ClockType, Account, RateIsKept
<1> QED
  BY <1>2, <1>4 DEF RateInv

LEMMA WakeKeepsRate ==
  ASSUME RateInv, Wake
  PROVE  RateInv'
<1>1. PICK d \in Lags : now' = wakeAt + d
  BY DEF Wake
<1>2. /\ pc = "asleep" /\ pc' = "append"
      /\ UNCHANGED <<file, chunk, wakeAt, opened, frame>>
      /\ tokens' = Refilled(now') - frame.size /\ last' = now'
      /\ passed' = passed + frame.size
  BY DEF Wake, Stamped, packer
<1>3. d \in Nat /\ now' \in Nat /\ now <= now' /\ last <= now'
  BY <1>1, <1>2 DEF Lags, RateInv, ClockType, Account
<1>4. LoopType'
  BY <1>2 DEF RateInv, LoopType, InLoop, InHand, Chunks
<1>5. Refilled(now') \in Int /\ Refilled(now') <= tokens + (now' - last)
  BY <1>3, RefilledIsInt DEF RateInv
<1>6. ClockType' /\ Account' /\ RateIsKept'
  BY <1>1, <1>2, <1>3, <1>5 DEF RateInv, ClockType, Account, RateIsKept
<1> QED
  BY <1>4, <1>6 DEF RateInv

LEMMA OthersKeepRate ==
  ASSUME RateInv, Begin \/ Finish \/ Skip \/ AppendFrame \/ EndOfFile \/ FileComplete \/ Lost
  PROVE  RateInv'
<1>1. UNCHANGED <<clock, packer, file>> /\ pc' # "asleep"
  BY DEF Begin, Finish, Skip, AppendFrame, EndOfFile, FileComplete, Lost
<1>2. /\ pc' \notin InHand /\ chunk' \in {chunk, chunk + 1}
      /\ pc' \in InLoop \cup {"exchange"} => pc \in InLoop
  BY DEF Begin, Finish, Skip, AppendFrame, EndOfFile, FileComplete, Lost, InLoop, InHand
<1>3. LoopType'
  BY <1>1, <1>2 DEF RateInv, LoopType
<1>4. ClockType' /\ Account' /\ RateIsKept'
  BY <1>1, IdleKeepsRate DEF packer
<1> QED
  BY <1>3, <1>4 DEF RateInv

LEMMA RateInitially == Init => RateInv
  BY DEF Init, RateInv, LoopType, ClockType, Account, RateIsKept, NoFrame, InLoop, InHand

LEMMA RateInductive == RateInv /\ [Next]_vars => RateInv'
<1> SUFFICES ASSUME RateInv, [Next]_vars PROVE RateInv'
  OBVIOUS
<1>1. CASE Next
  BY <1>1, OpenKeepsRate, CompressKeepsRate, PassKeepsRate, SleepKeepsRate, WakeKeepsRate,
     OthersKeepRate DEF Next
<1>2. CASE UNCHANGED vars
  BY <1>2 DEF vars, clock, packer, RateInv, LoopType, ClockType, Account, RateIsKept, Chunks
<1> QED
  BY <1>1, <1>2

(* BandwidthLimiter: what a file's limiter lets pass never exceeds a burst and *)
(* the rate, however late a sleep ends and however large a chunk is.           *)
THEOREM RateIsAlwaysKept == Spec => []RateIsKept
<1>1. RateInv => RateIsKept
  BY DEF RateInv
<1> QED
  BY <1>1, RateInitially, RateInductive, PTL DEF Spec

-------------------------------------------------------------------------------
(* The chunks. *)

LEMMA ChunksAreInitial ==
  ASSUME NEW f \in Files, NEW x \in Chunks(f), NEW c \in 1..x
  PROVE  c \in Chunks(f)
<1>1. Sizes[f] \in Seq(Nat \ {0})
  BY ConstantsAreSane DEF Files
<1> QED
  BY <1>1 DEF Chunks

IndexSeqs == Seq(Nat)

LEMMA SetOfAppended ==
  ASSUME NEW s \in IndexSeqs, NEW c \in Nat
  PROVE  /\ Append(s, c) \in IndexSeqs /\ ToSet(Append(s, c)) = ToSet(s) \cup {c}
         /\ <<c>> \in IndexSeqs /\ ToSet(<<c>>) = {c}
<1>1. \A i \in DOMAIN Append(s, c) : Append(s, c)[i] = IF i = Len(s) + 1 THEN c ELSE s[i]
  BY DEF IndexSeqs
<1>2. DOMAIN Append(s, c) = DOMAIN s \cup {Len(s) + 1} /\ Len(s) + 1 \notin DOMAIN s
  BY DEF IndexSeqs
<1> QED
  BY <1>1, <1>2 DEF IndexSeqs, ToSet

LEMMA SetOfNothing == <<>> \in IndexSeqs /\ ToSet(<<>>) = {}
  BY DEF IndexSeqs, ToSet

(* Every chunk before the one in hand was called back or waits in the batch.   *)
InBatch ==
  /\ chunk >= 1 /\ ToSet(pending) \subseteq Chunks(file)
  /\ Chunks(file) \cap 1..(chunk - 1) \subseteq done \cup ToSet(pending)

SentInv ==
  /\ pending \in IndexSeqs
  /\ file \in Files => done \subseteq Chunks(file)
  /\ pc \in InLoop => InBatch
  /\ CompleteMeansSent

ChunkInv == RateInv /\ SentInv

LEMMA OpenKeepsSent ==
  ASSUME ChunkInv, NEW f \in Files, Open(f)
  PROVE  SentInv'
<1>1. /\ pc' = "chunk" /\ file' = f /\ chunk' = 1 /\ pending' = <<>> /\ wire' = done'
      /\ done' \in (IF f = file THEN {done, {}} ELSE {{}})
  BY DEF Open, NewBucket, NewCompressor
<1>2. done' \subseteq Chunks(file')
  BY <1>1 DEF ChunkInv, SentInv
<1>3. InBatch'
  BY <1>1, SetOfNothing DEF InBatch, Chunks
<1> QED
  BY <1>1, <1>2, <1>3, SetOfNothing DEF SentInv, CompleteMeansSent

(* The file, the batch and what was called back are as they were. *)
LEMMA SameBatchKeepsSent ==
  ASSUME ChunkInv, UNCHANGED <<file, buffer>>,
         pc' \in InLoop => pc \in InLoop /\ (chunk' = chunk \/ (chunk \in done /\ chunk' = chunk + 1)),
         pc' # "exchange"
  PROVE  SentInv'
<1>1. UNCHANGED <<file, pending, done, wire>> /\ chunk \in Nat
  BY DEF buffer, ChunkInv, RateInv, LoopType
<1>2. ASSUME pc' \in InLoop PROVE InBatch'
  <2>1. InBatch /\ (chunk' = chunk \/ (chunk \in done /\ chunk' = chunk + 1))
    BY <1>2 DEF ChunkInv, SentInv
  <2> QED
    BY <1>1, <2>1 DEF InBatch, Chunks
<1>3. /\ pending' \in IndexSeqs /\ (file' \in Files => done' \subseteq Chunks(file'))
      /\ CompleteMeansSent'
  BY <1>1 DEF ChunkInv, SentInv, CompleteMeansSent, Chunks
<1> QED
  BY <1>2, <1>3 DEF SentInv

LEMMA AppendKeepsSent ==
  ASSUME ChunkInv, AppendFrame
  PROVE  SentInv'
<1>1. /\ pc = "append" /\ pc' = "chunk" /\ file' = file /\ chunk' = chunk + 1
      /\ \/ /\ wire' = wire \cup ToSet(pending) /\ done' = done \cup ToSet(pending)
            /\ pending' = <<chunk>>
         \/ /\ pending' = Append(pending, chunk) /\ done' = done /\ wire' = wire
  BY DEF AppendFrame, Flush, Flushed, Confirmed
<1>2. /\ file \in Files /\ chunk \in Chunks(file) /\ chunk \in Nat /\ pending \in IndexSeqs
      /\ InBatch /\ done \subseteq Chunks(file) /\ done \subseteq wire
  BY <1>1 DEF ChunkInv, RateInv, LoopType, SentInv, CompleteMeansSent, InLoop, InHand
<1>3. /\ pending' \in IndexSeqs
      /\ done' \cup ToSet(pending') = done \cup ToSet(pending) \cup {chunk}
      /\ done' \subseteq wire' /\ ToSet(pending') \subseteq Chunks(file)
      /\ done' \subseteq Chunks(file)
  <2>1. ToSet(pending) \subseteq Chunks(file)
    BY <1>2 DEF InBatch
  <2>2. /\ Append(pending, chunk) \in IndexSeqs /\ ToSet(Append(pending, chunk)) = ToSet(pending) \cup {chunk}
        /\ <<chunk>> \in IndexSeqs /\ ToSet(<<chunk>>) = {chunk}
    BY <1>2, SetOfAppended
  <2>3. CASE pending' = <<chunk>> /\ wire' = wire \cup ToSet(pending) /\ done' = done \cup ToSet(pending)
    BY <1>2, <2>1, <2>2, <2>3
  <2>4. CASE pending' = Append(pending, chunk) /\ done' = done /\ wire' = wire
    BY <1>2, <2>1, <2>2, <2>4
  <2> QED
    BY <1>1, <2>3, <2>4
<1>4. InBatch'
  BY <1>1, <1>2, <1>3 DEF InBatch, Chunks
<1> QED
  BY <1>1, <1>3, <1>4 DEF SentInv, CompleteMeansSent, Chunks

LEMMA EndKeepsSent ==
  ASSUME ChunkInv, EndOfFile
  PROVE  SentInv'
<1>1. /\ pc = "chunk" /\ pc' = "exchange" /\ file' = file /\ chunk \notin Chunks(file)
      /\ wire' = wire \cup ToSet(pending) /\ done' = done \cup ToSet(pending)
      /\ pending' = <<>>
  BY DEF EndOfFile, Flush, Flushed, Confirmed
<1>2. /\ file \in Files /\ chunk \in Nat /\ InBatch
      /\ done \subseteq Chunks(file) /\ done \subseteq wire
  BY <1>1 DEF ChunkInv, RateInv, LoopType, SentInv, CompleteMeansSent, InLoop
<1>3. ASSUME NEW x \in Chunks(file) PROVE x \in 1..(chunk - 1)
  <2>1. x \in Nat /\ x >= 1
    BY <1>2, ConstantsAreSane DEF Chunks, Files
  <2>2. chunk \notin 1..x
    BY <1>1, <1>2, ChunksAreInitial
  <2> QED
    BY <1>2, <2>1, <2>2 DEF InBatch
<1>4. done' = Chunks(file)
  BY <1>1, <1>2, <1>3 DEF InBatch
<1> QED
  BY <1>1, <1>2, <1>4, SetOfNothing DEF SentInv, CompleteMeansSent, InLoop, Chunks

LEMMA OthersKeepSent ==
  ASSUME ChunkInv,
         Begin \/ Finish \/ Skip \/ Compress \/ Pass \/ Sleep \/ Wake \/ FileComplete \/ Lost
  PROVE  SentInv'
<1>1. UNCHANGED <<file, buffer>>
  BY DEF Begin, Finish, Skip, Compress, Pass, Sleep, Wake, FileComplete, Lost
<1>2. /\ pc' \in InLoop => pc \in InLoop /\ (chunk' = chunk \/ (chunk \in done /\ chunk' = chunk + 1))
      /\ pc' # "exchange"
  BY DEF Begin, Finish, Skip, Compress, Pass, Sleep, Wake, FileComplete, Lost, InLoop
<1> QED
  BY <1>1, <1>2, SameBatchKeepsSent

LEMMA ChunkInitially == Init => ChunkInv
<1>1. Init => SentInv
  BY SetOfNothing DEF Init, SentInv, CompleteMeansSent, InLoop, Chunks
<1> QED
  BY <1>1, RateInitially DEF ChunkInv

LEMMA ChunkInductive == ChunkInv /\ [Next]_vars => ChunkInv'
<1> SUFFICES ASSUME ChunkInv, [Next]_vars PROVE ChunkInv'
  OBVIOUS
<1>1. RateInv'
  BY RateInductive DEF ChunkInv
<1>2. CASE Next
  <2>1. SentInv'
    BY <1>2, OpenKeepsSent, AppendKeepsSent, EndKeepsSent, OthersKeepSent DEF Next
  <2> QED
    BY <1>1, <2>1 DEF ChunkInv
<1>3. CASE UNCHANGED vars
  BY <1>1, <1>3 DEF vars, buffer, ChunkInv, SentInv, InBatch, CompleteMeansSent, Chunks
<1> QED
  BY <1>2, <1>3

(* send_file: a chunk is called back as complete only when its batch was       *)
(* written, and the checksums are exchanged when every chunk was.              *)
THEOREM CompleteIsSent == Spec => []CompleteMeansSent
<1>1. ChunkInv => CompleteMeansSent
  BY DEF ChunkInv, SentInv
<1> QED
  BY <1>1, ChunkInitially, ChunkInductive, PTL DEF Spec

-------------------------------------------------------------------------------
(* How many units files and chunks have. *)

LEMMA UpTo ==
  ASSUME NEW n \in Nat
  PROVE  IsFiniteSet(1..n) /\ Cardinality(1..n) = n
<1>1. IsFiniteSet(1..n) /\ Cardinality(1..n) = IF 1 > n THEN 0 ELSE n - 1 + 1
  BY FS_Interval
<1> QED
  BY <1>1

LEMMA UnitsOfOne ==
  ASSUME NEW f \in Files, NEW c \in Chunks(f)
  PROVE  IsFiniteSet(Units(f, {c})) /\ Cardinality(Units(f, {c})) = Sizes[f][c]
<1>1. Sizes[f][c] \in Nat
  BY SizesAreNat
<1>2. IsFiniteSet({<<f, c>>}) /\ Cardinality({<<f, c>>}) = 1
  BY FS_Singleton
<1>3. IsFiniteSet(1..Sizes[f][c]) /\ Cardinality(1..Sizes[f][c]) = Sizes[f][c]
  BY <1>1, UpTo
<1>4. Units(f, {c}) = {<<f, c>>} \X (1..Sizes[f][c])
  BY DEF Units
<1>5. /\ IsFiniteSet({<<f, c>>} \X (1..Sizes[f][c]))
      /\ Cardinality({<<f, c>>} \X (1..Sizes[f][c])) =
           Cardinality({<<f, c>>}) * Cardinality(1..Sizes[f][c])
  BY <1>2, <1>3, FS_Product
<1>6. 1 * Sizes[f][c] = Sizes[f][c]
  BY <1>1
<1>7. Cardinality({<<f, c>>} \X (1..Sizes[f][c])) = Sizes[f][c]
  BY <1>2, <1>3, <1>5, <1>6
<1> QED
  BY <1>3, <1>4, <1>5, <1>7

LEMMA UnitsOfMore ==
  ASSUME NEW f, NEW cs, NEW ds
  PROVE  /\ Units(f, cs \cup ds) = Units(f, cs) \cup Units(f, ds)
         /\ cs \subseteq ds => Units(f, cs) \subseteq Units(f, ds)
         /\ cs \cap ds = {} => Units(f, cs) \cap Units(f, ds) = {}
         /\ Units(f, {}) = {}
<1>1. \A x : x \in Units(f, cs) <=> \E c \in cs : x \in {<<f, c>>} \X (1..Sizes[f][c])
  BY DEF Units
<1>2. \A x : x \in Units(f, ds) <=> \E c \in ds : x \in {<<f, c>>} \X (1..Sizes[f][c])
  BY DEF Units
<1>3. \A x : x \in Units(f, cs \cup ds) <=> \E c \in cs \cup ds : x \in {<<f, c>>} \X (1..Sizes[f][c])
  BY DEF Units
<1>4. \A x, c : x \in {<<f, c>>} \X (1..Sizes[f][c]) => x[1] = <<f, c>> /\ x[1][2] = c
  OBVIOUS
<1>5. Units(f, {}) = {}
  BY DEF Units
<1>6. cs \cap ds = {} => Units(f, cs) \cap Units(f, ds) = {}
  BY <1>1, <1>2, <1>4
<1>7. Units(f, cs \cup ds) = Units(f, cs) \cup Units(f, ds)
  BY <1>1, <1>2, <1>3
<1>8. cs \subseteq ds => Units(f, cs) \subseteq Units(f, ds)
  BY <1>1, <1>2
<1> QED
  BY <1>5, <1>6, <1>7, <1>8

(* A function has finitely many values on a finite set. *)
LEMMA FiniteRange ==
  ASSUME NEW S, IsFiniteSet(S), NEW g, DOMAIN g = S, g = [x \in S |-> g[x]]
  PROVE  IsFiniteSet({g[x] : x \in S})
<1>1. g \in Surjection(S, {g[x] : x \in S})
  BY DEF Surjection
<1> QED
  BY <1>1, FS_Surjection

LEMMA FilesAreFinite ==
  /\ IsFiniteSet(Files) /\ Files \subseteq Nat \ {0}
  /\ \A f \in Files : IsFiniteSet(Chunks(f)) /\ Chunks(f) \subseteq Nat \ {0}
<1>1. Files = 1..Len(Sizes) /\ Len(Sizes) \in Nat /\ \A f \in Files : Sizes[f] \in Seq(Nat \ {0})
  BY ConstantsAreSane DEF Files
<1>2. IsFiniteSet(1..Len(Sizes))
  BY <1>1, FS_Interval
<1>3. ASSUME NEW f \in Files PROVE IsFiniteSet(Chunks(f)) /\ Chunks(f) \subseteq Nat \ {0}
  <2>1. Chunks(f) = 1..Len(Sizes[f]) /\ Len(Sizes[f]) \in Nat
    BY <1>1 DEF Chunks
  <2>2. IsFiniteSet(1..Len(Sizes[f]))
    BY <2>1, FS_Interval
  <2> QED
    BY <2>1, <2>2
<1> QED
  BY <1>1, <1>2, <1>3

LEMMA UnitsAreFinite ==
  ASSUME NEW f \in Files, NEW cs \in SUBSET Chunks(f)
  PROVE  IsFiniteSet(Units(f, cs)) /\ Total(f, cs) \in Nat
<1> DEFINE g == [c \in cs |-> {<<f, c>>} \X (1..Sizes[f][c])]
<1>1. IsFiniteSet(cs)
  BY FilesAreFinite, FS_Subset
<1>2. IsFiniteSet({g[c] : c \in cs})
  <2>1. DOMAIN g = cs /\ g = [c \in cs |-> g[c]]
    OBVIOUS
  <2> HIDE DEF g
  <2> QED
    BY <1>1, <2>1, FiniteRange
<1>3. \A c \in cs : g[c] = Units(f, {c}) /\ c \in Chunks(f)
  BY DEF Units
<1>4. \A c \in cs : IsFiniteSet(g[c])
  BY <1>3, UnitsOfOne
<1>5. IsFiniteSet(UNION {g[c] : c \in cs})
  <2> HIDE DEF g
  <2> QED
    BY <1>2, <1>4, FS_UNION
<1>6. UNION {g[c] : c \in cs} = Units(f, cs)
  BY DEF Units
<1> QED
  BY <1>5, <1>6, FS_CardinalityType DEF Total

(* A chunk more.  *)
LEMMA TotalOfMore ==
  ASSUME NEW f \in Files, NEW cs \in SUBSET Chunks(f), NEW c \in Chunks(f)
  PROVE  /\ Total(f, cs \cup {c}) <= Total(f, cs) + Sizes[f][c]
         /\ c \notin cs => Total(f, cs \cup {c}) = Total(f, cs) + Sizes[f][c]
<1> DEFINE A == Units(f, cs)
           B == Units(f, {c})
<1>1. IsFiniteSet(A) /\ Total(f, cs) \in Nat /\ Total(f, cs) = Cardinality(A)
  BY UnitsAreFinite DEF Total
<1>2. IsFiniteSet(B) /\ Cardinality(B) = Sizes[f][c] /\ Sizes[f][c] \in Nat
  BY UnitsOfOne, SizesAreNat
<1>3. Total(f, cs \cup {c}) = Cardinality(A \cup B)
  <2>1. Units(f, cs \cup {c}) = A \cup B
    BY UnitsOfMore
  <2> HIDE DEF A, B
  <2> QED
    BY <2>1 DEF Total
<1>4. c \notin cs => A \cap B = {}
  <2>1. c \notin cs => cs \cap {c} = {}
    OBVIOUS
  <2> QED
    BY <2>1, UnitsOfMore
<1> HIDE DEF A, B
<1>5. /\ Cardinality(A \cup B) = Cardinality(A) + Cardinality(B) - Cardinality(A \cap B)
      /\ Cardinality(A \cap B) \in Nat
  <2>1. IsFiniteSet(A \cap B)
    BY <1>1, FS_Intersection
  <2> QED
    BY <1>1, <1>2, <2>1, FS_Union, FS_CardinalityType
<1>6. A \cap B = {} => Cardinality(A \cap B) = 0
  BY FS_EmptySet
<1> QED
  BY <1>1, <1>2, <1>3, <1>4, <1>5, <1>6

LEMMA TotalOfPart ==
  ASSUME NEW f \in Files, NEW ds \in SUBSET Chunks(f), NEW cs \in SUBSET ds
  PROVE  Total(f, cs) <= Total(f, ds)
<1>1. Units(f, cs) \subseteq Units(f, ds)
  BY UnitsOfMore
<1>2. IsFiniteSet(Units(f, ds))
  BY UnitsAreFinite
<1> QED
  BY <1>1, <1>2, FS_Subset DEF Total

LEMMA TotalOfNothing == \A f : Total(f, {}) = 0
<1>1. \A f : Units(f, {}) = {}
  BY DEF Units
<1> QED
  BY <1>1, FS_EmptySet DEF Total

LEMMA AllUnitsAreFinite ==
  ASSUME NEW fs \in SUBSET Files
  PROVE  IsFiniteSet(AllUnits(fs)) /\ Whole(fs) \in Nat
<1> DEFINE g == [f \in fs |-> Units(f, Chunks(f))]
<1>1. IsFiniteSet(fs)
  BY FilesAreFinite, FS_Subset
<1>2. IsFiniteSet({g[f] : f \in fs})
  <2>1. DOMAIN g = fs /\ g = [f \in fs |-> g[f]]
    OBVIOUS
  <2> HIDE DEF g
  <2> QED
    BY <1>1, <2>1, FiniteRange
<1>3. \A f \in fs : IsFiniteSet(g[f])
  BY UnitsAreFinite
<1>4. UNION {g[f] : f \in fs} = AllUnits(fs)
  BY DEF AllUnits
<1>5. IsFiniteSet(UNION {g[f] : f \in fs})
  <2> HIDE DEF g
  <2> QED
    BY <1>2, <1>3, FS_UNION
<1> QED
  BY <1>4, <1>5, FS_CardinalityType DEF Whole

(* A file more. *)
LEMMA WholeOfMore ==
  ASSUME NEW fs \in SUBSET Files, NEW f \in Files \ fs
  PROVE  Whole(fs \cup {f}) = Whole(fs) + Total(f, Chunks(f))
<1> DEFINE A == AllUnits(fs)
           B == Units(f, Chunks(f))
<1>1. IsFiniteSet(A) /\ Cardinality(A) \in Nat /\ Whole(fs) = Cardinality(A)
  BY AllUnitsAreFinite DEF Whole
<1>2. IsFiniteSet(B) /\ Cardinality(B) \in Nat /\ Total(f, Chunks(f)) = Cardinality(B)
  BY UnitsAreFinite DEF Total
<1>3. AllUnits(fs \cup {f}) = A \cup B
  BY DEF AllUnits
<1>4. A \cap B = {}
  <2>1. \A g, x : x \in Units(g, Chunks(g)) => x[1][1] = g
    BY DEF Units
  <2>2. \A x \in A : \E g \in fs : x \in Units(g, Chunks(g))
    BY DEF AllUnits
  <2> QED
    BY <2>1, <2>2
<1> HIDE DEF A, B
<1>5. Cardinality(A \cup B) = Cardinality(A) + Cardinality(B)
  BY <1>1, <1>2, <1>4, FS_Union, FS_EmptySet
<1> QED
  BY <1>1, <1>2, <1>3, <1>5 DEF Whole

LEMMA WholeOfNothing == Whole({}) = 0
<1>1. AllUnits({}) = {}
  BY DEF AllUnits
<1> QED
  BY <1>1, FS_EmptySet DEF Whole

-------------------------------------------------------------------------------
(* The types. *)

PcTypes ==
  /\ pc \in {"begin", "open", "chunk", "limit", "asleep", "append", "exchange", "done", "failed"}
  /\ attempt \in Nat /\ 1 <= attempt /\ attempt <= MaxAttempts
PackerTypes ==
  /\ decided \in BOOLEAN /\ enabled \in BOOLEAN /\ sampled \in Nat /\ orig \in Nat /\ comp \in Nat
  /\ frame \in Frame
BufferTypes ==
  /\ batch \in Nat /\ done \subseteq Nat /\ wire \subseteq Nat
BarTypes == files \subseteq Files /\ shown \in Nat /\ total \in Nat
TypeInv == PcTypes /\ PackerTypes /\ BufferTypes /\ BarTypes /\ tokens <= Burst

LEMMA PartsAreTypes == ChunkInv /\ TypeInv => TypeOK
<1> SUFFICES ASSUME ChunkInv, TypeInv PROVE TypeOK
  OBVIOUS
<1>1. MaxAttempts \in Nat
  BY ConstantsAreSane
<1>2. attempt \in 1..MaxAttempts
  BY <1>1 DEF TypeInv, PcTypes
<1> QED
  BY <1>2 DEF ChunkInv, RateInv, LoopType, ClockType, Account, SentInv, IndexSeqs,
     TypeInv, PcTypes, PackerTypes, BufferTypes, BarTypes, TypeOK

LEMMA ItemsAreNat ==
  ASSUME pending \in IndexSeqs
  PROVE  ToSet(pending) \subseteq Nat
  BY DEF IndexSeqs, ToSet

LEMMA CompressKeepsTypes ==
  ASSUME ChunkInv, TypeInv, Compress
  PROVE  PackerTypes'
<1>1. chunk \in Nat /\ Sizes[file][chunk] \in Nat
  BY SizesAreNat DEF Compress, ChunkInv, RateInv, LoopType, InLoop
<1>2. CASE decided /\ ~enabled
  <2>1. /\ frame' = [chunk |-> chunk, size |-> Sizes[file][chunk], packed |-> FALSE]
        /\ UNCHANGED <<decided, enabled, sampled, orig, comp>>
    BY <1>2 DEF Compress
  <2> QED
    BY <1>1, <2>1 DEF TypeInv, PackerTypes, Frame
<1>3. CASE ~(decided /\ ~enabled)
  <2>1. PICK c \in 1..(Sizes[file][chunk] + Grow) :
          /\ frame' = [chunk |-> chunk, size |-> c, packed |-> TRUE]
          /\ IF decided THEN UNCHANGED <<decided, enabled, sampled, orig, comp>>
             ELSE /\ sampled' = sampled + 1 /\ orig' = orig + Sizes[file][chunk] /\ comp' = comp + c
                  /\ decided' = Enough(sampled')
                  /\ enabled' = ~(Enough(sampled') /\ Poor(orig', comp'))
    BY <1>3 DEF Compress
  <2>2. c \in Nat
    BY <1>1, <2>1
  <2>3. frame' \in Frame
    BY <1>1, <2>1, <2>2 DEF Frame
  <2>4. Enough(sampled') \in BOOLEAN /\ Poor(orig', comp') \in BOOLEAN
    BY DEF Enough, Poor
  <2>5. decided' \in BOOLEAN /\ enabled' \in BOOLEAN
    BY <2>1, <2>4 DEF TypeInv, PackerTypes
  <2>6. sampled' \in Nat /\ orig' \in Nat /\ comp' \in Nat
    BY <1>1, <2>1, <2>2 DEF TypeInv, PackerTypes
  <2> QED
    BY <2>3, <2>5, <2>6 DEF PackerTypes
<1> QED
  BY <1>2, <1>3

LEMMA AppendKeepsTypes ==
  ASSUME ChunkInv, TypeInv, AppendFrame
  PROVE  BufferTypes' /\ BarTypes'
<1>1. /\ file \in Files /\ chunk \in Chunks(file) /\ chunk \in Nat
      /\ pending \in IndexSeqs /\ frame.size \in Nat
  BY DEF AppendFrame, ChunkInv, RateInv, LoopType, ClockType, SentInv, InLoop, InHand
<1>2. shown' = shown + Sizes[file][chunk] /\ UNCHANGED <<files, total>>
  BY DEF AppendFrame, Counted
<1>3. Sizes[file][chunk] \in Nat /\ ToSet(pending) \subseteq Nat
  BY <1>1, SizesAreNat, ItemsAreNat
<1>4. BarTypes'
  BY <1>2, <1>3 DEF TypeInv, BarTypes
<1>5. /\ batch' = frame.size \/ batch' = batch + frame.size
      /\ done' \in {done, done \cup ToSet(pending)} /\ wire' \in {wire, wire \cup ToSet(pending)}
  BY DEF AppendFrame, Flush, Flushed, Confirmed
<1> QED
  BY <1>1, <1>3, <1>4, <1>5 DEF TypeInv, BufferTypes

LEMMA TypesInductive == ChunkInv /\ TypeInv /\ [Next]_vars => TypeInv'
<1> SUFFICES ASSUME ChunkInv, TypeInv, [Next]_vars PROVE TypeInv'
  OBVIOUS
<1>1. MaxAttempts \in Nat /\ tokens \in Int /\ now \in Nat /\ last \in Nat /\ frame.size \in Nat
  BY ConstantsAreSane DEF ChunkInv, RateInv, ClockType
<1>2. PcTypes'
  <2>1. UNCHANGED attempt \/ (attempt' = attempt + 1 /\ attempt < MaxAttempts)
    BY DEF Next, vars, Begin, Open, Finish, Skip, Compress, Pass, Sleep, Wake, AppendFrame, EndOfFile, FileComplete,
       Lost
  <2>2. pc' \in {"begin", "open", "chunk", "limit", "asleep", "append", "exchange", "done", "failed"}
    BY DEF Next, vars, Begin, Open, Finish, Skip, Compress, Pass, Sleep, Wake, AppendFrame, EndOfFile, FileComplete,
       Lost, TypeInv, PcTypes
  <2> QED
    BY <1>1, <2>1, <2>2 DEF TypeInv, PcTypes
<1>3. (tokens <= Burst)'
  <2>1. ASSUME NEW t \in Nat PROVE Refilled(t) <= Burst /\ Refilled(t) \in Int
    BY <1>1 DEF Refilled
  <2>2. CASE Pass \/ Sleep
    BY <1>1, <2>1, <2>2 DEF Pass, Sleep
  <2>3. CASE Wake
    <3>1. PICK d \in Lags : now' = wakeAt + d
      BY <2>3 DEF Wake
    <3>2. now' \in Nat
      BY <3>1 DEF Lags, ChunkInv, RateInv, ClockType
    <3> QED
      BY <1>1, <2>1, <2>3, <3>2 DEF Wake
  <2>4. CASE UNCHANGED tokens \/ tokens' = Burst
    BY <2>4 DEF TypeInv
  <2> QED
    BY <2>2, <2>3, <2>4 DEF Next, vars, clock, Begin, Open, NewBucket, Finish, Skip, Compress, AppendFrame, EndOfFile,
       FileComplete, Lost
<1>4. PackerTypes'
  <2>1. CASE UNCHANGED packer
    BY <2>1 DEF packer, TypeInv, PackerTypes
  <2>2. ASSUME NEW f \in Files, Open(f) PROVE PackerTypes'
    BY <2>2 DEF Open, NewBucket, NewCompressor, NoFrame, Frame, PackerTypes
  <2> QED
    BY <2>1, <2>2, CompressKeepsTypes
    DEF Next, vars, Begin, Finish, Skip, Pass, Sleep, Wake, AppendFrame, EndOfFile, FileComplete, Lost
<1>5. BufferTypes'
  <2>1. CASE UNCHANGED buffer
    BY <2>1 DEF buffer, TypeInv, BufferTypes
  <2>2. ASSUME NEW f \in Files, Open(f) PROVE BufferTypes'
    BY <2>2 DEF Open, NewBucket, NewCompressor, TypeInv, BufferTypes
  <2>3. CASE EndOfFile
    <3>1. ToSet(pending) \subseteq Nat
      BY ItemsAreNat DEF ChunkInv, SentInv
    <3> QED
      BY <2>3, <3>1 DEF EndOfFile, Flush, Flushed, Confirmed, TypeInv, BufferTypes
  <2> QED
    BY <2>1, <2>2, <2>3, AppendKeepsTypes
    DEF Next, vars, Begin, Finish, Skip, Compress, Pass, Sleep, Wake, FileComplete, Lost
<1>6. BarTypes'
  <2>1. CASE UNCHANGED <<files, bar>>
    BY <2>1 DEF bar, TypeInv, BarTypes
  <2>2. CASE Begin
    <3>1. Whole(Files) \in Nat /\ Whole(files) \in Nat
      BY AllUnitsAreFinite DEF TypeInv, BarTypes
    <3> QED
      BY <2>2, <3>1 DEF Begin, TypeInv, BarTypes
  <2>3. CASE FileComplete
    <3>1. file \in Files
      BY <2>3 DEF FileComplete, ChunkInv, RateInv, LoopType
    <3> QED
      BY <2>3, <3>1 DEF FileComplete, bar, TypeInv, BarTypes
  <2> QED
    BY <2>1, <2>2, <2>3, AppendKeepsTypes
    DEF Next, vars, Open, Finish, Skip, Compress, Pass, Sleep, Wake, EndOfFile, Lost
<1> QED
  BY <1>2, <1>3, <1>4, <1>5, <1>6 DEF TypeInv

LEMMA TypesInitially == Init => TypeInv
<1>1. MaxAttempts \in Nat \ {0} /\ Burst \in Nat
  BY ConstantsAreSane
<1> SUFFICES ASSUME Init PROVE TypeInv
  OBVIOUS
<1>2. PcTypes
  BY <1>1 DEF Init, PcTypes
<1>3. decided \in BOOLEAN /\ enabled \in BOOLEAN /\ frame \in Frame
  BY DEF Init, NoFrame, Frame
<1>4. PackerTypes /\ BufferTypes /\ BarTypes /\ tokens <= Burst
  BY <1>1, <1>3 DEF Init, PackerTypes, BufferTypes, BarTypes
<1> QED
  BY <1>2, <1>4 DEF TypeInv

-------------------------------------------------------------------------------
(* The bar. *)

(* Chunks of the file in hand that wait in its batch, and those gone past.     *)
Buffered == IF pc \in InLoop THEN ToSet(pending) ELSE {}
Past == Chunks(file) \cap 1..(chunk - 1)

FilesInv ==
  /\ file \in Files => wire \subseteq Chunks(file)
  /\ Busy => file \in Files \ files
  /\ pc = "done" => files = Files
  /\ pc # "begin" \/ attempt > 1 => total = Whole(Files)
  /\ pc = "exchange" => Chunks(file) \subseteq 1..(chunk - 1)

(* What is on the wire or waits for it was counted, whatever was lost since.   *)
AtLeast ==
  /\ shown >= Whole(files)
  /\ file \in Files \ files => shown >= Whole(files) + Total(file, wire \cup Buffered)

(* In the first attempt nothing was sent before, and no chunk is left out.     *)
Exactly ==
  /\ Busy => done \cup Buffered \subseteq 1..(chunk - 1)
  /\ pc = "begin" => shown = 0 /\ files = {} /\ file = 0
  /\ pc = "open" => shown = Whole(files) /\ file \in files \cup {0}
  /\ Busy => shown = Whole(files) + Total(file, Past)

CoverInv == FilesInv /\ AtLeast /\ (attempt = 1 => Exactly)
SumInv == ChunkInv /\ TypeInv /\ CoverInv

LEMMA BusyIsInLoop == Busy <=> pc \in InLoop \cup {"exchange"}
  BY DEF Busy, InLoop

LEMMA BufferedAreChunks ==
  ASSUME SumInv, file \in Files
  PROVE  wire \cup Buffered \in SUBSET Chunks(file) /\ Past \in SUBSET Chunks(file)
  BY DEF SumInv, CoverInv, FilesInv, ChunkInv, SentInv, InBatch, Buffered, Past

LEMMA SumsAreNat ==
  ASSUME SumInv
  PROVE  /\ Whole(files) \in Nat /\ Whole(Files) \in Nat /\ shown \in Nat /\ files \subseteq Files
         /\ file \in Files => Total(file, wire \cup Buffered) \in Nat /\ Total(file, Past) \in Nat
  BY AllUnitsAreFinite, UnitsAreFinite, BufferedAreChunks DEF SumInv, TypeInv, BarTypes

LEMMA SumCovers == SumInv => ProgressCovers
<1> SUFFICES ASSUME SumInv PROVE ProgressCovers
  OBVIOUS
<1>1. ASSUME Busy
      PROVE  /\ shown >= Whole(files) + Total(file, wire)
             /\ attempt = 1 => shown = Whole(files) + Total(file, Past)
  <2>1. file \in Files \ files
    BY <1>1 DEF SumInv, CoverInv, FilesInv
  <2>2. wire \cup Buffered \in SUBSET Chunks(file) /\ wire \in SUBSET (wire \cup Buffered)
        /\ wire \in SUBSET Chunks(file)
    BY <2>1, BufferedAreChunks
  <2>3. Total(file, wire) <= Total(file, wire \cup Buffered)
    BY <2>1, <2>2, TotalOfPart
  <2>4. Total(file, wire) \in Nat
    BY <2>1, <2>2, UnitsAreFinite
  <2> QED
    BY <1>1, <2>1, <2>3, <2>4, SumsAreNat DEF SumInv, CoverInv, AtLeast, Exactly
<1>2. pc = "done" => shown >= total /\ total = Whole(Files)
  BY SumsAreNat DEF SumInv, CoverInv, FilesInv, AtLeast
<1> QED
  BY <1>1, <1>2 DEF ProgressCovers, Past

LEMMA BeginCovers ==
  ASSUME SumInv, Begin
  PROVE  CoverInv'
<1>1. /\ pc = "begin" /\ pc' = "open" /\ total' = Whole(Files) /\ shown' = shown + Whole(files)
      /\ UNCHANGED <<attempt, file, chunk, pending, done, wire, files>>
  BY DEF Begin, buffer
<1>2. FilesInv'
  BY <1>1 DEF SumInv, CoverInv, FilesInv, Busy, Chunks
<1>3. Buffered = {} /\ Buffered' = {}
  BY <1>1 DEF Buffered, InLoop
<1>4. AtLeast'
  BY <1>1, <1>3, SumsAreNat DEF SumInv, CoverInv, AtLeast
<1>5. attempt = 1 => Exactly'
  BY <1>1, WholeOfNothing DEF SumInv, CoverInv, Exactly, Busy
<1> QED
  BY <1>1, <1>2, <1>4, <1>5 DEF CoverInv

LEMMA OpenCovers ==
  ASSUME SumInv, NEW f \in Files, Open(f)
  PROVE  CoverInv'
<1>1. /\ pc = "open" /\ pc' = "chunk" /\ f \in Files \ files /\ file' = f /\ chunk' = 1 /\ pending' = <<>>
      /\ wire' = done' /\ done' \in (IF f = file THEN {done, {}} ELSE {{}})
      /\ UNCHANGED <<attempt, files, shown, total>>
  BY DEF Open, NewBucket, NewCompressor, bar
<1>2. /\ done \subseteq wire /\ (file \in Files => wire \in SUBSET Chunks(file))
      /\ total = Whole(Files)
  BY <1>1 DEF SumInv, ChunkInv, SentInv, CompleteMeansSent, CoverInv, FilesInv
<1>3. wire' \in SUBSET Chunks(f) /\ (wire' = {} \/ (f = file /\ wire' \subseteq wire))
  BY <1>1, <1>2
<1>4. Buffered' = {} /\ Past' = {}
  BY <1>1, SetOfNothing DEF Buffered, InLoop, Past
<1>5. FilesInv'
  BY <1>1, <1>2, <1>3 DEF FilesInv, Busy, Chunks
<1>6. shown >= Whole(files) + Total(f, wire')
  <2>1. CASE wire' = {}
    BY <2>1, TotalOfNothing, SumsAreNat DEF SumInv, CoverInv, AtLeast
  <2>2. CASE f = file /\ wire' \subseteq wire
    <3>1. Buffered = {}
      BY <1>1 DEF Buffered, InLoop
    <3>2. Total(f, wire') <= Total(f, wire) /\ Total(f, wire') \in Nat /\ Total(f, wire) \in Nat
      BY <1>2, <1>3, <2>2, TotalOfPart, UnitsAreFinite
    <3>3. shown >= Whole(files) + Total(f, wire)
      BY <1>1, <2>2, <3>1 DEF SumInv, CoverInv, AtLeast
    <3> QED
      BY <3>2, <3>3, SumsAreNat
  <2> QED
    BY <1>3, <2>1, <2>2
<1>7. AtLeast'
  BY <1>1, <1>4, <1>6 DEF AtLeast, SumInv, CoverInv
<1>8. ASSUME attempt = 1 PROVE Exactly'
  <2>1. shown = Whole(files) /\ file \in files \cup {0}
    BY <1>1, <1>8 DEF SumInv, CoverInv, Exactly
  <2>2. f # file /\ wire' = {} /\ done' = {}
    BY <1>1, <2>1, FilesAreFinite
  <2> QED
    BY <1>1, <1>4, <2>1, <2>2, TotalOfNothing, SumsAreNat DEF Exactly
<1> QED
  BY <1>1, <1>5, <1>7, <1>8 DEF CoverInv

(* A step that does not touch what was counted. *)
LEMMA QuietCovers ==
  ASSUME SumInv, UNCHANGED <<attempt, file, chunk, buffer, files, bar>>,
         pc \in InLoop, pc' \in InLoop
  PROVE  CoverInv'
<1>1. UNCHANGED <<attempt, file, chunk, pending, done, wire, files, shown, total>>
  BY DEF buffer, bar
<1>2. Buffered' = Buffered /\ Past' = Past
  BY <1>1 DEF Buffered, Past, Chunks
<1>3. FilesInv'
  BY <1>1 DEF SumInv, CoverInv, FilesInv, Busy, InLoop, Chunks
<1>4. AtLeast'
  BY <1>1, <1>2 DEF SumInv, CoverInv, AtLeast
<1>5. attempt = 1 => Exactly'
  BY <1>1, <1>2 DEF SumInv, CoverInv, Exactly, Busy, InLoop
<1> QED
  BY <1>1, <1>3, <1>4, <1>5 DEF CoverInv

(* What a resume leaves out was counted by the attempt that sent it.           *)
LEMMA SkipCovers ==
  ASSUME SumInv, Skip
  PROVE  CoverInv'
<1>1. /\ pc = "chunk" /\ pc' = "chunk" /\ chunk \in done /\ chunk' = chunk + 1 /\ chunk \in Nat
      /\ UNCHANGED <<attempt, file, pending, done, wire, files, shown, total>>
  BY DEF Skip, buffer, bar, SumInv, ChunkInv, RateInv, LoopType
<1>2. Buffered' = Buffered
  BY <1>1 DEF Buffered
<1>3. FilesInv'
  BY <1>1 DEF SumInv, CoverInv, FilesInv, Busy, Chunks
<1>4. AtLeast'
  BY <1>1, <1>2 DEF SumInv, CoverInv, AtLeast
<1>5. attempt # 1
  <2>1. attempt = 1 => chunk \in 1..(chunk - 1)
    BY <1>1 DEF SumInv, CoverInv, Exactly, Busy
  <2> QED
    BY <1>1, <2>1
<1> QED
  BY <1>1, <1>3, <1>4, <1>5 DEF CoverInv

LEMMA AppendCovers ==
  ASSUME SumInv, AppendFrame
  PROVE  CoverInv'
<1>1. /\ pc = "append" /\ pc' = "chunk" /\ chunk' = chunk + 1 /\ shown' = shown + Sizes[file][chunk]
      /\ UNCHANGED <<attempt, file, files, total>>
      /\ \/ /\ wire' = wire \cup ToSet(pending) /\ done' = done \cup ToSet(pending)
            /\ pending' = <<chunk>>
         \/ /\ pending' = Append(pending, chunk) /\ done' = done /\ wire' = wire
  BY DEF AppendFrame, Flush, Flushed, Confirmed, Counted
<1>2. /\ file \in Files \ files /\ file \in Files /\ chunk \in Chunks(file) /\ chunk \in Nat /\ chunk >= 1
      /\ pending \in IndexSeqs
  BY <1>1 DEF SumInv, ChunkInv, RateInv, LoopType, SentInv, InBatch, InLoop, InHand, CoverInv, FilesInv, Busy
<1>3. /\ ToSet(<<chunk>>) = {chunk} /\ ToSet(Append(pending, chunk)) = ToSet(pending) \cup {chunk}
  BY <1>2, SetOfAppended
<1>4. Buffered = ToSet(pending) /\ Buffered' = ToSet(pending')
  BY <1>1 DEF Buffered, InLoop
<1>5. /\ wire' \cup Buffered' = (wire \cup Buffered) \cup {chunk}
      /\ done' \cup Buffered' = (done \cup Buffered) \cup {chunk}
  BY <1>1, <1>3, <1>4
<1>6. wire \cup Buffered \in SUBSET Chunks(file) /\ Past \in SUBSET Chunks(file) /\ Sizes[file][chunk] \in Nat
  BY <1>2, BufferedAreChunks, SizesAreNat
<1>7. FilesInv'
  <2>1. wire' \subseteq Chunks(file)
    BY <1>1, <1>4, <1>6
  <2>2. total = Whole(Files)
    BY <1>1 DEF SumInv, CoverInv, FilesInv
  <2> QED
    BY <1>1, <1>2, <2>1, <2>2 DEF FilesInv, Busy, Chunks
<1>8. AtLeast'
  <2>1. Total(file, wire' \cup Buffered') <= Total(file, wire \cup Buffered) + Sizes[file][chunk]
    BY <1>2, <1>5, <1>6, TotalOfMore
  <2>2. Total(file, wire' \cup Buffered') \in Nat
    <3>1. wire' \cup Buffered' \in SUBSET Chunks(file)
      BY <1>2, <1>5, <1>6
    <3> QED
      BY <1>2, <3>1, UnitsAreFinite
  <2>3. shown >= Whole(files) /\ shown >= Whole(files) + Total(file, wire \cup Buffered)
    BY <1>2 DEF SumInv, CoverInv, AtLeast
  <2> QED
    BY <1>1, <1>2, <1>6, <2>1, <2>2, <2>3, SumsAreNat DEF AtLeast
<1>9. ASSUME attempt = 1 PROVE Exactly'
  <2>1. done \cup Buffered \subseteq 1..(chunk - 1) /\ shown = Whole(files) + Total(file, Past)
    BY <1>1, <1>9 DEF SumInv, CoverInv, Exactly, Busy
  <2>2. done' \cup Buffered' \subseteq 1..(chunk' - 1)
    BY <1>1, <1>2, <1>5, <2>1
  <2>3. Past' = Past \cup {chunk} /\ chunk \notin Past
    BY <1>1, <1>2 DEF Past, Chunks
  <2>4. Total(file, Past') = Total(file, Past) + Sizes[file][chunk]
    BY <1>2, <1>6, <2>3, TotalOfMore
  <2>5. Total(file, Past) \in Nat
    BY <1>2, SumsAreNat
  <2> QED
    BY <1>1, <1>6, <2>1, <2>2, <2>4, <2>5, SumsAreNat DEF Exactly
<1> QED
  BY <1>1, <1>7, <1>8, <1>9 DEF CoverInv

LEMMA EndCovers ==
  ASSUME SumInv, EndOfFile
  PROVE  CoverInv'
<1>1. /\ pc = "chunk" /\ pc' = "exchange" /\ chunk \notin Chunks(file)
      /\ wire' = wire \cup ToSet(pending) /\ done' = done \cup ToSet(pending)
      /\ UNCHANGED <<attempt, file, chunk, files, shown, total>>
  BY DEF EndOfFile, Flush, Flushed, Confirmed, bar
<1>2. file \in Files \ files /\ file \in Files /\ chunk \in Nat /\ chunk >= 1
  BY <1>1 DEF SumInv, CoverInv, FilesInv, Busy, ChunkInv, RateInv, LoopType, SentInv, InBatch, InLoop
<1>3. Buffered = ToSet(pending) /\ Buffered' = {} /\ Past' = Past
  BY <1>1 DEF Buffered, InLoop, Past, Chunks
<1>4. wire' \cup Buffered' = wire \cup Buffered /\ done' \cup Buffered' = done \cup Buffered
  BY <1>1, <1>3
<1>5. Chunks(file) \subseteq 1..(chunk - 1)
  <2>1. ASSUME NEW x \in Chunks(file) PROVE x \in 1..(chunk - 1)
    <3>1. x \in Nat /\ x >= 1
      BY <1>2, FilesAreFinite
    <3>2. chunk \notin 1..x
      BY <1>1, <1>2, ChunksAreInitial
    <3> QED
      BY <1>2, <3>1, <3>2
  <2> QED
    BY <2>1
<1>6. FilesInv'
  <2>1. wire' \subseteq Chunks(file)
    BY <1>2, <1>3, <1>4, BufferedAreChunks
  <2>2. total = Whole(Files)
    BY <1>1 DEF SumInv, CoverInv, FilesInv
  <2> QED
    BY <1>1, <1>2, <1>5, <2>1, <2>2 DEF FilesInv, Busy, Chunks
<1>7. AtLeast'
  BY <1>1, <1>4 DEF SumInv, CoverInv, AtLeast
<1>8. attempt = 1 => Exactly'
  BY <1>1, <1>3, <1>4 DEF SumInv, CoverInv, Exactly, Busy
<1> QED
  BY <1>1, <1>6, <1>7, <1>8 DEF CoverInv

(* Every chunk of a file that is complete was counted, whenever it was sent.   *)
LEMMA CompleteCovers ==
  ASSUME SumInv, FileComplete
  PROVE  CoverInv'
<1>1. /\ pc = "exchange" /\ pc' = "open" /\ files' = files \cup {file}
      /\ UNCHANGED <<attempt, file, chunk, pending, done, wire, shown, total>>
  BY DEF FileComplete, buffer, bar
<1>2. /\ file \in Files \ files /\ file \in Files /\ wire \in SUBSET Chunks(file) /\ done = Chunks(file)
      /\ done \subseteq wire /\ Chunks(file) \subseteq 1..(chunk - 1) /\ total = Whole(Files)
  BY <1>1 DEF SumInv, CoverInv, FilesInv, Busy, ChunkInv, SentInv, CompleteMeansSent
<1>3. Buffered = {} /\ wire \cup Buffered = Chunks(file) /\ Past = Chunks(file)
  BY <1>1, <1>2 DEF Buffered, InLoop, Past
<1>4. Whole(files') = Whole(files) + Total(file, Chunks(file))
  BY <1>1, <1>2, WholeOfMore, SumsAreNat
<1>5. FilesInv'
  BY <1>1, <1>2 DEF FilesInv, Busy, Chunks
<1>6. AtLeast'
  <2>1. shown >= Whole(files) + Total(file, Chunks(file))
    BY <1>2, <1>3 DEF SumInv, CoverInv, AtLeast
  <2> QED
    BY <1>1, <1>4, <2>1 DEF AtLeast
<1>7. attempt = 1 => Exactly'
  BY <1>1, <1>3, <1>4 DEF SumInv, CoverInv, Exactly, Busy
<1> QED
  BY <1>1, <1>5, <1>6, <1>7 DEF CoverInv

(* An attempt that is lost leaves what it counted, and the next is not first.  *)
LEMMA EndsCover ==
  ASSUME SumInv, Lost \/ Finish
  PROVE  CoverInv'
<1>1. /\ UNCHANGED <<file, chunk, pending, done, wire, files, shown, total>> /\ pc # "begin"
      /\ attempt \in Nat /\ attempt >= 1
      /\ \/ attempt' = attempt + 1 /\ pc' = "begin"
         \/ attempt' = attempt /\ pc' = "failed"
         \/ attempt' = attempt /\ pc' = "done" /\ files = Files
  BY DEF Lost, Finish, buffer, bar, SumInv, TypeInv, PcTypes
<1>2. FilesInv'
  BY <1>1 DEF SumInv, CoverInv, FilesInv, Busy, Chunks
<1>3. AtLeast'
  <2>1. ASSUME file \in Files \ files PROVE shown >= Whole(files) + Total(file, wire)
    <3>1. wire \cup Buffered \in SUBSET Chunks(file) /\ wire \in SUBSET Chunks(file) /\ wire \in SUBSET (wire \cup Buffered)
      BY <2>1, BufferedAreChunks
    <3>2. /\ Total(file, wire) <= Total(file, wire \cup Buffered) /\ Total(file, wire) \in Nat
          /\ Total(file, wire \cup Buffered) \in Nat
      BY <2>1, <3>1, TotalOfPart, UnitsAreFinite
    <3>3. shown >= Whole(files) + Total(file, wire \cup Buffered)
      BY <2>1 DEF SumInv, CoverInv, AtLeast
    <3> QED
      BY <3>2, <3>3, SumsAreNat
  <2>2. Buffered' = {} /\ wire' \cup Buffered' = wire
    BY <1>1 DEF Buffered, InLoop
  <2> QED
    BY <1>1, <2>1, <2>2 DEF SumInv, CoverInv, AtLeast
<1>4. attempt' = 1 => Exactly'
  BY <1>1 DEF Exactly, Busy
<1> QED
  BY <1>2, <1>3, <1>4 DEF CoverInv

LEMMA SumInductive == SumInv /\ [Next]_vars => SumInv'
<1> SUFFICES ASSUME SumInv, [Next]_vars PROVE SumInv'
  OBVIOUS
<1>1. ChunkInv' /\ TypeInv'
  BY ChunkInductive, TypesInductive DEF SumInv
<1>2. CASE Compress \/ Pass \/ Sleep \/ Wake
  <2>1. /\ UNCHANGED <<attempt, file, chunk, buffer, files, bar>> /\ pc \in InLoop /\ pc' \in InLoop
    BY <1>2 DEF Compress, Pass, Sleep, Wake, InLoop
  <2> QED
    BY <1>1, <2>1, QuietCovers DEF SumInv
<1>3. CASE UNCHANGED vars
  <2>1. UNCHANGED <<pc, attempt, file, chunk, pending, done, wire, files, shown, total>>
    BY <1>3 DEF vars, buffer, bar
  <2>2. Buffered' = Buffered /\ Past' = Past /\ (Busy' <=> Busy)
    BY <2>1 DEF Buffered, Past, Chunks, Busy
  <2>3. FilesInv' /\ AtLeast' /\ (attempt' = 1 => Exactly')
    BY <2>1, <2>2 DEF SumInv, CoverInv, FilesInv, AtLeast, Exactly, Chunks
  <2> QED
    BY <1>1, <2>3 DEF SumInv, CoverInv
<1> QED
  BY <1>1, <1>2, <1>3, BeginCovers, OpenCovers, SkipCovers, AppendCovers, EndCovers, CompleteCovers, EndsCover
  DEF Next, SumInv

LEMMA SumInitially == Init => SumInv
<1> SUFFICES ASSUME Init PROVE SumInv
  OBVIOUS
<1>1. ChunkInv /\ TypeInv
  BY ChunkInitially, TypesInitially
<1>2. 0 \notin Files
  BY FilesAreFinite
<1>3. FilesInv
  BY <1>2 DEF Init, FilesInv, Busy
<1>4. AtLeast /\ Exactly
  BY <1>2, WholeOfNothing DEF Init, AtLeast, Exactly, Busy
<1> QED
  BY <1>1, <1>3, <1>4 DEF SumInv, CoverInv

(* The sender stays well-formed, and its bucket never holds more than a burst. *)
THEOREM TypeCorrect == Spec => []TypeOK
<1>1. SumInv => TypeOK
  BY PartsAreTypes DEF SumInv
<1> QED
  BY <1>1, SumInitially, SumInductive, PTL DEF Spec

(* ProgressState: the bar never shows less than what is on the wire, shows     *)
(* exactly that while the first attempt lasts, and is full when a send is done.*)
THEOREM ProgressAlwaysCovers == Spec => []ProgressCovers
  BY SumCovers, SumInitially, SumInductive, PTL DEF Spec
===============================================================================
