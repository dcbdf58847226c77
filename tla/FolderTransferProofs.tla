-------------------------- MODULE FolderTransferProofs --------------------------
(***************************************************************************)
(* Proofs about the folder transfer, for any folder, batch sizes, queue     *)
(* capacity, retry policy and number of failures: the types, the window the *)
(* sender stays ahead of the receiver by, the writers that lost connections *)
(* leave behind and the chunks a state file claims.  Then, from Sequences   *)
(* as sets on, that it delivers: as long as nobody edits the source and the *)
(* sender keeps a state file, what gets a final name is the source file,    *)
(* what counts as done is delivered, and a success has delivered            *)
(* everything.                                                              *)
(***************************************************************************)
EXTENDS FolderDelivery, TLAPS, FiniteSetTheorems, SequenceTheorems, WellFoundedInduction

USE ConstantsAssumption

-----------------------------------------------------------------------------
(* What the operators on the data return.                                   *)

(* The files not yet complete have a first one.                             *)
LEMMA NextFileIsPending ==
  ASSUME NEW s \in State
  PROVE  /\ NextFile(s) \in 0..NumFiles
         /\ NextFile(s) # 0 => NextFile(s) \in Files \ s.done
         /\ NextFile(s) = 0 => Files \subseteq s.done
         /\ \A g \in Files \ s.done : NextFile(s) <= g
<1>1. CASE Files \subseteq s.done
  BY <1>1 DEF NextFile
<1>2. CASE ~(Files \subseteq s.done)
  <2> DEFINE T == Files \ s.done
  <2>1. T \subseteq Nat /\ T # {}
    BY <1>2 DEF Files
  <2>2. \E f \in T : \A g \in T : ~(<<g, f>> \in OpToRel(<, Nat))
    <3> HIDE DEF T
    <3> QED
      BY <2>1, NatLessThanWellFounded, WFMin
  <2>3. \E f \in T : \A g \in T : f <= g
    <3>1. PICK f \in T : \A g \in T : ~(<<g, f>> \in OpToRel(<, Nat))
      BY <2>2
    <3>2. \A g \in T : f <= g
      <4> TAKE g \in T
      <4>1. f \in Nat /\ g \in Nat
        BY <2>1
      <4>2. ~(g < f)
        BY <3>1, <4>1 DEF OpToRel
      <4> HIDE DEF T
      <4> QED
        BY <4>1, <4>2
    <3> QED
      BY <3>1, <3>2
  <2>4. NextFile(s) \in T /\ \A g \in T : NextFile(s) <= g
    <3>1. NextFile(s) = CHOOSE f \in T : \A g \in T : f <= g
      BY <1>2 DEF NextFile
    <3> HIDE DEF T
    <3> QED
      BY <2>3, <3>1
  <2> QED
    BY <2>4 DEF Files
<1> QED
  BY <1>1, <1>2

LEMMA FreshStateTyped == FreshState \in State
BY DEF FreshState, State, Lens, Files

LEMMA ManifestTyped ==
  ASSUME NEW s \in State
  PROVE  ManifestOf(s) \in Manifest
<1>1. NextFile(s) \in 0..NumFiles /\ (NextFile(s) # 0 => NextFile(s) \in Files)
  BY NextFileIsPending
<1>2. s.size \in [Files -> Lens] /\ s.done \in SUBSET Files /\ s.chunks \in [Files -> SUBSET Chunks]
  BY DEF State
<1>3. (IF NextFile(s) = 0 THEN {} ELSE s.chunks[NextFile(s)]) \in SUBSET Chunks
  BY <1>1, <1>2
<1> QED
  BY <1>1, <1>2, <1>3 DEF ManifestOf, Manifest

(* The updates of the sender's state.                                       *)
LEMMA StateUpdatesTyped ==
  ASSUME NEW s \in State, NEW f \in Files
  PROVE  /\ ClearBitmaps(s) \in State
         /\ [s EXCEPT !.done = @ \cup {f}] \in State
         /\ \A c \in SUBSET Chunks : [s EXCEPT !.chunks[f] = @ \cup c] \in State
         /\ \A z \in [Files -> Lens] :
              [FreshState EXCEPT !.scanned = TRUE, !.size = z] \in State
BY FreshStateTyped DEF ClearBitmaps, State, FreshState

LEMMA MessagesTyped ==
  /\ \A m \in Manifest : Info(m) \in Message
  /\ \A f \in Files, s \in Content : Checksum(f, s) \in Message
  /\ \A t \in {"Ready", "Cancel", "Complete", "Truncated"} : Plain(t) \in Message
BY DEF Info, Checksum, Plain, Message

(* A message is what its type says.                                         *)
LEMMA MessageFields ==
  ASSUME NEW m \in Message
  PROVE  /\ m.type = "TransferInfo" => m.info \in Manifest
         /\ m.type = "FileChecksum" => m.file \in Files /\ m.sum \in Content
BY DEF Message

(* The queues of the model, and what adding and removing an element leaves. *)
Channel == Seq(Message)
Frames  == Seq(Frame)
Streams == Seq(Frames)
Hashed  == Seq(Versions)

LEMMA QueuesTyped ==
  /\ <<>> \in Channel /\ <<>> \in Frames /\ <<>> \in Streams /\ <<>> \in Hashed /\ <<>> \in Content
  /\ \A q \in Channel, m \in Message : Append(q, m) \in Channel
  /\ \A q \in Frames, m \in Frame : Append(q, m) \in Frames
  /\ \A q \in Streams, m \in Frames : Append(q, m) \in Streams
  /\ \A q \in Hashed, v \in Versions : Append(q, v) \in Hashed
  /\ \A q \in Channel : q # <<>> => Head(q) \in Message /\ Tail(q) \in Channel
  /\ \A q \in Frames : q # <<>> => Head(q) \in Frame /\ Tail(q) \in Frames
  /\ \A q \in Streams : q # <<>> => Head(q) \in Frames /\ Tail(q) \in Streams
<1>1. /\ <<>> \in Channel /\ <<>> \in Frames /\ <<>> \in Streams /\ <<>> \in Hashed /\ <<>> \in Content
  BY EmptySeq DEF Channel, Frames, Streams, Hashed, Content
<1>2. /\ \A q \in Channel, m \in Message : Append(q, m) \in Channel
      /\ \A q \in Frames, m \in Frame : Append(q, m) \in Frames
  BY AppendProperties DEF Channel, Frames
<1>3. /\ \A q \in Streams, m \in Frames : Append(q, m) \in Streams
      /\ \A q \in Hashed, v \in Versions : Append(q, v) \in Hashed
  BY AppendProperties DEF Streams, Hashed
<1>4. \A q \in Channel : q # <<>> => Head(q) \in Message /\ Tail(q) \in Channel
  BY HeadTailProperties DEF Channel
<1>5. \A q \in Frames : q # <<>> => Head(q) \in Frame /\ Tail(q) \in Frames
  BY HeadTailProperties DEF Frames
<1>6. \A q \in Streams : q # <<>> => Head(q) \in Frames /\ Tail(q) \in Streams
  BY HeadTailProperties DEF Streams
<1> QED
  BY <1>1, <1>2, <1>3, <1>4, <1>5, <1>6

(* A drop leaves messages, if fewer of them.                                *)
LEMMA CutTyped ==
  ASSUME NEW q \in Channel, NEW r \in Cut(q)
  PROVE  r \in Channel
<1>1. ASSUME NEW n \in 0..Len(q) PROVE SubSeq(q, 1, n) \in Channel
  <2>1. \A i \in 1..n : q[i] \in Message
    BY ElementOfSeq DEF Channel
  <2> QED
    BY <2>1, SubSeqProperties DEF Channel
<1>2. ASSUME NEW n \in 0..(Len(q) - 1)
      PROVE  Append(SubSeq(q, 1, n), Plain("Truncated")) \in Channel
  <2>1. n \in 0..Len(q)
    BY DEF Channel
  <2> QED
    BY <1>1, <2>1, MessagesTyped, QueuesTyped
<1> QED
  BY <1>1, <1>2 DEF Cut

(* What a closed connection still delivers of the streams.                  *)
LEMMA CutStreamsTyped ==
  ASSUME unis \in Streams, NEW u \in CutStreams
  PROVE  u \in Streams
<1>1. CASE u = unis
  BY <1>1
<1>2. CASE unis # <<>> /\ u = SubSeq(unis, 1, Len(unis) - 1)
  <2>1. \A i \in 1..(Len(unis) - 1) : unis[i] \in Frames
    BY ElementOfSeq DEF Streams
  <2> QED
    BY <1>2, <2>1, SubSeqProperties DEF Streams
<1> QED
  BY <1>1, <1>2 DEF CutStreams

LEMMA NoFileIsNoContent == NoFile \notin Content
BY DEF Content

LEMMA TruncateTyped ==
  ASSUME NEW c \in Content, NEW n \in Nat
  PROVE  Truncate(c, n) \in Content
<1>1. CASE Len(c) > n
  <2>1. \A i \in 1..n : c[i] \in Versions \cup {Hole}
    BY <1>1, ElementOfSeq DEF Content
  <2>2. SubSeq(c, 1, n) \in Content
    BY <2>1, SubSeqProperties DEF Content
  <2> QED
    BY <1>1, <2>2 DEF Truncate
<1> QED
  BY <1>1 DEF Truncate

LEMMA WriteAtTyped ==
  ASSUME NEW c \in Content, NEW i \in Chunks, NEW v \in Versions \cup {Hole}
  PROVE  WriteAt(c, i, v) \in Content
<1> DEFINE n == IF Len(c) < i THEN i ELSE Len(c)
<1>1. n \in Nat /\ Len(c) \in Nat /\ i \in Nat
  BY DEF Content, Chunks
<1>2. \A k \in 1..n : (IF k = i THEN v ELSE IF k <= Len(c) THEN c[k] ELSE Hole) \in Versions \cup {Hole}
  BY <1>1, ElementOfSeq DEF Content
<1>3. WriteAt(c, i, v) \in [1..n -> Versions \cup {Hole}]
  BY <1>2 DEF WriteAt
<1> HIDE DEF n
<1> QED
  BY <1>1, <1>3, SeqDef DEF Content

LEMMA TornTyped ==
  ASSUME NEW c \in Content, NEW i \in Chunks, NEW v \in Versions
  PROVE  Torn(c, i, v) \in Content
BY WriteAtTyped DEF Torn

-----------------------------------------------------------------------------
(* The inductive invariant: the types, where the receiver is, and what each *)
(* writer holds on to.                                                      *)

(* Past the accept there is a connection, and in the middle of a file there *)
(* is a file.                                                               *)
ReceiverIsSomewhere ==
  /\ rpc \notin {"accept", "dead"} => epoch \in Epochs
  /\ rpc \in {"recv", "finalizing", "awaitSum"} => rfile \in Files

(* A writer that has not been replaced writes a file that exists under the  *)
(* name it has for it; only the writer of the current connection finalizes, *)
(* while the receiver waits for it.                                         *)
WriterHoldsItsFile(e) ==
  /\ writers[e].target # "gone" => writers[e].file \in Files
  /\ writers[e].target = "partial" => partial[writers[e].file] # NoFile
  /\ writers[e].target = "final" => final[writers[e].file] # NoFile
  /\ writers[e].fin => e = epoch /\ writers[e].open /\ rpc \in {"finalizing", "awaitSum"}
  /\ writers[e].fin /\ rpc = "awaitSum" => writers[e].finished
  /\ writers[e].fin /\ ~writers[e].finished => writers[e].target = "partial"
  /\ e = epoch /\ rpc = "recv" => writers[e].open /\ writers[e].target = "partial"

IInv ==
  /\ TypeOK
  /\ ReceiverIsSomewhere
  /\ \A e \in Epochs : WriterHoldsItsFile(e)

(* TypeOK in parts, after the variables a step changes together.            *)
SourceTyped == src \in [Files -> Source]

ControlTyped ==
  /\ spc \in {"start", "awaitReady", "next", "send", "flushing", "awaitSum",
              "error", "saving", "backoff"} \cup Stopped
  /\ attempt \in Nat
  /\ err \in {"none", "recoverable", "fatal"}
  /\ resuming \in BOOLEAN

StateTyped == st \in State /\ saved \in StateFile

FileTyped ==
  /\ cur \in Files
  /\ pos \in 1..(MaxLen + 1)
  /\ slen \in Lens
  /\ sum \in Hashed
  /\ batch \in Frames
  /\ verified \in [Files -> Hashed]

NetTyped ==
  /\ up \in BOOLEAN
  /\ toR \in Channel
  /\ toS \in Channel
  /\ unis \in Streams

ReceiverTyped ==
  /\ rpc \in {"accept", "info", "file", "recv", "finalizing", "awaitSum", "complete", "dead"}
  /\ info \in Manifest
  /\ rfile \in 1..(NumFiles + 1)
  /\ seen \in SUBSET Chunks
  /\ rstream \in Frames
  /\ buf \in Frames
  /\ epoch \in 0..MaxConns

DiskTyped ==
  /\ writers \in [Epochs -> Writer]
  /\ partial \in [Files -> Content \cup {NoFile}]
  /\ final \in [Files -> Content \cup {NoFile}]

EnvTyped == faults \in Nat /\ edits \in Nat /\ launches \in Nat /\ restarts \in Nat

LEMMA TypeOKInParts ==
  /\ TypeOK <=> /\ SourceTyped /\ ControlTyped /\ StateTyped /\ FileTyped
                /\ NetTyped /\ ReceiverTyped /\ DiskTyped /\ EnvTyped
  /\ TypeOK' <=> /\ SourceTyped' /\ ControlTyped' /\ StateTyped' /\ FileTyped'
                 /\ NetTyped' /\ ReceiverTyped' /\ DiskTyped' /\ EnvTyped'
BY DEF TypeOK, SourceTyped, ControlTyped, StateTyped, FileTyped, NetTyped,
       ReceiverTyped, DiskTyped, EnvTyped, Channel, Frames, Streams, Hashed

LEMMA UntouchedParts ==
  /\ SourceTyped /\ UNCHANGED src => SourceTyped'
  /\ ControlTyped /\ UNCHANGED <<spc, attempt, err, resuming>> => ControlTyped'
  /\ StateTyped /\ UNCHANGED <<st, saved>> => StateTyped'
  /\ FileTyped /\ UNCHANGED <<fileVars, verified>> => FileTyped'
  /\ NetTyped /\ UNCHANGED netVars => NetTyped'
  /\ ReceiverTyped /\ UNCHANGED recvVars => ReceiverTyped'
  /\ DiskTyped /\ UNCHANGED diskVars => DiskTyped'
  /\ EnvTyped /\ UNCHANGED envVars => EnvTyped'
BY DEF SourceTyped, ControlTyped, StateTyped, FileTyped, NetTyped, ReceiverTyped,
       DiskTyped, EnvTyped, fileVars, netVars, recvVars, diskVars, envVars

LEMMA InitInvariant == Init => IInv
<1> SUFFICES ASSUME Init PROVE IInv
  OBVIOUS
<1>1. src \in [Files -> Source] /\ NoManifest \in Manifest /\ NoStateFile \in StateFile
  BY FreshStateTyped, ManifestTyped DEF Init, NoManifest, NoStateFile, StateFile
<1>2. NoWriter \in Writer
  BY DEF NoWriter, Writer, Lens, Content
<1>3. TypeOK
  <2>1. SourceTyped /\ ControlTyped
    BY <1>1 DEF Init, SourceTyped, ControlTyped, Stopped
  <2>2. StateTyped /\ NetTyped /\ EnvTyped
    BY <1>1, FreshStateTyped, QueuesTyped DEF Init, StateTyped, NetTyped, EnvTyped
  <2>3. FileTyped
    BY QueuesTyped DEF Init, FileTyped, Files, Lens
  <2>4. ReceiverTyped
    BY <1>1, QueuesTyped DEF Init, ReceiverTyped
  <2>5. DiskTyped
    BY <1>2 DEF Init, DiskTyped
  <2> QED
    BY <2>1, <2>2, <2>3, <2>4, <2>5, TypeOKInParts
<1>4. ReceiverIsSomewhere
  BY DEF Init, ReceiverIsSomewhere
<1>5. \A e \in Epochs : WriterHoldsItsFile(e)
  BY DEF Init, WriterHoldsItsFile, NoWriter
<1> QED
  BY <1>3, <1>4, <1>5 DEF IInv

LEMMA SenderStepTyped ==
  ASSUME TypeOK, SenderStep, ~Reconnect
  PROVE  TypeOK'
<1>0. /\ SourceTyped /\ ControlTyped /\ StateTyped /\ FileTyped
      /\ NetTyped /\ ReceiverTyped /\ DiskTyped /\ EnvTyped
  BY TypeOKInParts
<1>1. CASE SendInfo
  <2>1. st' \in State
    <3>1. [f \in Files |-> src[f].len] \in [Files -> Lens]
      BY <1>0 DEF SourceTyped, Source
    <3>2. 1 \in Files
      BY DEF Files
    <3> QED
      BY <1>0, <1>1, <3>1, <3>2, StateUpdatesTyped DEF SendInfo, StateTyped
  <2>2. Info(ManifestOf(st')) \in Message
    BY <2>1, ManifestTyped, MessagesTyped
  <2>3. ControlTyped'
    BY <1>0, <1>1 DEF SendInfo, Raise, ControlTyped
  <2>4. StateTyped'
    BY <1>0, <1>1, <2>1 DEF SendInfo, StateTyped
  <2>5. NetTyped'
    BY <1>0, <1>1, <2>2, QueuesTyped DEF SendInfo, NetTyped
  <2> QED
    BY <1>0, <1>1, <2>3, <2>4, <2>5, UntouchedParts, TypeOKInParts DEF SendInfo
<1>2. CASE RecvReady
  <2>1. ControlTyped'
    BY <1>0, <1>2 DEF RecvReady, Raise, ControlTyped
  <2>2. NetTyped'
    BY <1>0, <1>2, QueuesTyped DEF RecvReady, NetTyped
  <2>3. StateTyped'
    BY <1>0, <1>2 DEF RecvReady, StateTyped
  <2> QED
    BY <1>0, <1>2, <2>1, <2>2, <2>3, UntouchedParts, TypeOKInParts DEF RecvReady
<1>3. CASE OpenFile
  <2>1. cur' \in Files /\ slen' \in Lens
    BY <1>0, <1>3, NextFileIsPending DEF OpenFile, SourceTyped, Source, StateTyped
  <2>2. ControlTyped'
    BY <1>0, <1>3 DEF OpenFile, ControlTyped, stateVars
  <2>3. FileTyped'
    BY <1>0, <1>3, <2>1, QueuesTyped DEF OpenFile, FileTyped, Lens
  <2> QED
    BY <1>0, <1>3, <2>2, <2>3, UntouchedParts, TypeOKInParts DEF OpenFile, stateVars
<1>4. CASE SendComplete
  <2>1. ControlTyped'
    BY <1>0, <1>4 DEF SendComplete, ControlTyped, Raise, Stopped
  <2>2. StateTyped'
    BY <1>0, <1>4, FreshStateTyped DEF SendComplete, StateTyped, NoStateFile, StateFile
  <2>3. NetTyped'
    BY <1>0, <1>4, MessagesTyped, QueuesTyped DEF SendComplete, NetTyped
  <2> QED
    BY <1>0, <1>4, <2>1, <2>2, <2>3, UntouchedParts, TypeOKInParts DEF SendComplete
<1>5. CASE ReadChunk
  <2>1. src[cur].ver \in Versions
    BY <1>0 DEF SourceTyped, FileTyped, Source
  <2>2. <<pos, src[cur].ver>> \in Frame
    BY <1>0, <1>5, <2>1 DEF ReadChunk, FileTyped, Frame, Chunks, Lens
  <2>3. ControlTyped'
    BY <1>0, <1>5 DEF ReadChunk, ControlTyped, Raise
  <2>4. FileTyped'
    <3>1. pos' \in 1..(MaxLen + 1)
      BY <1>0, <1>5 DEF ReadChunk, FileTyped, Lens
    <3>2. sum' \in Hashed /\ batch' \in Frames
      BY <1>0, <1>5, <2>1, <2>2, QueuesTyped DEF ReadChunk, FileTyped
    <3> QED
      BY <1>0, <1>5, <3>1, <3>2 DEF ReadChunk, FileTyped
  <2> QED
    BY <1>0, <1>5, <2>3, <2>4, UntouchedParts, TypeOKInParts DEF ReadChunk
<1>6. CASE FlushBatch
  <2>1. ControlTyped'
    BY <1>0, <1>6 DEF FlushBatch, ControlTyped, Raise
  <2>2. NetTyped'
    BY <1>0, <1>6, QueuesTyped DEF FlushBatch, NetTyped, FileTyped
  <2> QED
    BY <1>0, <1>6, <2>1, <2>2, UntouchedParts, TypeOKInParts DEF FlushBatch
<1>7. CASE BatchAcked
  <2>1. {batch[k][1] : k \in 1..Len(batch)} \in SUBSET Chunks
    <3>1. \A k \in 1..Len(batch) : batch[k] \in Chunks \X Versions
      BY <1>0, ElementOfSeq DEF FileTyped, Frames, Frame
    <3> QED
      BY <3>1
  <2>2. [st EXCEPT !.chunks[cur] = @ \cup {batch[k][1] : k \in 1..Len(batch)}] \in State
    BY <1>0, <2>1, StateUpdatesTyped DEF StateTyped, FileTyped
  <2>3. ControlTyped'
    BY <1>0, <1>7 DEF BatchAcked, ControlTyped, Raise
  <2>4. StateTyped'
    BY <1>0, <1>7, <2>2 DEF BatchAcked, StateTyped
  <2>5. FileTyped'
    BY <1>0, <1>7, QueuesTyped DEF BatchAcked, FileTyped
  <2> QED
    BY <1>0, <1>7, <2>3, <2>4, <2>5, UntouchedParts, TypeOKInParts DEF BatchAcked
<1>8. CASE SendChecksum
  <2>1. Checksum(cur, sum) \in Message
    BY <1>0, SeqMonotonic, MessagesTyped DEF FileTyped, Hashed, Content
  <2>2. ControlTyped'
    BY <1>0, <1>8 DEF SendChecksum, ControlTyped, Raise
  <2>3. NetTyped'
    BY <1>0, <1>8, <2>1, QueuesTyped DEF SendChecksum, NetTyped
  <2> QED
    BY <1>0, <1>8, <2>2, <2>3, UntouchedParts, TypeOKInParts DEF SendChecksum
<1>9. CASE RecvChecksum
  <2>1. ControlTyped'
    BY <1>0, <1>9 DEF RecvChecksum, ControlTyped, Raise
  <2>2. StateTyped'
    BY <1>0, <1>9, StateUpdatesTyped DEF RecvChecksum, StateTyped, FileTyped
  <2>3. FileTyped'
    BY <1>0, <1>9 DEF RecvChecksum, FileTyped, fileVars
  <2>4. NetTyped'
    BY <1>0, <1>9, QueuesTyped DEF RecvChecksum, NetTyped
  <2> QED
    BY <1>0, <1>9, <2>1, <2>2, <2>3, <2>4, UntouchedParts, TypeOKInParts DEF RecvChecksum
<1>10. CASE HandleError
  <2>1. ClearBitmaps(st) \in State /\ [kind |-> "torn", st |-> FreshState] \in StateFile
    BY <1>0, FreshStateTyped, StateUpdatesTyped DEF StateTyped, FileTyped, StateFile
  <2>2. ControlTyped'
    BY <1>0, <1>10 DEF HandleError, ControlTyped, AfterError, Stopped
  <2>3. StateTyped'
    BY <1>0, <1>10, <2>1 DEF HandleError, StateTyped
  <2> QED
    BY <1>0, <1>10, <2>2, <2>3, UntouchedParts, TypeOKInParts DEF HandleError
<1>11. CASE StateWritten
  <2>1. ControlTyped'
    BY <1>0, <1>11 DEF StateWritten, ControlTyped, AfterError, Stopped
  <2>2. StateTyped'
    BY <1>0, <1>11 DEF StateWritten, StateTyped, StateFile
  <2> QED
    BY <1>0, <1>11, <2>1, <2>2, UntouchedParts, TypeOKInParts DEF StateWritten
<1>12. CASE ReconnectFails
  <2>1. ControlTyped'
    BY <1>0, <1>12 DEF ReconnectFails, ControlTyped
  <2> QED
    BY <1>0, <1>12, <2>1, UntouchedParts, TypeOKInParts DEF ReconnectFails
<1>13. CASE SenderExits
  <2>1. NetTyped'
    BY <1>0, <1>13, CutTyped, CutStreamsTyped, QueuesTyped DEF SenderExits, NetTyped, SenderCloses
  <2> QED
    BY <1>0, <1>13, <2>1, UntouchedParts, TypeOKInParts DEF SenderExits, stateVars
<1> QED
  BY <1>1, <1>2, <1>3, <1>4, <1>5, <1>6, <1>7, <1>8, <1>9, <1>10, <1>11, <1>12, <1>13 DEF SenderStep

-----------------------------------------------------------------------------
(* What a step leaves of the other two conjuncts.                           *)

LEMMA WriterFields ==
  ASSUME NEW w \in Writer
  PROVE  /\ w.file \in 0..NumFiles /\ w.size \in Lens
         /\ w.target \in {"partial", "final", "gone"}
         /\ w.open \in BOOLEAN /\ w.fin \in BOOLEAN
         /\ w.todo \in Frames /\ w.queue \in Streams
         /\ w.hashed \in Hashed /\ w.ordered \in BOOLEAN
         /\ w.finished \in BOOLEAN /\ w.hash \in Content
BY DEF Writer, Frames, Streams, Hashed

LEMMA NoWriterTyped ==
  /\ NoWriter \in Writer
  /\ NoWriter.target = "gone" /\ ~NoWriter.fin
BY DEF NoWriter, Writer, Lens, Content

(* A step that touches neither the receiver nor its disk.                   *)
LEMMA ReceiverUntouched ==
  ASSUME IInv, UNCHANGED <<rpc, rfile, epoch, diskVars>>
  PROVE  ReceiverIsSomewhere' /\ \A e \in Epochs : WriterHoldsItsFile(e)'
BY DEF IInv, ReceiverIsSomewhere, WriterHoldsItsFile, diskVars

(* A new connection finds no writer about to finalize.                      *)
LEMMA ConnectKeeps ==
  ASSUME IInv, Connect, UNCHANGED diskVars
  PROVE  /\ NetTyped' /\ ReceiverTyped'
         /\ ReceiverIsSomewhere' /\ \A e \in Epochs : WriterHoldsItsFile(e)'
<1>1. NetTyped /\ ReceiverTyped
  BY TypeOKInParts DEF IInv
<1>2. NetTyped'
  BY QueuesTyped DEF Connect, NetTyped
<1>3. ReceiverTyped'
  BY <1>1 DEF Connect, ReceiverTyped
<1>4. ReceiverIsSomewhere'
  BY <1>1 DEF Connect, ReceiverTyped, ReceiverIsSomewhere, Epochs
<1>5. \A e \in Epochs : WriterHoldsItsFile(e)'
  BY DEF Connect, IInv, WriterHoldsItsFile, diskVars
<1> QED
  BY <1>2, <1>3, <1>4, <1>5

(* The end of the receiver takes its writers with it, whatever their disk   *)
(* did.                                                                     *)
LEMMA ExitKeeps ==
  ASSUME IInv, Exit,
         partial' \in [Files -> Content \cup {NoFile}], final' \in [Files -> Content \cup {NoFile}]
  PROVE  /\ NetTyped' /\ ReceiverTyped' /\ DiskTyped'
         /\ ReceiverIsSomewhere' /\ \A e \in Epochs : WriterHoldsItsFile(e)'
<1>1. NetTyped /\ ReceiverTyped /\ DiskTyped
  BY TypeOKInParts DEF IInv
<1>2. NetTyped'
  BY <1>1, QueuesTyped, CutTyped DEF Exit, NetTyped
<1>3. ReceiverTyped'
  BY <1>1 DEF Exit, ReceiverTyped
<1>4. DiskTyped'
  BY <1>1, NoWriterTyped DEF Exit, DiskTyped
<1>5. ReceiverIsSomewhere'
  BY DEF Exit, ReceiverIsSomewhere
<1>6. \A e \in Epochs : WriterHoldsItsFile(e)'
  BY NoWriterTyped DEF Exit, WriterHoldsItsFile
<1> QED
  BY <1>2, <1>3, <1>4, <1>5, <1>6

LEMMA FatalKeeps ==
  ASSUME IInv, Fatal
  PROVE  /\ NetTyped' /\ ReceiverTyped' /\ DiskTyped'
         /\ ReceiverIsSomewhere' /\ \A e \in Epochs : WriterHoldsItsFile(e)'
<1>1. DiskTyped
  BY TypeOKInParts DEF IInv
<1> QED
  BY <1>1, ExitKeeps DEF Fatal, DiskTyped

(* A lost connection leaves no writer that was told to finalize.            *)
LEMMA DisconnectKeeps ==
  ASSUME IInv, PeerDisconnected, rpc \in {"recv", "info", "awaitSum", "complete"}
  PROVE  /\ NetTyped' /\ ReceiverTyped' /\ DiskTyped'
         /\ ReceiverIsSomewhere' /\ \A e \in Epochs : WriterHoldsItsFile(e)'
<1>1. NetTyped /\ ReceiverTyped /\ DiskTyped
  BY TypeOKInParts DEF IInv
<1>2. NetTyped'
  BY <1>1, UntouchedParts DEF PeerDisconnected
<1>3. ReceiverTyped'
  BY <1>1 DEF PeerDisconnected, ReceiverTyped
<1>4. epoch \in Epochs /\ writers[epoch] \in Writer
  BY <1>1 DEF IInv, ReceiverIsSomewhere, DiskTyped
<1>5. [writers[epoch] EXCEPT !.open = FALSE] \in Writer
  BY <1>4 DEF Writer
<1>6. DiskTyped'
  BY <1>1, <1>4, <1>5, NoWriterTyped DEF PeerDisconnected, DiskTyped
<1>7. ReceiverIsSomewhere'
  BY DEF PeerDisconnected, ReceiverIsSomewhere
<1>8. ASSUME NEW e \in Epochs PROVE WriterHoldsItsFile(e)'
  <2>1. WriterHoldsItsFile(e)
    BY DEF IInv
  <2>2. CASE e # epoch
    BY <1>1, <2>1, <2>2 DEF PeerDisconnected, DiskTyped, WriterHoldsItsFile
  <2>3. CASE e = epoch /\ rpc = "recv"
    <3>1. /\ writers'[e].target = writers[e].target /\ writers'[e].file = writers[e].file
          /\ writers'[e].fin = writers[e].fin /\ writers'[e].finished = writers[e].finished
      BY <1>1, <1>4, <2>3 DEF PeerDisconnected, DiskTyped, Writer
    <3> QED
      BY <2>1, <2>3, <3>1 DEF PeerDisconnected, WriterHoldsItsFile
  <2>4. CASE e = epoch /\ rpc # "recv"
    BY <1>1, <2>4, NoWriterTyped DEF PeerDisconnected, DiskTyped, WriterHoldsItsFile
  <2> QED
    BY <2>2, <2>3, <2>4
<1> QED
  BY <1>2, <1>3, <1>6, <1>7, <1>8

-----------------------------------------------------------------------------
(* The steps of the writers.                                                *)

LEMMA WriterStepKeeps ==
  ASSUME IInv, NEW e \in Epochs, WriterStep(e)
  PROVE  IInv'
<1> DEFINE w == writers[e]
<1>1. /\ SourceTyped /\ ControlTyped /\ StateTyped /\ FileTyped
      /\ NetTyped /\ ReceiverTyped /\ DiskTyped /\ EnvTyped
      /\ ReceiverIsSomewhere /\ \A x \in Epochs : WriterHoldsItsFile(x)
  BY TypeOKInParts DEF IInv
<1>2. /\ w \in Writer
      /\ w.todo \in Frames /\ w.queue \in Streams /\ w.hashed \in Hashed
      /\ w.file \in 0..NumFiles /\ w.hash \in Content
  BY <1>1, WriterFields DEF DiskTyped
<1>3. UNCHANGED <<src, spc, stateVars, fileVars, verified, netVars, recvVars, envVars>>
  BY DEF WriterStep, WriterRecv, WriterWrite, WriterFinalize, WriterAbandons
<1>4. /\ SourceTyped' /\ ControlTyped' /\ StateTyped' /\ FileTyped'
      /\ NetTyped' /\ ReceiverTyped' /\ EnvTyped' /\ ReceiverIsSomewhere'
  BY <1>1, <1>3, UntouchedParts DEF stateVars, recvVars, ReceiverIsSomewhere
<1>5. SUFFICES DiskTyped' /\ \A x \in Epochs : WriterHoldsItsFile(x)'
  BY <1>4, TypeOKInParts DEF IInv
<1>6. CASE WriterRecv(e)
  <2>1. /\ writers' = [writers EXCEPT ![e] = [w EXCEPT !.todo = Head(w.queue), !.queue = Tail(w.queue)]]
        /\ Head(w.queue) \in Frames /\ Tail(w.queue) \in Streams
        /\ UNCHANGED <<partial, final>>
    BY <1>1, <1>2, <1>6, QueuesTyped DEF WriterRecv, DiskTyped
  <2>2. [w EXCEPT !.todo = Head(w.queue), !.queue = Tail(w.queue)] \in Writer
    BY <1>2, <2>1 DEF Writer, Frames, Streams
  <2>3. DiskTyped'
    BY <1>1, <2>1, <2>2 DEF DiskTyped
  <2>4. \A x \in Epochs : /\ writers'[x].target = writers[x].target
                           /\ writers'[x].file = writers[x].file
                           /\ writers'[x].fin = writers[x].fin
                           /\ writers'[x].finished = writers[x].finished
                           /\ writers'[x].open = writers[x].open
    BY <1>1, <1>2, <2>1 DEF DiskTyped, Writer
  <2> QED
    BY <1>1, <1>3, <2>1, <2>3, <2>4 DEF WriterHoldsItsFile, recvVars
<1>7. CASE WriterWrite(e)
  <2> DEFINE i == Head(w.todo)[1]
             v == Head(w.todo)[2]
             next == Len(w.hashed) + 1
             hashedAfter == IF w.ordered /\ i = next THEN Append(w.hashed, v) ELSE w.hashed
             written == [w EXCEPT !.todo = Tail(w.todo), !.hashed = hashedAfter,
                                  !.ordered = w.ordered /\ i <= next]
  <2>1. /\ i \in Chunks /\ v \in Versions /\ Tail(w.todo) \in Frames
        /\ hashedAfter \in Hashed
    BY <1>2, <1>7, QueuesTyped DEF WriterWrite, Frame
  <2>2. /\ writers' = [writers EXCEPT ![e] = written]
        /\ partial' = IF w.target = "partial" THEN [partial EXCEPT ![w.file] = WriteAt(@, i, v)] ELSE partial
        /\ final' = IF w.target = "final" THEN [final EXCEPT ![w.file] = WriteAt(@, i, v)] ELSE final
    BY <1>7 DEF WriterWrite
  <2>3. /\ written \in Writer
        /\ written.target = w.target /\ written.file = w.file
        /\ written.fin = w.fin /\ written.finished = w.finished /\ written.open = w.open
    BY <1>2, <2>1 DEF Writer, Frames, Hashed
  <2>4. WriterHoldsItsFile(e)
    BY <1>1
  <2>5. /\ partial' \in [Files -> Content \cup {NoFile}]
        /\ \A f \in Files : partial[f] # NoFile => partial'[f] # NoFile
    <3>1. CASE w.target = "partial"
      <4>1. w.file \in Files /\ partial[w.file] \in Content
        BY <1>1, <2>4, <3>1 DEF WriterHoldsItsFile, DiskTyped
      <4>2. WriteAt(partial[w.file], i, v) \in Content
        BY <2>1, <4>1, WriteAtTyped
      <4> QED
        BY <1>1, <2>2, <3>1, <4>1, <4>2, NoFileIsNoContent DEF DiskTyped
    <3>2. CASE w.target # "partial"
      BY <1>1, <2>2, <3>2 DEF DiskTyped
    <3> QED
      BY <3>1, <3>2
  <2>6. /\ final' \in [Files -> Content \cup {NoFile}]
        /\ \A f \in Files : final[f] # NoFile => final'[f] # NoFile
    <3>1. CASE w.target = "final"
      <4>1. w.file \in Files /\ final[w.file] \in Content
        BY <1>1, <2>4, <3>1 DEF WriterHoldsItsFile, DiskTyped
      <4>2. WriteAt(final[w.file], i, v) \in Content
        BY <2>1, <4>1, WriteAtTyped
      <4> QED
        BY <1>1, <2>2, <3>1, <4>1, <4>2, NoFileIsNoContent DEF DiskTyped
    <3>2. CASE w.target # "final"
      BY <1>1, <2>2, <3>2 DEF DiskTyped
    <3> QED
      BY <3>1, <3>2
  <2> HIDE DEF written
  <2>7. writers' \in [Epochs -> Writer]
    BY <1>1, <2>2, <2>3 DEF DiskTyped
  <2>8. \A x \in Epochs : /\ writers'[x].target = writers[x].target
                           /\ writers'[x].file = writers[x].file
                           /\ writers'[x].fin = writers[x].fin
                           /\ writers'[x].finished = writers[x].finished
                           /\ writers'[x].open = writers[x].open
    BY <1>1, <2>2, <2>3 DEF DiskTyped
  <2>9. ASSUME NEW x \in Epochs PROVE WriterHoldsItsFile(x)'
    <3>1. WriterHoldsItsFile(x) /\ rpc' = rpc /\ epoch' = epoch
      BY <1>1, <1>3 DEF recvVars
    <3>2. /\ writers'[x].target = writers[x].target /\ writers'[x].file = writers[x].file
          /\ writers'[x].fin = writers[x].fin /\ writers'[x].finished = writers[x].finished
          /\ writers'[x].open = writers[x].open
      BY <2>8
    <3>3. \A f \in Files : /\ partial[f] # NoFile => partial'[f] # NoFile
                           /\ final[f] # NoFile => final'[f] # NoFile
      BY <2>5, <2>6
    <3> QED
      BY <3>1, <3>2, <3>3 DEF WriterHoldsItsFile
  <2> QED
    BY <2>5, <2>6, <2>7, <2>9 DEF DiskTyped
<1>8. CASE WriterAbandons(e)
  <2>1. writers' = [writers EXCEPT ![e] = NoWriter] /\ UNCHANGED <<partial, final>>
    BY <1>8 DEF WriterAbandons
  <2>2. DiskTyped'
    BY <1>1, <2>1, NoWriterTyped DEF DiskTyped
  <2>3. ASSUME NEW x \in Epochs PROVE WriterHoldsItsFile(x)'
    <3>1. WriterHoldsItsFile(x) /\ rpc' = rpc /\ epoch' = epoch
      BY <1>1, <1>3 DEF recvVars
    <3>2. CASE x = e
      <4>1. ~(e = epoch /\ rpc = "recv")
        BY <1>1, <1>8 DEF WriterAbandons, WriterHoldsItsFile
      <4> QED
        BY <1>1, <2>1, <3>1, <3>2, <4>1, NoWriterTyped DEF WriterHoldsItsFile, DiskTyped
    <3>3. CASE x # e
      BY <1>1, <2>1, <3>1, <3>3 DEF WriterHoldsItsFile, DiskTyped
    <3> QED
      BY <3>2, <3>3
  <2> QED
    BY <2>2, <2>3
<1>9. CASE WriterFinalize(e)
  <2>1. /\ w.target = "partial" /\ w.fin /\ e = epoch /\ ~w.finished
        /\ w.file \in Files /\ partial[w.file] \in Content
    BY <1>1, <1>9 DEF WriterFinalize, WriterHoldsItsFile, DiskTyped
  <2> DEFINE hash == IF w.ordered /\ Len(w.hashed) = w.size THEN w.hashed ELSE partial[w.file]
             done == [w EXCEPT !.target = "final", !.finished = TRUE, !.hash = hash]
  <2>2. hash \in Content
    BY <1>2, <2>1, SeqMonotonic DEF Hashed, Content
  <2>3. Renamed(w, w.file) = [w EXCEPT !.target = "final"]
    BY <1>2, <2>1 DEF Renamed, Writer
  <2>4. /\ [Renamed(w, w.file) EXCEPT !.finished = TRUE, !.hash = hash] \in Writer
        /\ [Renamed(w, w.file) EXCEPT !.finished = TRUE, !.hash = hash].target = "final"
        /\ [Renamed(w, w.file) EXCEPT !.finished = TRUE, !.hash = hash].file = w.file
        /\ [Renamed(w, w.file) EXCEPT !.finished = TRUE, !.hash = hash].fin = w.fin
        /\ [Renamed(w, w.file) EXCEPT !.finished = TRUE, !.hash = hash].open = w.open
        /\ [Renamed(w, w.file) EXCEPT !.finished = TRUE, !.hash = hash].finished
    BY <1>2, <2>2, <2>3 DEF Writer
  <2>5. ASSUME NEW x \in Epochs, x # e
        PROVE  /\ Renamed(writers[x], w.file) \in Writer
               /\ Renamed(writers[x], w.file).file = writers[x].file
               /\ Renamed(writers[x], w.file).fin = writers[x].fin
               /\ Renamed(writers[x], w.file).finished = writers[x].finished
               /\ Renamed(writers[x], w.file).open = writers[x].open
               /\ Renamed(writers[x], w.file).target =
                    IF writers[x].file # w.file THEN writers[x].target
                    ELSE IF writers[x].target = "partial" THEN "final" ELSE "gone"
    <3>1. writers[x] \in Writer
      BY <1>1 DEF DiskTyped
    <3> QED
      BY <3>1 DEF Renamed, Writer
  <2>6. /\ writers'[e] = [Renamed(w, w.file) EXCEPT !.finished = TRUE, !.hash = hash]
        /\ \A x \in Epochs : x # e => writers'[x] = Renamed(writers[x], w.file)
        /\ writers' = [x \in Epochs |-> writers'[x]]
    BY <1>9 DEF WriterFinalize
  <2>7. writers' \in [Epochs -> Writer]
    BY <2>4, <2>5, <2>6
  <2>8. /\ final' = [final EXCEPT ![w.file] = partial[w.file]]
        /\ partial' = [partial EXCEPT ![w.file] = NoFile]
    BY <1>9 DEF WriterFinalize
  <2>9. DiskTyped'
    BY <1>1, <2>1, <2>7, <2>8 DEF DiskTyped
  <2>10. WriterHoldsItsFile(e)'
    <3>1. final'[w.file] # NoFile
      BY <1>1, <2>1, <2>8, NoFileIsNoContent DEF DiskTyped
    <3>2. e = epoch' /\ rpc' = rpc /\ rpc \in {"finalizing", "awaitSum"} /\ w.open
      BY <1>1, <1>3, <2>1 DEF WriterHoldsItsFile, recvVars
    <3> QED
      BY <2>1, <2>4, <2>6, <3>1, <3>2 DEF WriterHoldsItsFile
  <2>11. ASSUME NEW x \in Epochs, x # e PROVE WriterHoldsItsFile(x)'
    <3>1. ~writers[x].fin
      BY <1>1, <2>1, <2>11 DEF WriterHoldsItsFile
    <3>2. writers'[x] = Renamed(writers[x], w.file)
      BY <2>6, <2>11
    <3>3. \A f \in Files : final[f] # NoFile => final'[f] # NoFile
      BY <1>1, <2>1, <2>8, NoFileIsNoContent DEF DiskTyped
    <3>4. \A f \in Files \ {w.file} : partial'[f] = partial[f]
      BY <1>1, <2>8 DEF DiskTyped
    <3>5. final'[w.file] # NoFile
      BY <1>1, <2>1, <2>8, NoFileIsNoContent DEF DiskTyped
    <3>6. WriterHoldsItsFile(x) /\ x # epoch'
      BY <1>1, <1>3, <2>1, <2>11 DEF recvVars
    <3> HIDE DEF w
    <3> QED
      BY <2>1, <2>5, <2>11, <3>1, <3>2, <3>3, <3>4, <3>5, <3>6 DEF WriterHoldsItsFile
  <2> QED
    BY <2>9, <2>10, <2>11
<1> QED
  BY <1>6, <1>7, <1>8, <1>9 DEF WriterStep

-----------------------------------------------------------------------------
(* The steps of the receiver.                                               *)

LEMMA HandToWriterKeeps ==
  ASSUME IInv, epoch \in Epochs, NEW frames \in Frames, HandToWriter(frames),
         UNCHANGED <<rpc, rfile, epoch, partial, final>>
  PROVE  DiskTyped' /\ ReceiverIsSomewhere' /\ \A e \in Epochs : WriterHoldsItsFile(e)'
<1> DEFINE w == writers[epoch]
<1>1. DiskTyped /\ ReceiverIsSomewhere /\ \A e \in Epochs : WriterHoldsItsFile(e)
  BY TypeOKInParts DEF IInv
<1>2. w \in Writer /\ w.queue \in Streams
  BY <1>1, WriterFields DEF DiskTyped
<1>3. Append(w.queue, frames) \in Streams
  BY <1>2, QueuesTyped
<1>4. [w EXCEPT !.queue = Append(w.queue, frames)] \in Writer
  BY <1>2, <1>3 DEF Writer, Frames, Streams
<1>5. writers' = [writers EXCEPT ![epoch] = [w EXCEPT !.queue = Append(w.queue, frames)]]
  BY <1>1 DEF HandToWriter, DiskTyped
<1>6. DiskTyped'
  BY <1>1, <1>4, <1>5 DEF DiskTyped
<1>7. \A x \in Epochs : /\ writers'[x].target = writers[x].target
                         /\ writers'[x].file = writers[x].file
                         /\ writers'[x].fin = writers[x].fin
                         /\ writers'[x].finished = writers[x].finished
                         /\ writers'[x].open = writers[x].open
  BY <1>1, <1>2, <1>5 DEF DiskTyped, Writer
<1>8. ReceiverIsSomewhere'
  BY <1>1 DEF ReceiverIsSomewhere
<1>9. ASSUME NEW e \in Epochs PROVE WriterHoldsItsFile(e)'
  BY <1>1, <1>7 DEF WriterHoldsItsFile
<1> QED
  BY <1>6, <1>8, <1>9

LEMMA ReceiverStepKeeps ==
  ASSUME IInv, ReceiverStep
  PROVE  IInv'
<1>1. /\ SourceTyped /\ ControlTyped /\ StateTyped /\ FileTyped
      /\ NetTyped /\ ReceiverTyped /\ DiskTyped /\ EnvTyped
      /\ ReceiverIsSomewhere /\ \A e \in Epochs : WriterHoldsItsFile(e)
  BY TypeOKInParts DEF IInv
<1>2. UNCHANGED receiverKeeps
  BY DEF ReceiverStep, RecvInfo, SkipFile, StartFile, LastFileDone, AcceptUni, RecvFrame,
         FlushRest, SendFinalize, SendHash, CompareHash, RecvComplete, RecvUnexpected,
         RecvDisconnected
<1>3. SourceTyped' /\ ControlTyped' /\ StateTyped' /\ FileTyped' /\ EnvTyped'
  BY <1>1, <1>2, UntouchedParts DEF receiverKeeps, stateVars
<1>4. SUFFICES /\ NetTyped' /\ ReceiverTyped' /\ DiskTyped'
               /\ ReceiverIsSomewhere' /\ \A e \in Epochs : WriterHoldsItsFile(e)'
  BY <1>3, TypeOKInParts DEF IInv
<1>5. CASE Fatal
  BY <1>5, FatalKeeps
<1>6. CASE RecvInfo /\ ~Fatal
  <2>1. PICK d \in Decisions :
          /\ up /\ toR # <<>> /\ Head(toR).type = "TransferInfo" /\ rpc = "info"
          /\ toR' = Tail(toR)
          /\ info' = IF d = "Accept" THEN Head(toR).info ELSE info
          /\ rfile' = IF d = "Accept" THEN 1 ELSE rfile
          /\ rpc' = IF d = "Accept" THEN "file" ELSE "info"
          /\ toS' = Append(toS, Plain(IF d = "Accept" THEN "Ready" ELSE "Cancel"))
          /\ UNCHANGED <<up, unis, seen, rstream, buf, epoch, diskVars>>
    BY <1>6 DEF RecvInfo
  <2>2. Head(toR) \in Message /\ Head(toR).info \in Manifest
    BY <1>1, <2>1, QueuesTyped, MessageFields DEF NetTyped
  <2>3. Plain(IF d = "Accept" THEN "Ready" ELSE "Cancel") \in Message
    BY MessagesTyped
  <2>4. NetTyped'
    BY <1>1, <2>1, <2>3, QueuesTyped DEF NetTyped
  <2>5. ReceiverTyped'
    BY <1>1, <2>1, <2>2 DEF ReceiverTyped
  <2>6. DiskTyped'
    BY <1>1, <2>1, UntouchedParts
  <2>7. ReceiverIsSomewhere'
    BY <1>1, <2>1 DEF ReceiverIsSomewhere
  <2>8. ASSUME NEW e \in Epochs PROVE WriterHoldsItsFile(e)'
    BY <1>1, <2>1 DEF WriterHoldsItsFile, diskVars
  <2> QED
    BY <2>4, <2>5, <2>6, <2>7, <2>8
<1>7. CASE SkipFile /\ ~Fatal
  <2>1. /\ rpc = "file" /\ rfile \in info.done /\ rfile' = rfile + 1
        /\ UNCHANGED <<rpc, info, seen, rstream, buf, epoch, netVars, diskVars>>
    BY <1>7 DEF SkipFile
  <2>2. rfile \in Files
    BY <1>1, <2>1 DEF ReceiverTyped, Manifest
  <2>3. ReceiverTyped'
    BY <1>1, <2>1, <2>2 DEF ReceiverTyped, Files
  <2>4. ReceiverIsSomewhere'
    BY <1>1, <2>1 DEF ReceiverIsSomewhere
  <2>5. ASSUME NEW e \in Epochs PROVE WriterHoldsItsFile(e)'
    BY <1>1, <2>1 DEF WriterHoldsItsFile, diskVars
  <2> QED
    BY <1>1, <2>1, <2>3, <2>4, <2>5, UntouchedParts
<1>8. CASE StartFile
  <2> DEFINE kept == IF partial[rfile] = NoFile THEN <<>> ELSE Truncate(partial[rfile], info.size[rfile])
             opened == [NoWriter EXCEPT !.file = rfile, !.size = info.size[rfile],
                                        !.target = "partial", !.open = TRUE, !.ordered = TRUE]
  <2>1. /\ rpc = "file" /\ rpc' = "recv" /\ rfile <= NumFiles
        /\ seen' = {} /\ rstream' = <<>> /\ buf' = <<>>
        /\ UNCHANGED <<info, rfile, epoch, netVars, final>>
        /\ writers' = [writers EXCEPT ![epoch] = opened]
        /\ partial' = [partial EXCEPT ![rfile] = kept]
    BY <1>1, <1>8 DEF StartFile, OpenWriter, DiskTyped
  <2>2. epoch \in Epochs /\ rfile \in Files /\ info.size[rfile] \in Lens
    BY <1>1, <2>1 DEF ReceiverIsSomewhere, ReceiverTyped, Files, Manifest
  <2>3. kept \in Content
    BY <1>1, <2>2, QueuesTyped, TruncateTyped DEF DiskTyped, Lens
  <2>4. /\ opened \in Writer /\ opened.target = "partial" /\ opened.file = rfile
        /\ ~opened.fin /\ opened.open
    <3>1. NoWriter.fin = FALSE
      BY DEF NoWriter
    <3>2. NoWriter \in Writer
      BY NoWriterTyped
    <3>3. rfile \in 0..NumFiles
      BY <2>2 DEF Files
    <3>4. \A w \in Writer : [w EXCEPT !.file = rfile, !.size = info.size[rfile],
                               !.target = "partial", !.open = TRUE, !.ordered = TRUE] \in Writer
      BY <2>2, <3>3 DEF Writer
    <3>5. \A w \in Writer :
            LET o == [w EXCEPT !.file = rfile, !.size = info.size[rfile],
                               !.target = "partial", !.open = TRUE, !.ordered = TRUE]
            IN o.target = "partial" /\ o.file = rfile /\ o.open /\ o.fin = w.fin
      BY <2>2, <3>3 DEF Writer
    <3> QED
      BY <3>1, <3>2, <3>4, <3>5
  <2> HIDE DEF kept, opened
  <2>5. DiskTyped'
    BY <1>1, <2>1, <2>2, <2>3, <2>4 DEF DiskTyped
  <2>6. ReceiverTyped'
    BY <1>1, <2>1, QueuesTyped DEF ReceiverTyped
  <2>7. ReceiverIsSomewhere'
    BY <2>1, <2>2 DEF ReceiverIsSomewhere
  <2>8. ASSUME NEW e \in Epochs PROVE WriterHoldsItsFile(e)'
    <3>1. \A f \in Files : partial[f] # NoFile => partial'[f] # NoFile
      BY <1>1, <2>1, <2>2, <2>3, NoFileIsNoContent DEF DiskTyped
    <3>2. partial'[rfile] # NoFile
      BY <1>1, <2>1, <2>2, <2>3, NoFileIsNoContent DEF DiskTyped
    <3>3. CASE e = epoch
      BY <1>1, <2>1, <2>2, <2>4, <3>2, <3>3 DEF WriterHoldsItsFile, DiskTyped
    <3>4. CASE e # epoch
      BY <1>1, <2>1, <2>2, <3>1, <3>4 DEF WriterHoldsItsFile, DiskTyped
    <3> QED
      BY <3>3, <3>4
  <2> QED
    BY <1>1, <2>1, <2>5, <2>6, <2>7, <2>8, UntouchedParts
<1>9. CASE LastFileDone
  <2>1. ReceiverTyped' /\ ReceiverIsSomewhere'
    BY <1>1, <1>9 DEF LastFileDone, ReceiverTyped, ReceiverIsSomewhere
  <2>2. ASSUME NEW e \in Epochs PROVE WriterHoldsItsFile(e)'
    BY <1>1, <1>9 DEF LastFileDone, WriterHoldsItsFile, diskVars
  <2> QED
    BY <1>1, <1>9, <2>1, <2>2, UntouchedParts DEF LastFileDone
<1>10. CASE AcceptUni
  <2>1. CASE PeerDisconnected
    BY <1>10, <2>1, DisconnectKeeps DEF AcceptUni
  <2>2. CASE /\ unis # <<>> /\ rstream' = Head(unis) /\ unis' = Tail(unis)
             /\ UNCHANGED <<up, toR, toS, rpc, info, rfile, seen, buf, epoch, diskVars>>
    <3>1. NetTyped'
      BY <1>1, <2>2, QueuesTyped DEF NetTyped
    <3>2. ReceiverTyped'
      BY <1>1, <2>2, QueuesTyped DEF ReceiverTyped, NetTyped
    <3> QED
      BY <1>1, <2>2, <3>1, <3>2, UntouchedParts, ReceiverUntouched
  <2> QED
    BY <1>10, <2>1, <2>2 DEF AcceptUni
<1>11. CASE RecvFrame /\ ~Fatal
  <2> DEFINE i == Head(rstream)[1]
             frames == Append(buf, Head(rstream))
  <2>1. /\ rpc = "recv" /\ rstream # <<>> /\ rstream' = Tail(rstream)
        /\ seen' = seen \cup {i}
        /\ \/ UNCHANGED <<buf, writers>>
           \/ buf' = frames /\ UNCHANGED writers
           \/ HandToWriter(frames) /\ buf' = <<>>
        /\ UNCHANGED <<rpc, info, rfile, epoch, netVars, partial, final>>
    BY <1>11 DEF RecvFrame
  <2>2. Head(rstream) \in Frame /\ i \in Chunks
    BY <1>1, <2>1, QueuesTyped DEF ReceiverTyped, Frame
  <2>3. frames \in Frames /\ epoch \in Epochs
    BY <1>1, <2>1, <2>2, QueuesTyped DEF ReceiverTyped, ReceiverIsSomewhere
  <2> HIDE DEF i, frames
  <2>4. ReceiverTyped'
    BY <1>1, <2>1, <2>2, <2>3, QueuesTyped DEF ReceiverTyped
  <2>5. DiskTyped' /\ ReceiverIsSomewhere' /\ \A e \in Epochs : WriterHoldsItsFile(e)'
    <3>1. CASE UNCHANGED writers
      BY <1>1, <2>1, <3>1, UntouchedParts, ReceiverUntouched DEF diskVars
    <3>2. CASE HandToWriter(frames)
      BY <2>1, <2>3, <3>2, HandToWriterKeeps
    <3> QED
      BY <2>1, <3>1, <3>2
  <2> QED
    BY <1>1, <2>1, <2>4, <2>5, UntouchedParts
<1>12. CASE FlushRest
  <2>1. buf \in Frames /\ epoch \in Epochs
    BY <1>1, <1>12 DEF FlushRest, AllReceived, ReceiverTyped, ReceiverIsSomewhere
  <2>2. DiskTyped' /\ ReceiverIsSomewhere' /\ \A e \in Epochs : WriterHoldsItsFile(e)'
    BY <1>12, <2>1, HandToWriterKeeps DEF FlushRest
  <2>3. ReceiverTyped'
    BY <1>1, <1>12, QueuesTyped DEF FlushRest, ReceiverTyped
  <2> QED
    BY <1>1, <1>12, <2>2, <2>3, UntouchedParts DEF FlushRest
<1>13. CASE SendFinalize
  <2> DEFINE told == [writers[epoch] EXCEPT !.fin = TRUE]
  <2>1. /\ rpc = "recv" /\ rpc' = "finalizing"
        /\ writers' = [writers EXCEPT ![epoch] = told]
        /\ UNCHANGED <<info, rfile, seen, rstream, buf, epoch, netVars, partial, final>>
    BY <1>1, <1>13 DEF SendFinalize, AllReceived, DiskTyped
  <2>2. epoch \in Epochs /\ writers[epoch] \in Writer
    BY <1>1, <2>1 DEF ReceiverIsSomewhere, DiskTyped
  <2>3. /\ told \in Writer /\ told.fin /\ told.open = writers[epoch].open
        /\ told.target = writers[epoch].target /\ told.file = writers[epoch].file
        /\ told.finished = writers[epoch].finished
    BY <2>2 DEF Writer
  <2> HIDE DEF told
  <2>4. DiskTyped'
    BY <1>1, <2>1, <2>3 DEF DiskTyped
  <2>5. ReceiverTyped' /\ ReceiverIsSomewhere'
    BY <1>1, <2>1 DEF ReceiverTyped, ReceiverIsSomewhere
  <2>6. ASSUME NEW e \in Epochs PROVE WriterHoldsItsFile(e)'
    BY <1>1, <2>1, <2>3 DEF WriterHoldsItsFile, DiskTyped
  <2> QED
    BY <1>1, <2>1, <2>4, <2>5, <2>6, UntouchedParts
<1>14. CASE SendHash /\ ~Fatal
  <2>1. /\ rpc = "finalizing" /\ rpc' = "awaitSum" /\ writers[epoch].finished
        /\ toS' = Append(toS, Checksum(rfile, writers[epoch].hash))
        /\ UNCHANGED <<up, toR, unis, info, rfile, seen, rstream, buf, epoch, diskVars>>
    BY <1>14 DEF SendHash
  <2>2. epoch \in Epochs /\ rfile \in Files /\ writers[epoch].hash \in Content
    BY <1>1, <2>1, WriterFields DEF ReceiverIsSomewhere, DiskTyped
  <2>3. Checksum(rfile, writers[epoch].hash) \in Message
    BY <2>2, MessagesTyped
  <2>4. NetTyped'
    BY <1>1, <2>1, <2>3, QueuesTyped DEF NetTyped
  <2>5. ReceiverTyped' /\ ReceiverIsSomewhere'
    BY <1>1, <2>1 DEF ReceiverTyped, ReceiverIsSomewhere
  <2>6. ASSUME NEW e \in Epochs PROVE WriterHoldsItsFile(e)'
    BY <1>1, <2>1 DEF WriterHoldsItsFile, diskVars
  <2> QED
    BY <1>1, <2>1, <2>4, <2>5, <2>6, UntouchedParts
<1>15. CASE CompareHash /\ ~Fatal
  <2>1. /\ rpc = "awaitSum" /\ rpc' = "file" /\ rfile' = rfile + 1
        /\ toR # <<>> /\ toR' = Tail(toR)
        /\ writers' = [writers EXCEPT ![epoch] = NoWriter]
        /\ UNCHANGED <<up, toS, unis, info, seen, rstream, buf, epoch, partial, final>>
    BY <1>15 DEF CompareHash
  <2>2. epoch \in Epochs /\ rfile \in Files
    BY <1>1, <2>1 DEF ReceiverIsSomewhere
  <2>3. NetTyped'
    BY <1>1, <2>1, QueuesTyped DEF NetTyped
  <2>4. ReceiverTyped'
    BY <1>1, <2>1, <2>2 DEF ReceiverTyped, Files
  <2>5. ReceiverIsSomewhere'
    BY <1>1, <2>1 DEF ReceiverIsSomewhere
  <2>6. DiskTyped'
    BY <1>1, <2>1, NoWriterTyped DEF DiskTyped
  <2>7. ASSUME NEW e \in Epochs PROVE WriterHoldsItsFile(e)'
    BY <1>1, <2>1, NoWriterTyped DEF WriterHoldsItsFile, DiskTyped
  <2> QED
    BY <2>3, <2>4, <2>5, <2>6, <2>7
<1>16. CASE RecvComplete
  <2>1. NetTyped'
    BY <1>1, <1>16, QueuesTyped DEF RecvComplete, NetTyped
  <2>2. ReceiverTyped' /\ ReceiverIsSomewhere'
    BY <1>1, <1>16 DEF RecvComplete, ReceiverTyped, ReceiverIsSomewhere
  <2>3. ASSUME NEW e \in Epochs PROVE WriterHoldsItsFile(e)'
    BY <1>1, <1>16 DEF RecvComplete, WriterHoldsItsFile, diskVars
  <2> QED
    BY <1>1, <1>16, <2>1, <2>2, <2>3, UntouchedParts DEF RecvComplete
<1>17. CASE RecvUnexpected
  BY <1>17, FatalKeeps DEF RecvUnexpected
<1>18. CASE RecvDisconnected
  BY <1>18, DisconnectKeeps DEF RecvDisconnected
<1> QED
  BY <1>5, <1>6, <1>7, <1>8, <1>9, <1>10, <1>11, <1>12, <1>13, <1>14, <1>15, <1>16, <1>17, <1>18
     DEF ReceiverStep

-----------------------------------------------------------------------------
(* The steps of the sender and of the environment.                          *)

LEMMA SenderStepKeeps ==
  ASSUME IInv, SenderStep
  PROVE  IInv'
<1>0. /\ SourceTyped /\ ControlTyped /\ StateTyped /\ FileTyped
      /\ NetTyped /\ ReceiverTyped /\ DiskTyped /\ EnvTyped
  BY TypeOKInParts DEF IInv
<1>1. CASE Reconnect
  <2>1. Connect /\ UNCHANGED <<src, st, saved, err, resuming, fileVars, verified, diskVars, envVars>>
    BY <1>1 DEF Reconnect
  <2>2. ControlTyped'
    BY <1>0, <1>1 DEF Reconnect, ControlTyped
  <2> QED
    BY <1>0, <2>1, <2>2, ConnectKeeps, UntouchedParts, TypeOKInParts DEF IInv
<1>2. CASE ~Reconnect
  <2>1. TypeOK'
    BY <1>2, SenderStepTyped DEF IInv
  <2>2. UNCHANGED <<rpc, rfile, epoch, diskVars>>
    BY <1>2 DEF SenderStep, SendInfo, RecvReady, OpenFile, SendComplete, ReadChunk, FlushBatch,
       BatchAcked, SendChecksum, RecvChecksum, HandleError, StateWritten, ReconnectFails,
       SenderExits, recvVars, diskVars
  <2> QED
    BY <2>1, <2>2, ReceiverUntouched DEF IInv
<1> QED
  BY <1>1, <1>2

(* What a failing disk leaves of a file is still a file, and one that is    *)
(* there stays there unless it is renamed.                                  *)
LEMMA LeavesFileTyped ==
  ASSUME IInv, NEW e \in Epochs, ~writers[e].finished, LeavesFile(writers[e])
  PROVE  /\ partial' \in [Files -> Content \cup {NoFile}]
         /\ final' \in [Files -> Content \cup {NoFile}]
         /\ ~writers[e].fin => \A f \in Files : /\ partial[f] # NoFile => partial'[f] # NoFile
                                                /\ final[f] # NoFile => final'[f] # NoFile
<1> DEFINE w == writers[e]
           i == Head(w.todo)[1]
           v == Head(w.todo)[2]
<1>1. DiskTyped /\ WriterHoldsItsFile(e) /\ w \in Writer /\ w.todo \in Frames
  BY TypeOKInParts, WriterFields DEF IInv, DiskTyped
<1>2. CASE UNCHANGED <<partial, final>>
  BY <1>1, <1>2 DEF DiskTyped
<1>3. CASE /\ w.todo # <<>>
           /\ partial' = IF w.target = "partial" THEN [partial EXCEPT ![w.file] = Torn(@, i, v)] ELSE partial
           /\ final' = IF w.target = "final" THEN [final EXCEPT ![w.file] = Torn(@, i, v)] ELSE final
  <2>1. i \in Chunks /\ v \in Versions
    BY <1>1, <1>3, QueuesTyped DEF Frame
  <2>2. CASE w.target = "partial"
    <3>1. w.file \in Files /\ partial[w.file] \in Content
      BY <1>1, <2>2 DEF WriterHoldsItsFile, DiskTyped
    <3>2. Torn(partial[w.file], i, v) \in Content
      BY <2>1, <3>1, TornTyped
    <3> QED
      BY <1>1, <1>3, <2>2, <3>1, <3>2, NoFileIsNoContent DEF DiskTyped
  <2>3. CASE w.target = "final"
    <3>1. w.file \in Files /\ final[w.file] \in Content
      BY <1>1, <2>3 DEF WriterHoldsItsFile, DiskTyped
    <3>2. Torn(final[w.file], i, v) \in Content
      BY <2>1, <3>1, TornTyped
    <3> QED
      BY <1>1, <1>3, <2>3, <3>1, <3>2, NoFileIsNoContent DEF DiskTyped
  <2>4. CASE w.target \notin {"partial", "final"}
    BY <1>1, <1>3, <2>4 DEF DiskTyped
  <2> QED
    BY <2>2, <2>3, <2>4
<1>4. CASE /\ w.fin
           /\ final' = [final EXCEPT ![w.file] = partial[w.file]]
           /\ partial' = [partial EXCEPT ![w.file] = NoFile]
  <2>1. w.file \in Files
    BY <1>1, <1>4 DEF WriterHoldsItsFile
  <2> QED
    BY <1>1, <1>4, <2>1 DEF DiskTyped
<1> QED
  BY <1>2, <1>3, <1>4 DEF LeavesFile

(* A writer whose disk fails ends, with the receiver or on its own.         *)
LEMMA DiskFailsKeeps ==
  ASSUME IInv, NEW e \in Epochs, DiskFails(e)
  PROVE  /\ NetTyped' /\ ReceiverTyped' /\ DiskTyped'
         /\ ReceiverIsSomewhere' /\ \A x \in Epochs : WriterHoldsItsFile(x)'
<1>1. /\ NetTyped /\ ReceiverTyped /\ DiskTyped
      /\ ReceiverIsSomewhere /\ \A x \in Epochs : WriterHoldsItsFile(x)
  BY TypeOKInParts DEF IInv
<1>2. /\ partial' \in [Files -> Content \cup {NoFile}]
      /\ final' \in [Files -> Content \cup {NoFile}]
      /\ ~writers[e].fin => \A f \in Files : /\ partial[f] # NoFile => partial'[f] # NoFile
                                             /\ final[f] # NoFile => final'[f] # NoFile
  BY LeavesFileTyped DEF DiskFails
<1>3. CASE Exit
  BY <1>2, <1>3, ExitKeeps
<1>4. CASE /\ ~writers[e].open
           /\ writers' = [writers EXCEPT ![e] = NoWriter]
           /\ UNCHANGED <<netVars, recvVars>>
  <2>1. NetTyped' /\ ReceiverTyped' /\ ReceiverIsSomewhere'
    BY <1>1, <1>4, UntouchedParts DEF ReceiverIsSomewhere, recvVars
  <2>2. DiskTyped'
    BY <1>1, <1>2, <1>4, NoWriterTyped DEF DiskTyped
  <2>3. ASSUME NEW x \in Epochs PROVE WriterHoldsItsFile(x)'
    <3>1. WriterHoldsItsFile(x) /\ WriterHoldsItsFile(e) /\ rpc' = rpc /\ epoch' = epoch
      BY <1>1, <1>4 DEF recvVars
    <3>2. \A f \in Files : /\ partial[f] # NoFile => partial'[f] # NoFile
                           /\ final[f] # NoFile => final'[f] # NoFile
      <4>1. ~writers[e].fin
        BY <1>4, <3>1 DEF WriterHoldsItsFile
      <4> QED
        BY <1>2, <4>1
    <3>3. CASE x = e
      <4>1. ~(e = epoch /\ rpc = "recv")
        BY <1>4, <3>1 DEF WriterHoldsItsFile
      <4> QED
        BY <1>1, <1>4, <3>1, <3>3, <4>1, NoWriterTyped DEF WriterHoldsItsFile, DiskTyped
    <3>4. CASE x # e
      BY <1>1, <1>4, <3>1, <3>2, <3>4 DEF WriterHoldsItsFile, DiskTyped
    <3> QED
      BY <3>3, <3>4
  <2> QED
    BY <2>1, <2>2, <2>3
<1> QED
  BY <1>3, <1>4 DEF DiskFails

LEMMA EnvironmentKeeps ==
  ASSUME IInv, Environment
  PROVE  IInv'
<1>0. /\ SourceTyped /\ ControlTyped /\ StateTyped /\ FileTyped
      /\ NetTyped /\ ReceiverTyped /\ DiskTyped /\ EnvTyped
      /\ ReceiverIsSomewhere /\ \A e \in Epochs : WriterHoldsItsFile(e)
  BY TypeOKInParts DEF IInv
<1>1. CASE LaunchSend
  <2>1. Connect /\ UNCHANGED <<src, err, resuming, fileVars, verified, diskVars, faults, edits, restarts>>
    BY <1>1 DEF LaunchSend
  <2>2. ControlTyped' /\ EnvTyped'
    BY <1>0, <1>1 DEF LaunchSend, ControlTyped, EnvTyped
  <2>3. StateTyped'
    BY <1>0, <1>1, FreshStateTyped DEF LaunchSend, StateTyped, StateFile, NoStateFile
  <2> QED
    BY <1>0, <2>1, <2>2, <2>3, ConnectKeeps, UntouchedParts, TypeOKInParts DEF IInv
<1>2. CASE LaunchResume
  <2>1. Connect /\ UNCHANGED <<src, saved, err, resuming, fileVars, verified, diskVars, faults, edits, restarts>>
    BY <1>2 DEF LaunchResume
  <2>2. ControlTyped' /\ EnvTyped'
    BY <1>0, <1>2 DEF LaunchResume, ControlTyped, EnvTyped
  <2>3. StateTyped'
    BY <1>0, <1>2 DEF LaunchResume, StateTyped, StateFile
  <2> QED
    BY <1>0, <2>1, <2>2, <2>3, ConnectKeeps, UntouchedParts, TypeOKInParts DEF IInv
<1>3. CASE Interrupt
  <2>1. ControlTyped'
    BY <1>0, <1>3 DEF Interrupt, ControlTyped, Stopped, stateVars
  <2>2. NetTyped'
    BY <1>0, <1>3, CutTyped, CutStreamsTyped, QueuesTyped DEF Interrupt, SenderCloses, NetTyped
  <2>3. UNCHANGED <<src, stateVars, fileVars, verified, recvVars, diskVars, envVars>>
    BY <1>3 DEF Interrupt
  <2> QED
    BY <1>0, <2>1, <2>2, <2>3, ReceiverUntouched, UntouchedParts, TypeOKInParts
       DEF IInv, stateVars, recvVars
<1>4. CASE EditSource
  <2>1. SourceTyped' /\ EnvTyped'
    BY <1>0, <1>4 DEF EditSource, SourceTyped, EnvTyped
  <2>2. UNCHANGED <<spc, stateVars, fileVars, verified, netVars, recvVars, diskVars>>
    BY <1>4 DEF EditSource
  <2> QED
    BY <1>0, <2>1, <2>2, ReceiverUntouched, UntouchedParts, TypeOKInParts
       DEF IInv, stateVars, recvVars
<1>5. CASE Drop
  <2>1. NetTyped'
    BY <1>0, <1>5, CutTyped, CutStreamsTyped DEF Drop, NetTyped
  <2>2. EnvTyped'
    BY <1>0, <1>5 DEF Drop, EnvTyped
  <2>3. UNCHANGED <<src, spc, stateVars, fileVars, verified, recvVars, diskVars>>
    BY <1>5 DEF Drop
  <2> QED
    BY <1>0, <2>1, <2>2, <2>3, ReceiverUntouched, UntouchedParts, TypeOKInParts
       DEF IInv, stateVars, recvVars
<1>6. CASE AcceptFails \/ ReceiverCrash
  <2>1. Fatal /\ UNCHANGED <<src, spc, stateVars, fileVars, verified>>
    BY <1>6 DEF AcceptFails, ReceiverCrash, receiverKeeps
  <2>2. EnvTyped'
    BY <1>0, <1>6 DEF AcceptFails, ReceiverCrash, receiverKeeps, EnvTyped, envVars
  <2> QED
    BY <1>0, <2>1, <2>2, FatalKeeps, UntouchedParts, TypeOKInParts DEF IInv, stateVars
<1>7. CASE RestartReceiver
  <2>1. /\ rpc = "dead" /\ rpc' = "accept"
        /\ UNCHANGED <<src, spc, stateVars, fileVars, verified, netVars, info, rfile, seen, rstream,
                       buf, epoch, diskVars>>
    BY <1>7 DEF RestartReceiver
  <2>2. ReceiverTyped' /\ ReceiverIsSomewhere'
    BY <1>0, <2>1 DEF ReceiverTyped, ReceiverIsSomewhere
  <2>3. EnvTyped'
    BY <1>0, <1>7 DEF RestartReceiver, EnvTyped
  <2>4. ASSUME NEW e \in Epochs PROVE WriterHoldsItsFile(e)'
    BY <1>0, <2>1 DEF WriterHoldsItsFile, diskVars
  <2> QED
    BY <1>0, <2>1, <2>2, <2>3, <2>4, UntouchedParts, TypeOKInParts DEF IInv, stateVars
<1>8. ASSUME NEW e \in Epochs, DiskFails(e) PROVE IInv'
  <2>1. UNCHANGED <<src, spc, stateVars, fileVars, verified>> /\ EnvTyped'
    BY <1>0, <1>8 DEF DiskFails, EnvTyped
  <2> QED
    BY <1>0, <1>8, <2>1, DiskFailsKeeps, UntouchedParts, TypeOKInParts DEF IInv, stateVars
<1> QED
  BY <1>1, <1>2, <1>3, <1>4, <1>5, <1>6, <1>7, <1>8 DEF Environment

-----------------------------------------------------------------------------
(* What the invariant is for.                                               *)

(* Every reachable state of the transfer satisfies the inductive invariant. *)
THEOREM Invariant == Spec => []IInv
<1>1. Init => IInv
  BY InitInvariant
<1>2. IInv /\ [Next]_vars => IInv'
  <2> SUFFICES ASSUME IInv, [Next]_vars PROVE IInv'
    OBVIOUS
  <2>1. CASE UNCHANGED vars
    <3>1. /\ UNCHANGED <<src, spc, stateVars, fileVars, verified, netVars, recvVars, diskVars, envVars>>
          /\ UNCHANGED <<spc, attempt, err, resuming>> /\ UNCHANGED <<st, saved>>
          /\ UNCHANGED <<rpc, rfile, epoch, diskVars>>
      BY <2>1 DEF vars, stateVars, recvVars
    <3> QED
      BY <3>1, UntouchedParts, ReceiverUntouched, TypeOKInParts DEF IInv
  <2>2. CASE SenderStep
    BY <2>2, SenderStepKeeps
  <2>3. CASE ReceiverStep
    BY <2>3, ReceiverStepKeeps
  <2>4. ASSUME NEW e \in Epochs, WriterStep(e) PROVE IInv'
    BY <2>4, WriterStepKeeps
  <2>5. CASE Environment
    BY <2>5, EnvironmentKeeps
  <2> QED
    BY <2>1, <2>2, <2>3, <2>4, <2>5 DEF Next, Finished
<1> QED
  BY <1>1, <1>2, PTL DEF Spec

(* No handler of either side leaves a variable out of its type: indices stay *)
(* within the file, a hash is taken of a content, queues hold what they are  *)
(* meant to hold, whatever is lost, repeated or stopped.                     *)
THEOREM TypeCorrect == Spec => []TypeOK
<1>1. IInv => TypeOK
  BY DEF IInv
<1> QED
  BY <1>1, Invariant, PTL

(* finalize renames a .partial that is there: among all the writers that     *)
(* lost connections leave behind, none takes it from the current one.        *)
THEOREM RenameCorrect == Spec => []RenameFindsThePartial
<1>1. IInv => RenameFindsThePartial
  BY DEF IInv, WriterHoldsItsFile, RenameFindsThePartial
<1> QED
  BY <1>1, Invariant, PTL

-----------------------------------------------------------------------------
(* Sequences as sets: what is in a queue, and in which order.               *)

LEMMA RangeIsIndexed ==
  ASSUME NEW S, NEW q \in Seq(S)
  PROVE  /\ Len(q) \in Nat
         /\ Range(q) = {q[k] : k \in 1..Len(q)}
         /\ Range(q) \subseteq S
         /\ Range(q) = {} <=> q = <<>>
<1>1. Len(q) \in Nat /\ DOMAIN q = 1..Len(q) /\ q \in [1..Len(q) -> S]
  BY LenProperties
<1>2. Range(q) = {q[k] : k \in 1..Len(q)}
  BY <1>1 DEF Range
<1>3. q # <<>> => 1 \in 1..Len(q)
  BY EmptySeq
<1>4. q = <<>> => Len(q) = 0
  BY EmptySeq
<1>5. q = <<>> => Range(q) = {}
  BY <1>1, <1>2, <1>4
<1>6. q # <<>> => Range(q) # {}
  BY <1>2, <1>3
<1>7. Range(q) \subseteq S
  BY <1>1, <1>2
<1> QED
  BY <1>1, <1>2, <1>5, <1>6, <1>7

LEMMA RangeOfAppend ==
  ASSUME NEW S, NEW q \in Seq(S), NEW x \in S
  PROVE  Range(Append(q, x)) = Range(q) \cup {x}
<1>1. Append(q, x) \in Seq(S) /\ Len(Append(q, x)) = Len(q) + 1
  BY AppendProperties
<1>2. Range(Append(q, x)) = {Append(q, x)[k] : k \in 1..(Len(q) + 1)}
  <2>1. Range(Append(q, x)) = {Append(q, x)[k] : k \in 1..Len(Append(q, x))}
    BY <1>1, RangeIsIndexed
  <2> QED
    BY <1>1, <2>1
<1>3. /\ \A k \in 1..Len(q) : Append(q, x)[k] = q[k]
      /\ Append(q, x)[Len(q) + 1] = x
  BY AppendProperties
<1>4. Range(q) = {q[k] : k \in 1..Len(q)} /\ Len(q) \in Nat
  BY RangeIsIndexed
<1>5. 1..(Len(q) + 1) = 1..Len(q) \cup {Len(q) + 1}
  BY <1>4
<1> QED
  BY <1>2, <1>3, <1>4, <1>5

LEMMA RangeOfAnyAppend ==
  ASSUME NEW S, NEW q \in Seq(S), NEW x
  PROVE  Range(Append(q, x)) \subseteq Range(q) \cup {x}
<1>1. q \in Seq(S \cup {x}) /\ x \in S \cup {x}
  BY SeqMonotonic
<1>2. Range(Append(q, x)) = Range(q) \cup {x}
  BY <1>1, RangeOfAppend
<1> QED
  BY <1>2

LEMMA RangeOfTail ==
  ASSUME NEW S, NEW q \in Seq(S), q # <<>>
  PROVE  /\ Range(q) = {Head(q)} \cup Range(Tail(q))
         /\ Range(Tail(q)) \subseteq Range(q) /\ Head(q) \in Range(q)
<1>1. /\ Tail(q) \in Seq(S) /\ Len(Tail(q)) = Len(q) - 1
      /\ \A i \in 1..Len(Tail(q)) : Tail(q)[i] = q[i + 1]
  BY HeadTailProperties
<1>2. /\ Range(Tail(q)) = {Tail(q)[k] : k \in 1..Len(Tail(q))}
      /\ Range(q) = {q[k] : k \in 1..Len(q)} /\ Len(q) \in Nat /\ Len(q) # 0
  <2>1. Range(Tail(q)) = {Tail(q)[k] : k \in 1..Len(Tail(q))}
    BY <1>1, RangeIsIndexed
  <2>2. Range(q) = {q[k] : k \in 1..Len(q)} /\ Len(q) \in Nat
    BY RangeIsIndexed
  <2>3. Len(q) # 0
    BY EmptySeq
  <2> QED
    BY <2>1, <2>2, <2>3
<1>3. Head(q) = q[1]
  OBVIOUS
<1>4. ASSUME NEW k \in 1..Len(q), k # 1 PROVE q[k] \in Range(Tail(q))
  <2>1. k - 1 \in 1..Len(Tail(q)) /\ Tail(q)[k - 1] = q[k]
    BY <1>1, <1>2, <1>4
  <2> QED
    BY <1>2, <2>1
<1>5. ASSUME NEW k \in 1..Len(Tail(q)) PROVE Tail(q)[k] \in Range(q)
  <2>1. k + 1 \in 1..Len(q) /\ Tail(q)[k] = q[k + 1]
    BY <1>1, <1>2
  <2> QED
    BY <1>2, <2>1
<1>6. 1 \in 1..Len(q)
  BY <1>2
<1> QED
  BY <1>2, <1>3, <1>4, <1>5, <1>6

LEMMA RangeOfPrefix ==
  ASSUME NEW S, NEW q \in Seq(S), NEW n \in 0..Len(q)
  PROVE  /\ SubSeq(q, 1, n) \in Seq(S) /\ Len(SubSeq(q, 1, n)) = n
         /\ \A k \in 1..n : SubSeq(q, 1, n)[k] = q[k]
         /\ Range(SubSeq(q, 1, n)) \subseteq Range(q)
<1>1. Len(q) \in Nat /\ \A i \in 1..n : q[i] \in S
  BY LenProperties
<1>2. /\ SubSeq(q, 1, n) \in Seq(S) /\ Len(SubSeq(q, 1, n)) = n
      /\ \A k \in 1..n : SubSeq(q, 1, n)[k] = q[k]
  BY <1>1, SubSeqProperties
<1>3. Range(SubSeq(q, 1, n)) = {q[k] : k \in 1..n}
  <2>1. Range(SubSeq(q, 1, n)) = {SubSeq(q, 1, n)[k] : k \in 1..Len(SubSeq(q, 1, n))}
    BY <1>2, RangeIsIndexed
  <2> QED
    BY <1>2, <2>1
<1>4. Range(q) = {q[k] : k \in 1..Len(q)}
  BY RangeIsIndexed
<1>5. 1..n \subseteq 1..Len(q)
  BY <1>1
<1> QED
  BY <1>2, <1>3, <1>4, <1>5

LEMMA EmptyQueue ==
  /\ Len(<<>>) = 0 /\ Range(<<>>) = {} /\ Flat(<<>>) = {}
  /\ Rising(<<>>) /\ RisingStreams(<<>>)
<1>1. Len(<<>>) = 0
  BY EmptySeq
<1>2. Range(<<>>) = {}
  <2>1. <<>> \in Seq({})
    BY EmptySeq
  <2> QED
    BY <2>1, RangeIsIndexed
<1>3. Rising(<<>>) /\ RisingStreams(<<>>)
  BY <1>1 DEF Rising, RisingStreams
<1> QED
  BY <1>1, <1>2, <1>3 DEF Flat

LEMMA FlatOfQueue ==
  ASSUME NEW u \in Streams
  PROVE  /\ \A s \in Frames : Flat(Append(u, s)) = Flat(u) \cup Range(s)
         /\ u # <<>> => /\ Flat(u) = Range(Head(u)) \cup Flat(Tail(u))
                        /\ Flat(Tail(u)) \subseteq Flat(u)
         /\ u = <<>> => Flat(u) = {}
         /\ Flat(u) \subseteq Frame
<1>1. ASSUME NEW s \in Frames PROVE Flat(Append(u, s)) = Flat(u) \cup Range(s)
  BY RangeOfAppend DEF Flat, Streams
<1>2. u # <<>> => Flat(u) = Range(Head(u)) \cup Flat(Tail(u)) /\ Flat(Tail(u)) \subseteq Flat(u)
  BY RangeOfTail DEF Flat, Streams
<1>3. Range(u) \subseteq Frames /\ (u = <<>> => Range(u) = {})
  BY RangeIsIndexed DEF Streams
<1>4. \A s \in Frames : Range(s) \subseteq Frame
  BY RangeIsIndexed DEF Frames
<1>5. (u = <<>> => Flat(u) = {}) /\ Flat(u) \subseteq Frame
  BY <1>3, <1>4 DEF Flat
<1> QED
  BY <1>1, <1>2, <1>5

LEMMA RisingQueue ==
  ASSUME NEW q \in Frames, Rising(q)
  PROVE  /\ \A y \in Frame : (\A x \in Range(q) : Before(x, y)) => Rising(Append(q, y))
         /\ q # <<>> => Rising(Tail(q)) /\ \A y \in Range(Tail(q)) : Before(Head(q), y)
<1>1. Len(q) \in Nat /\ Range(q) = {q[k] : k \in 1..Len(q)}
  BY RangeIsIndexed DEF Frames
<1>2. ASSUME NEW y \in Frame, \A x \in Range(q) : Before(x, y) PROVE Rising(Append(q, y))
  <2>1. /\ Len(Append(q, y)) = Len(q) + 1 /\ Append(q, y)[Len(q) + 1] = y
        /\ \A i \in 1..Len(q) : Append(q, y)[i] = q[i]
    BY AppendProperties DEF Frames
  <2>2. \A k \in 1..Len(q) : Before(q[k], y)
    BY <1>1, <1>2
  <2> SUFFICES ASSUME NEW k \in 1..(Len(q) + 1), NEW l \in 1..(Len(q) + 1), k < l
               PROVE  Before(Append(q, y)[k], Append(q, y)[l])
    BY <2>1 DEF Rising
  <2>3. k \in 1..Len(q)
    BY <1>1
  <2>4. CASE l = Len(q) + 1
    BY <2>1, <2>2, <2>3, <2>4
  <2>5. CASE l \in 1..Len(q)
    BY <2>1, <2>3, <2>5 DEF Rising
  <2> QED
    BY <1>1, <2>4, <2>5
<1>3. ASSUME q # <<>> PROVE Rising(Tail(q)) /\ \A y \in Range(Tail(q)) : Before(Head(q), y)
  <2>1. /\ Tail(q) \in Frames /\ Len(Tail(q)) = Len(q) - 1
        /\ \A i \in 1..Len(Tail(q)) : Tail(q)[i] = q[i + 1]
    BY <1>3, HeadTailProperties DEF Frames
  <2>2. Head(q) = q[1] /\ Len(q) # 0
    BY <1>3, EmptySeq DEF Frames
  <2>3. Rising(Tail(q))
    BY <1>1, <2>1 DEF Rising
  <2>4. Range(Tail(q)) = {Tail(q)[k] : k \in 1..Len(Tail(q))}
    BY <2>1, RangeIsIndexed DEF Frames
  <2>5. \A k \in 1..Len(Tail(q)) : Before(q[1], Tail(q)[k])
    BY <1>1, <2>1, <2>2 DEF Rising
  <2> QED
    BY <2>2, <2>3, <2>4, <2>5
<1> QED
  BY <1>2, <1>3

LEMMA RisingStreamsQueue ==
  ASSUME NEW u \in Streams, RisingStreams(u)
  PROVE  /\ \A s \in Frames : Rising(s) /\ (\A x \in Flat(u), y \in Range(s) : Before(x, y))
              => RisingStreams(Append(u, s))
         /\ u # <<>> => /\ RisingStreams(Tail(u)) /\ Rising(Head(u))
                        /\ \A x \in Range(Head(u)), y \in Flat(Tail(u)) : Before(x, y)
         /\ \A n \in 0..Len(u) : RisingStreams(SubSeq(u, 1, n))
<1>1. Len(u) \in Nat /\ Range(u) = {u[k] : k \in 1..Len(u)}
  BY RangeIsIndexed DEF Streams
<1>2. ASSUME NEW s \in Frames, Rising(s), \A x \in Flat(u), y \in Range(s) : Before(x, y)
      PROVE  RisingStreams(Append(u, s))
  <2>1. /\ Len(Append(u, s)) = Len(u) + 1 /\ Append(u, s)[Len(u) + 1] = s
        /\ \A i \in 1..Len(u) : Append(u, s)[i] = u[i]
    BY AppendProperties DEF Streams
  <2>2. \A k \in 1..Len(u) : \A x \in Range(u[k]), y \in Range(s) : Before(x, y)
    BY <1>1, <1>2 DEF Flat
  <2>3. ASSUME NEW k \in 1..(Len(u) + 1) PROVE Rising(Append(u, s)[k])
    BY <1>1, <1>2, <2>1 DEF RisingStreams
  <2>4. ASSUME NEW k \in 1..(Len(u) + 1), NEW l \in 1..(Len(u) + 1), k < l
        PROVE  \A x \in Range(Append(u, s)[k]), y \in Range(Append(u, s)[l]) : Before(x, y)
    <3>1. k \in 1..Len(u)
      BY <1>1, <2>4
    <3>2. CASE l = Len(u) + 1
      <4>1. Append(u, s)[k] = u[k] /\ Append(u, s)[l] = s
        BY <2>1, <3>1, <3>2
      <4> QED
        BY <2>2, <3>1, <4>1
    <3>3. CASE l \in 1..Len(u)
      <4>1. Append(u, s)[k] = u[k] /\ Append(u, s)[l] = u[l]
        BY <2>1, <3>1, <3>3
      <4>2. \A x \in Range(u[k]), y \in Range(u[l]) : Before(x, y)
        BY <2>4, <3>1, <3>3 DEF RisingStreams
      <4> QED
        BY <4>1, <4>2
    <3>4. l = Len(u) + 1 \/ l \in 1..Len(u)
      BY <1>1
    <3> QED
      BY <3>2, <3>3, <3>4
  <2> QED
    BY <2>1, <2>3, <2>4 DEF RisingStreams
<1>3. ASSUME u # <<>>
      PROVE  /\ RisingStreams(Tail(u)) /\ Rising(Head(u))
             /\ \A x \in Range(Head(u)), y \in Flat(Tail(u)) : Before(x, y)
  <2>1. /\ Tail(u) \in Streams /\ Len(Tail(u)) = Len(u) - 1
        /\ \A i \in 1..Len(Tail(u)) : Tail(u)[i] = u[i + 1]
    BY <1>3, HeadTailProperties DEF Streams
  <2>2. Head(u) = u[1] /\ Len(u) # 0 /\ 1 \in 1..Len(u)
    BY <1>1, <1>3, EmptySeq DEF Streams
  <2>3. Range(Tail(u)) = {Tail(u)[k] : k \in 1..Len(Tail(u))}
    BY <2>1, RangeIsIndexed DEF Streams
  <2>4. RisingStreams(Tail(u))
    <3>1. \A i \in 1..Len(Tail(u)) : i + 1 \in 1..Len(u) /\ Tail(u)[i] = u[i + 1]
      BY <1>1, <2>1
    <3>2. \A i \in 1..Len(Tail(u)) : Rising(Tail(u)[i])
      BY <3>1 DEF RisingStreams
    <3>3. ASSUME NEW k \in 1..Len(Tail(u)), NEW l \in 1..Len(Tail(u)), k < l
          PROVE  \A x \in Range(Tail(u)[k]), y \in Range(Tail(u)[l]) : Before(x, y)
      <4>1. k + 1 < l + 1
        BY <1>1, <2>1, <3>3
      <4> QED
        BY <3>1, <3>3, <4>1 DEF RisingStreams
    <3> QED
      BY <3>2, <3>3 DEF RisingStreams
  <2>5. ASSUME NEW k \in 1..Len(Tail(u)) PROVE \A x \in Range(u[1]), y \in Range(Tail(u)[k]) : Before(x, y)
    <3>1. k + 1 \in 1..Len(u) /\ 1 < k + 1
      BY <1>1, <2>1
    <3> QED
      BY <2>1, <2>2, <3>1 DEF RisingStreams
  <2>6. Rising(Head(u))
    BY <2>2 DEF RisingStreams
  <2>7. \A x \in Range(Head(u)), y \in Flat(Tail(u)) : Before(x, y)
    BY <2>2, <2>3, <2>5 DEF Flat
  <2> QED
    BY <2>4, <2>6, <2>7
<1>4. ASSUME NEW n \in 0..Len(u) PROVE RisingStreams(SubSeq(u, 1, n))
  <2>1. Len(SubSeq(u, 1, n)) = n /\ \A k \in 1..n : SubSeq(u, 1, n)[k] = u[k]
    BY RangeOfPrefix DEF Streams
  <2>2. 1..n \subseteq 1..Len(u)
    BY <1>1
  <2> QED
    BY <2>1, <2>2 DEF RisingStreams
<1> QED
  BY <1>2, <1>3, <1>4

(* The checksums a channel answers with, message by message.                *)
LEMMA AnsweredQueue ==
  ASSUME NEW q \in Channel
  PROVE  /\ \A m \in Message : Answered(Append(q, m)) =
              Answered(q) \cup (IF IsSum(m) THEN {m.file} ELSE {})
         /\ q # <<>> => Answered(q) =
              Answered(Tail(q)) \cup (IF IsSum(Head(q)) THEN {Head(q).file} ELSE {})
         /\ Answered(q) \subseteq Files
         /\ q = <<>> => Answered(q) = {}
<1>1. ASSUME NEW m \in Message
      PROVE  Answered(Append(q, m)) = Answered(q) \cup (IF IsSum(m) THEN {m.file} ELSE {})
  <2>1. Range(Append(q, m)) = Range(q) \cup {m}
    BY RangeOfAppend DEF Channel
  <2> QED
    BY <2>1 DEF Answered
<1>2. ASSUME q # <<>>
      PROVE  Answered(q) = Answered(Tail(q)) \cup (IF IsSum(Head(q)) THEN {Head(q).file} ELSE {})
  <2>1. Range(q) = {Head(q)} \cup Range(Tail(q))
    BY <1>2, RangeOfTail DEF Channel
  <2> QED
    BY <2>1 DEF Answered
<1>3. Range(q) \subseteq Message /\ (q = <<>> => Range(q) = {})
  BY RangeIsIndexed DEF Channel
<1>4. Answered(q) \subseteq Files
  BY <1>3, MessageFields DEF Answered, IsSum
<1>5. q = <<>> => Answered(q) = {}
  BY <1>3 DEF Answered
<1> QED
  BY <1>1, <1>2, <1>4, <1>5

(* A checksum may be added for the first file that has none ...             *)
LEMMA InOrderAppend ==
  ASSUME NEW q \in Channel, NEW d, InOrder(q, d), NEW m \in Message,
         IsSum(m) => /\ m.file \notin d
                     /\ \A g \in Files : g < m.file => g \in d \cup Answered(q)
                     /\ \A g \in Answered(q) : g < m.file
  PROVE  InOrder(Append(q, m), d)
<1>1. /\ Len(Append(q, m)) = Len(q) + 1 /\ Append(q, m)[Len(q) + 1] = m
      /\ \A i \in 1..Len(q) : Append(q, m)[i] = q[i]
  BY AppendProperties DEF Channel
<1>2. Len(q) \in Nat /\ Range(q) = {q[k] : k \in 1..Len(q)}
  BY RangeIsIndexed DEF Channel
<1> SUFFICES ASSUME NEW k \in 1..(Len(q) + 1), IsSum(Append(q, m)[k])
             PROVE  /\ Append(q, m)[k].file \notin d
                    /\ \A g \in Files : g < Append(q, m)[k].file =>
                         g \in d \/ \E j \in 1..(k - 1) :
                                      IsSum(Append(q, m)[j]) /\ Append(q, m)[j].file = g
                    /\ \A j \in 1..(k - 1) :
                         IsSum(Append(q, m)[j]) => Append(q, m)[j].file < Append(q, m)[k].file
  BY <1>1 DEF InOrder
<1>3. \A j \in 1..(k - 1) : j \in 1..Len(q) /\ Append(q, m)[j] = q[j]
  BY <1>1, <1>2
<1>4. CASE k \in 1..Len(q)
  <2>1. Append(q, m)[k] = q[k]
    BY <1>1, <1>4
  <2> QED
    BY <1>3, <1>4, <2>1 DEF InOrder
<1>5. CASE k = Len(q) + 1
  <2>1. Append(q, m)[k] = m /\ IsSum(m)
    BY <1>1, <1>5
  <2>2. \A g \in Answered(q) : \E j \in 1..(k - 1) : IsSum(q[j]) /\ q[j].file = g
    BY <1>2, <1>5 DEF Answered
  <2>3. \A j \in 1..(k - 1) : IsSum(q[j]) => q[j].file \in Answered(q)
    BY <1>2, <1>3 DEF Answered
  <2>4. \A g \in Files : g < m.file => g \in d \/ \E j \in 1..(k - 1) : IsSum(q[j]) /\ q[j].file = g
    BY <2>1, <2>2
  <2>5. \A j \in 1..(k - 1) : IsSum(q[j]) => q[j].file < m.file
    BY <2>1, <2>3
  <2> QED
    BY <1>3, <2>1, <2>4, <2>5
<1> QED
  BY <1>2, <1>4, <1>5

(* ... and the first is that of the first file that is not done.            *)
LEMMA InOrderTail ==
  ASSUME NEW q \in Channel, q # <<>>, NEW d, InOrder(q, d)
  PROVE  /\ IsSum(Head(q)) => /\ Head(q).file \notin d
                              /\ \A g \in Files : g < Head(q).file => g \in d
                              /\ InOrder(Tail(q), d \cup {Head(q).file})
         /\ ~IsSum(Head(q)) => InOrder(Tail(q), d)
<1>1. /\ Tail(q) \in Channel /\ Len(Tail(q)) = Len(q) - 1
      /\ \A i \in 1..Len(Tail(q)) : Tail(q)[i] = q[i + 1]
  BY HeadTailProperties DEF Channel
<1>2. Len(q) \in Nat /\ Head(q) = q[1] /\ Len(q) # 0 /\ 1 \in 1..Len(q)
  BY RangeIsIndexed, EmptySeq DEF Channel
<1>3. \A i \in 1..Len(Tail(q)) : i + 1 \in 1..Len(q) /\ Tail(q)[i] = q[i + 1]
  BY <1>1, <1>2
<1>4. IsSum(Head(q)) => /\ Head(q).file \notin d
                        /\ \A g \in Files : g < Head(q).file => g \in d
  BY <1>2 DEF InOrder
<1>5. ASSUME NEW k \in 1..Len(Tail(q)), IsSum(Tail(q)[k])
      PROVE  /\ Tail(q)[k].file \notin d
             /\ IsSum(Head(q)) => Head(q).file < Tail(q)[k].file
             /\ \A g \in Files : g < Tail(q)[k].file =>
                  g \in d \/ (IsSum(Head(q)) /\ g = Head(q).file)
                    \/ \E j \in 1..(k - 1) : IsSum(Tail(q)[j]) /\ Tail(q)[j].file = g
             /\ \A j \in 1..(k - 1) : IsSum(Tail(q)[j]) => Tail(q)[j].file < Tail(q)[k].file
  <2>1. k + 1 \in 1..Len(q) /\ Tail(q)[k] = q[k + 1] /\ 1 \in 1..((k + 1) - 1)
    BY <1>2, <1>3
  <2>2. Tail(q)[k].file \notin d /\ (IsSum(Head(q)) => Head(q).file < Tail(q)[k].file)
    BY <1>2, <1>5, <2>1 DEF InOrder
  <2>3. ASSUME NEW g \in Files, g < Tail(q)[k].file, g \notin d,
               ~(IsSum(Head(q)) /\ g = Head(q).file)
        PROVE  \E j \in 1..(k - 1) : IsSum(Tail(q)[j]) /\ Tail(q)[j].file = g
    <3>1. PICK j \in 1..((k + 1) - 1) : IsSum(q[j]) /\ q[j].file = g
      BY <1>5, <2>1, <2>3 DEF InOrder
    <3>2. j # 1
      BY <1>2, <2>3, <3>1
    <3>3. j - 1 \in 1..(k - 1) /\ Tail(q)[j - 1] = q[j]
      BY <1>1, <1>2, <3>1, <3>2
    <3> QED
      BY <3>1, <3>3
  <2>4. ASSUME NEW j \in 1..(k - 1), IsSum(Tail(q)[j]) PROVE Tail(q)[j].file < Tail(q)[k].file
    <3>1. j + 1 \in 1..((k + 1) - 1) /\ Tail(q)[j] = q[j + 1]
      BY <1>1, <1>2
    <3> QED
      BY <1>5, <2>1, <2>4, <3>1 DEF InOrder
  <2> QED
    BY <2>2, <2>3, <2>4
<1>6. ASSUME IsSum(Head(q)) PROVE InOrder(Tail(q), d \cup {Head(q).file})
  <2>1. Head(q) \in Message
    BY QueuesTyped
  <2>2. Head(q).file \in Nat
    BY <1>6, <2>1, MessageFields DEF IsSum, Files
  <2>3. ASSUME NEW k \in 1..Len(Tail(q)), IsSum(Tail(q)[k])
        PROVE  Tail(q)[k].file # Head(q).file
    <3>1. Head(q).file < Tail(q)[k].file
      BY <1>5, <1>6, <2>3
    <3> QED
      BY <2>2, <3>1
  <2> QED
    BY <1>5, <1>6, <2>3 DEF InOrder
<1>7. ASSUME ~IsSum(Head(q)) PROVE InOrder(Tail(q), d)
  BY <1>5, <1>7 DEF InOrder
<1> QED
  BY <1>4, <1>6, <1>7

-----------------------------------------------------------------------------
(* What a lost connection loses.                                            *)

LEMMA TruncatedIsNothing ==
  Truncated \in Message /\ Truncated.type = "Truncated" /\ ~IsSum(Truncated)
BY MessagesTyped DEF Truncated, Plain, IsSum

LEMMA LessItself ==
  /\ \A q \in Channel : Less(q, q)
  /\ \A u : LessStreams(u, u)
<1>1. \A q \in Channel : Len(q) \in Nat
  BY RangeIsIndexed DEF Channel
<1> QED
  BY <1>1 DEF Less, LessStreams

LEMMA LessEmpty ==
  /\ \A q \in Channel : Less(q, <<>>)
  /\ \A u : LessStreams(u, <<>>)
<1>1. Len(<<>>) = 0
  BY EmptySeq
<1>2. Range(<<>>) = {}
  BY RangeIsIndexed, QueuesTyped DEF Channel
<1>3. \A q \in Channel : Len(q) \in Nat
  BY RangeIsIndexed DEF Channel
<1>4. (\A d : InOrder(<<>>, d)) /\ RisingStreams(<<>>)
  BY <1>1 DEF InOrder, RisingStreams
<1> QED
  BY <1>1, <1>2, <1>3, <1>4 DEF Less, LessStreams

LEMMA PrefixIsLess ==
  ASSUME NEW q \in Channel, NEW n \in 0..Len(q)
  PROVE  Less(q, SubSeq(q, 1, n))
<1>1. /\ Len(SubSeq(q, 1, n)) = n
      /\ \A k \in 1..n : SubSeq(q, 1, n)[k] = q[k]
      /\ Range(SubSeq(q, 1, n)) \subseteq Range(q)
  BY RangeOfPrefix DEF Channel
<1>2. n <= Len(q) /\ Len(q) \in Nat /\ 1..n \subseteq 1..Len(q)
  BY RangeIsIndexed DEF Channel
<1>3. ASSUME NEW d, InOrder(q, d) PROVE InOrder(SubSeq(q, 1, n), d)
  <2> SUFFICES ASSUME NEW k \in 1..n, IsSum(q[k])
               PROVE  /\ q[k].file \notin d
                      /\ \A g \in Files : g < q[k].file =>
                           g \in d \/ \E j \in 1..(k - 1) :
                             IsSum(SubSeq(q, 1, n)[j]) /\ SubSeq(q, 1, n)[j].file = g
                      /\ \A j \in 1..(k - 1) :
                           IsSum(SubSeq(q, 1, n)[j]) => SubSeq(q, 1, n)[j].file < q[k].file
    BY <1>1 DEF InOrder
  <2>1. \A j \in 1..(k - 1) : SubSeq(q, 1, n)[j] = q[j]
    BY <1>1, <1>2
  <2> QED
    BY <1>2, <1>3, <2>1 DEF InOrder
<1> QED
  BY <1>1, <1>2, <1>3 DEF Less

LEMMA CutIsLess ==
  ASSUME NEW q \in Channel, NEW r \in Cut(q)
  PROVE  Less(q, r)
<1>1. CASE \E n \in 0..Len(q) : r = SubSeq(q, 1, n)
  BY <1>1, PrefixIsLess
<1>2. CASE \E n \in 0..(Len(q) - 1) : r = Append(SubSeq(q, 1, n), Truncated)
  <2>1. PICK n \in 0..(Len(q) - 1) : r = Append(SubSeq(q, 1, n), Truncated)
    BY <1>2
  <2>2. n \in 0..Len(q) /\ n + 1 <= Len(q)
    BY RangeIsIndexed DEF Channel
  <2> DEFINE p == SubSeq(q, 1, n)
  <2>3. Less(q, p) /\ p \in Channel /\ Len(p) = n
    BY <2>2, PrefixIsLess, RangeOfPrefix DEF Channel
  <2> HIDE DEF p
  <2>4. Len(Append(p, Truncated)) = n + 1 /\ Range(Append(p, Truncated)) = Range(p) \cup {Truncated}
    BY <2>3, TruncatedIsNothing, AppendProperties, RangeOfAppend DEF Channel
  <2>5. \A d \in SUBSET Files : InOrder(q, d) => InOrder(Append(p, Truncated), d)
    BY <2>3, TruncatedIsNothing, InOrderAppend DEF Less
  <2>6. r = Append(p, Truncated)
    BY <2>1 DEF p
  <2> QED
    BY <2>2, <2>3, <2>4, <2>5, <2>6 DEF Less
<1> QED
  BY <1>1, <1>2 DEF Cut, Truncated

LEMMA CutStreamsIsLess ==
  ASSUME unis \in Streams, NEW u \in CutStreams
  PROVE  LessStreams(unis, u)
<1>1. CASE u = unis
  BY <1>1, LessItself
<1>2. CASE unis # <<>> /\ u = SubSeq(unis, 1, Len(unis) - 1)
  <2>1. Len(unis) - 1 \in 0..Len(unis)
    BY <1>2, EmptySeq DEF Streams
  <2>2. Range(u) \subseteq Range(unis)
    BY <1>2, <2>1, RangeOfPrefix DEF Streams
  <2>3. RisingStreams(unis) => RisingStreams(u)
    BY <1>2, <2>1, RisingStreamsQueue
  <2> QED
    BY <2>2, <2>3 DEF LessStreams
<1> QED
  BY <1>1, <1>2 DEF CutStreams

LEMMA LosingSteps ==
  ASSUME NetTyped
  PROVE  /\ Drop => Loses
         /\ SenderCloses => Loses
         /\ Exit => Loses
<1>1. Drop => Loses
  BY CutIsLess, CutStreamsIsLess DEF Drop, Loses, NetTyped
<1>2. SenderCloses => Loses
  BY CutIsLess, CutStreamsIsLess, LessItself, LessEmpty DEF SenderCloses, Loses, NetTyped
<1>3. Exit => Loses
  BY CutIsLess, LessItself, LessEmpty DEF Exit, Loses, NetTyped
<1> QED
  BY <1>1, <1>2, <1>3

-----------------------------------------------------------------------------
(* What the steps have in common.                                           *)

LEMMA StateUpdates ==
  ASSUME NEW s \in State
  PROVE  /\ /\ ClearBitmaps(s).scanned = s.scanned /\ ClearBitmaps(s).size = s.size
            /\ ClearBitmaps(s).done = s.done /\ \A g \in Files : ClearBitmaps(s).chunks[g] = {}
         /\ \A z : LET t == [FreshState EXCEPT !.scanned = TRUE, !.size = z]
                   IN  /\ t.scanned = TRUE /\ t.size = z /\ t.done = {}
                       /\ \A g \in Files : t.chunks[g] = {}
         /\ ~FreshState.scanned /\ FreshState.done = {} /\ \A g \in Files : FreshState.chunks[g] = {}
         /\ NoStateFile.st = FreshState
BY DEF ClearBitmaps, State, FreshState, NoStateFile

LEMMA DoneUpdate ==
  ASSUME NEW s \in State, NEW f, NEW t, t = [s EXCEPT !.done = @ \cup {f}]
  PROVE  t.scanned = s.scanned /\ t.size = s.size /\ t.chunks = s.chunks /\ t.done = s.done \cup {f}
BY DEF State

LEMMA ChunksUpdate ==
  ASSUME NEW s \in State, NEW f \in Files, NEW c, NEW t, t = [s EXCEPT !.chunks[f] = @ \cup c]
  PROVE  /\ t.scanned = s.scanned /\ t.size = s.size /\ t.done = s.done
         /\ \A g \in Files : g # f => t.chunks[g] = s.chunks[g]
BY DEF State

(* A step of the receiver's disk alone.                                     *)
OnlyTheDisk ==
  UNCHANGED <<src, spc, st, saved, err, cur, pos, slen, sum, batch, verified, edits, up, toR, toS,
              unis, rpc, info, rfile, seen, rstream, buf, epoch>>

LEMMA Footprints ==
  /\ ReceiverStep =>
       UNCHANGED <<src, spc, st, saved, err, cur, pos, slen, sum, batch, verified, edits>>
  /\ SenderStep /\ ~Reconnect =>
       UNCHANGED <<src, edits, rpc, info, rfile, seen, rstream, buf, epoch, writers, partial, final>>
  /\ \A e \in Epochs : WriterStep(e) => OnlyTheDisk
<1>1. ReceiverStep => UNCHANGED receiverKeeps
  BY DEF ReceiverStep, RecvInfo, SkipFile, StartFile, LastFileDone, AcceptUni, RecvFrame, FlushRest,
         SendFinalize, SendHash, CompareHash, RecvComplete, RecvUnexpected, RecvDisconnected
<1>2. SenderStep /\ ~Reconnect => UNCHANGED <<src, recvVars, diskVars, envVars>>
  BY DEF SenderStep, SendInfo, RecvReady, OpenFile, SendComplete, ReadChunk, FlushBatch, BatchAcked,
         SendChecksum, RecvChecksum, HandleError, StateWritten, ReconnectFails, SenderExits, netVars
<1>3. \A e \in Epochs : WriterStep(e) =>
        UNCHANGED <<src, spc, stateVars, fileVars, verified, netVars, recvVars, envVars>>
  BY DEF WriterStep, WriterRecv, WriterWrite, WriterFinalize, WriterAbandons
<1> QED
  BY <1>1, <1>2, <1>3 DEF receiverKeeps, stateVars, fileVars, netVars, recvVars, diskVars, envVars,
     OnlyTheDisk

(* Where an induction step starts from.                                     *)
Given == IInv /\ IInv' /\ Delivering /\ KeepState /\ UNCHANGED src

-----------------------------------------------------------------------------
(* What the sender's steps make of its own state.                           *)

Typed == /\ SourceTyped /\ ControlTyped /\ StateTyped /\ FileTyped
         /\ NetTyped /\ ReceiverTyped /\ DiskTyped

LEMMA GivenTypes == Given => Typed /\ Typed'
BY TypeOKInParts DEF Given, IInv, Typed

(* Only a checksum that agrees makes a file done; only an acknowledgement   *)
(* marks chunks.                                                            *)
FileIsDone == RecvChecksum /\ spc' = "next"

LEMMA SenderState ==
  ASSUME Given, SenderStep, ~Reconnect
  PROVE  /\ st'.done = IF FileIsDone THEN st.done \cup {cur} ELSE st.done
         /\ st.scanned => st'.scanned /\ st'.size = st.size
         /\ KnowsSource(st)' /\ KnowsSource(saved.st)'
         /\ SendInfo => st'.scanned
         /\ spc \notin {"start", "flushing", "error"} => st'.chunks = st.chunks
         /\ spc = "start" => NothingClaimed(st', {})
         /\ spc = "flushing" => \A g \in Files : g # cur => st'.chunks[g] = st.chunks[g]
         /\ spc = "error" => NothingClaimed(st', {})
<1>0. Typed /\ SizesAreTrue /\ NoClaims /\ UNCHANGED src /\ KeepState
  BY GivenTypes DEF Given, Delivering, SenderKnows
<1>1. CASE SendInfo
  <2>1. CASE st.scanned
    BY <1>0, <1>1, <2>1 DEF SendInfo, FileIsDone, RecvChecksum, SizesAreTrue, KnowsSource, Lengths, NoClaims
  <2>2. CASE ~st.scanned
    <3>1. st' = [FreshState EXCEPT !.scanned = TRUE, !.size = Lengths] /\ saved' = saved
      BY <1>1, <2>2 DEF SendInfo, Lengths
    <3>2. st'.scanned /\ st'.size = Lengths /\ st'.done = {} /\ NothingClaimed(st', {})
      BY <1>0, <3>1, StateUpdates DEF Typed, StateTyped, FileTyped, NothingClaimed
    <3> QED
      BY <1>0, <1>1, <2>2, <3>1, <3>2
         DEF SendInfo, FileIsDone, RecvChecksum, SizesAreTrue, KnowsSource, Lengths
  <2> QED
    BY <2>1, <2>2
<1>2. CASE BatchAcked
  <2> DEFINE c == {batch[k][1] : k \in 1..Len(batch)}
  <2>1. st' = [st EXCEPT !.chunks[cur] = @ \cup c] \/ st' = st
    BY <1>2 DEF BatchAcked
  <2> HIDE DEF c
  <2>2. /\ st'.scanned = st.scanned /\ st'.size = st.size /\ st'.done = st.done
        /\ \A g \in Files : g # cur => st'.chunks[g] = st.chunks[g]
    <3>1. st \in State /\ cur \in Files
      BY <1>0 DEF Typed, StateTyped, FileTyped
    <3>2. CASE st' = [st EXCEPT !.chunks[cur] = @ \cup c]
      BY <3>1, <3>2, ChunksUpdate
    <3> QED
      BY <2>1, <3>2
  <2> QED
    BY <1>0, <1>2, <2>2
       DEF BatchAcked, FileIsDone, RecvChecksum, SizesAreTrue, KnowsSource, Lengths, SendInfo
<1>3. CASE RecvChecksum
  <2>1. /\ st'.scanned = st.scanned /\ st'.size = st.size /\ st'.chunks = st.chunks
        /\ st'.done = IF spc' = "next" THEN st.done \cup {cur} ELSE st.done
    <3>1. st \in State
      BY <1>0 DEF Typed, StateTyped
    <3>2. \/ st' = [st EXCEPT !.done = @ \cup {cur}] /\ spc' = "next"
          \/ st' = st /\ spc' # "next"
      BY <1>3 DEF RecvChecksum, Raise
    <3>3. CASE st' = [st EXCEPT !.done = @ \cup {cur}] /\ spc' = "next"
      BY <3>1, <3>3, DoneUpdate
    <3>4. CASE st' = st /\ spc' # "next"
      BY <3>4
    <3> QED
      BY <3>2, <3>3, <3>4
  <2> QED
    BY <1>0, <1>3, <2>1
       DEF RecvChecksum, FileIsDone, SizesAreTrue, KnowsSource, Lengths, SendInfo, Active, Talking
<1>4. CASE HandleError
  BY <1>0, <1>4, StateUpdates
     DEF HandleError, FileIsDone, RecvChecksum, SendInfo, SizesAreTrue, KnowsSource, Lengths,
         NothingClaimed, Typed, StateTyped, FileTyped
<1>5. CASE SendComplete \/ StateWritten
  <2>1. saved'.st = FreshState \/ saved'.st = st \/ saved' = saved
    BY <1>5 DEF SendComplete, StateWritten, NoStateFile
  <2>2. st' = st /\ ~SendInfo /\ ~RecvChecksum /\ spc \in {"next", "saving"}
    BY <1>5 DEF SendComplete, StateWritten, SendInfo, RecvChecksum
  <2>3. KnowsSource(saved.st)'
    BY <1>0, <2>1, <2>2, StateUpdates DEF SizesAreTrue, KnowsSource, Lengths, Typed, StateTyped
  <2> QED
    BY <1>0, <2>2, <2>3 DEF FileIsDone, SizesAreTrue, KnowsSource, Lengths
<1>6. CASE UNCHANGED <<st, saved>> /\ ~SendInfo /\ ~RecvChecksum /\ spc \notin {"start", "error"}
  BY <1>0, <1>6 DEF FileIsDone, SizesAreTrue, KnowsSource, Lengths
<1>7. (UNCHANGED <<st, saved>> /\ ~SendInfo /\ ~RecvChecksum /\ spc \notin {"start", "error"})
        \/ SendInfo \/ BatchAcked \/ RecvChecksum \/ HandleError \/ SendComplete \/ StateWritten
  BY DEF SenderStep, SendInfo, RecvReady, OpenFile, SendComplete, ReadChunk, FlushBatch, BatchAcked,
         SendChecksum, RecvChecksum, HandleError, StateWritten, ReconnectFails, SenderExits, stateVars
<1> QED
  BY <1>1, <1>2, <1>3, <1>4, <1>5, <1>6, <1>7

(* No checksum makes a file of which frames are still in flight done: the   *)
(* first answer in the channel is that of the current file.                 *)
LEMMA AnswerIsOfCurrent ==
  ASSUME Given, spc = "awaitSum", toS # <<>>, IsSum(Head(toS))
  PROVE  Head(toS).file = cur /\ cur \in Answered(toS)
<1>0. Typed /\ CurrentIsFirst /\ AnswersAreInOrder
  BY GivenTypes DEF Given, Delivering, SenderKnows, TheyAgree
<1>1. FirstPending(cur) /\ InOrder(toS, st.done) /\ toS \in Channel
  BY <1>0 DEF CurrentIsFirst, InFile, AnswersAreInOrder, Active, Talking, Typed, NetTyped
<1>2. Head(toS).file \in Files /\ cur \in Files
  BY <1>0, <1>1, QueuesTyped, MessageFields DEF IsSum, Typed, FileTyped
<1>3. Head(toS).file \notin st.done /\ \A g \in Files : g < Head(toS).file => g \in st.done
  BY <1>1, InOrderTail
<1>4. ~(cur < Head(toS).file) /\ ~(Head(toS).file < cur)
  BY <1>1, <1>2, <1>3 DEF FirstPending
<1>5. Head(toS).file = cur
  BY <1>2, <1>4 DEF Files
<1> QED
  BY <1>1, <1>5, AnsweredQueue

(* Which step leads where.                                                  *)
LEMMA SenderMoves ==
  ASSUME SenderStep, ~Reconnect
  PROVE  /\ spc' = "awaitReady" => SendInfo
         /\ spc' = "next" => RecvReady \/ FileIsDone
         /\ spc' = "send" => OpenFile \/ ReadChunk \/ BatchAcked
         /\ spc' = "flushing" => FlushBatch
         /\ spc' = "awaitSum" => SendChecksum
         /\ spc' \in {"saving", "backoff"} => HandleError \/ StateWritten
         /\ spc' = "start" => ReconnectFails
         /\ spc' = "ok" => SendComplete \/ SenderExits
         /\ up' => up
         /\ ~OpenFile => cur' = cur /\ slen' = slen
         /\ ~FileIsDone => verified' = verified
<1>1. spc' = "awaitReady" => SendInfo
  BY DEF SenderStep, SendInfo, RecvReady, OpenFile, SendComplete, ReadChunk, FlushBatch, BatchAcked,
         SendChecksum, RecvChecksum, HandleError, StateWritten, ReconnectFails, SenderExits, Raise, AfterError,
         FileIsDone
<1>2. spc' = "next" => RecvReady \/ FileIsDone
  BY DEF SenderStep, SendInfo, RecvReady, OpenFile, SendComplete, ReadChunk, FlushBatch, BatchAcked,
         SendChecksum, RecvChecksum, HandleError, StateWritten, ReconnectFails, SenderExits, Raise, AfterError,
         FileIsDone
<1>3. spc' = "send" => OpenFile \/ ReadChunk \/ BatchAcked
  BY DEF SenderStep, SendInfo, RecvReady, OpenFile, SendComplete, ReadChunk, FlushBatch, BatchAcked,
         SendChecksum, RecvChecksum, HandleError, StateWritten, ReconnectFails, SenderExits, Raise, AfterError,
         FileIsDone
<1>4. spc' = "flushing" => FlushBatch
  BY DEF SenderStep, SendInfo, RecvReady, OpenFile, SendComplete, ReadChunk, FlushBatch, BatchAcked,
         SendChecksum, RecvChecksum, HandleError, StateWritten, ReconnectFails, SenderExits, Raise, AfterError,
         FileIsDone
<1>5. spc' = "awaitSum" => SendChecksum
  BY DEF SenderStep, SendInfo, RecvReady, OpenFile, SendComplete, ReadChunk, FlushBatch, BatchAcked,
         SendChecksum, RecvChecksum, HandleError, StateWritten, ReconnectFails, SenderExits, Raise, AfterError,
         FileIsDone
<1>6. spc' \in {"saving", "backoff"} => HandleError \/ StateWritten
  BY DEF SenderStep, SendInfo, RecvReady, OpenFile, SendComplete, ReadChunk, FlushBatch, BatchAcked,
         SendChecksum, RecvChecksum, HandleError, StateWritten, ReconnectFails, SenderExits, Raise, AfterError,
         FileIsDone
<1>7. spc' = "start" => ReconnectFails
  BY DEF SenderStep, SendInfo, RecvReady, OpenFile, SendComplete, ReadChunk, FlushBatch, BatchAcked,
         SendChecksum, RecvChecksum, HandleError, StateWritten, ReconnectFails, SenderExits, Raise, AfterError,
         FileIsDone
<1>8. spc' = "ok" => SendComplete \/ SenderExits
  BY DEF SenderStep, SendInfo, RecvReady, OpenFile, SendComplete, ReadChunk, FlushBatch, BatchAcked,
         SendChecksum, RecvChecksum, HandleError, StateWritten, ReconnectFails, SenderExits, Raise, AfterError,
         FileIsDone
<1>9. up' => up
  BY DEF SenderStep, SendInfo, RecvReady, OpenFile, SendComplete, ReadChunk, FlushBatch, BatchAcked,
         SendChecksum, RecvChecksum, HandleError, StateWritten, ReconnectFails, SenderExits, SenderCloses, netVars
<1>10. ~OpenFile => cur' = cur /\ slen' = slen
  BY DEF SenderStep, SendInfo, RecvReady, SendComplete, ReadChunk, FlushBatch, BatchAcked,
         SendChecksum, RecvChecksum, HandleError, StateWritten, ReconnectFails, SenderExits, fileVars
<1>11. ~FileIsDone => verified' = verified
  BY DEF SenderStep, SendInfo, RecvReady, OpenFile, SendComplete, ReadChunk, FlushBatch, BatchAcked,
         SendChecksum, RecvChecksum, HandleError, StateWritten, ReconnectFails, SenderExits, Raise, FileIsDone
<1> QED
  BY <1>1, <1>2, <1>3, <1>4, <1>5, <1>6, <1>7, <1>8, <1>9, <1>10, <1>11

-----------------------------------------------------------------------------
(* What the sender's steps leave of the invariant.                          *)

LEMMA SenderKeepsSizes ==
  ASSUME Given, SenderStep, ~Reconnect
  PROVE  SizesAreTrue'
<1>0. Typed /\ SizesAreTrue /\ UNCHANGED <<src, rpc, info>>
  BY GivenTypes, Footprints DEF Given, Delivering, SenderKnows
<1>1. KnowsSource(st)' /\ KnowsSource(saved.st)' /\ (rpc' \in Session => info'.size = Lengths')
  BY <1>0, SenderState DEF SizesAreTrue, Lengths
<1>2. spc' \in Active => st'.scanned
  <2>1. ~SendInfo /\ spc' \in Active => spc \in Active
    BY SenderMoves DEF Active, Talking, RecvReady, FileIsDone, RecvChecksum, OpenFile, ReadChunk,
       BatchAcked, FlushBatch, SendChecksum
  <2> QED
    BY <1>0, <2>1, SenderState DEF SizesAreTrue
<1>3. spc' \in InFile => slen' = src'[cur'].len
  <2>1. CASE OpenFile
    BY <1>0, <2>1 DEF OpenFile
  <2>2. CASE ~OpenFile
    <3>1. spc' \in InFile => spc \in InFile
      BY <2>2, SenderMoves DEF InFile, ReadChunk, BatchAcked, FlushBatch, SendChecksum
    <3> QED
      BY <1>0, <2>2, <3>1, SenderMoves DEF SizesAreTrue
  <2> QED
    BY <2>1, <2>2
<1> QED
  BY <1>1, <1>2, <1>3 DEF SizesAreTrue

LEMMA SenderKeepsNoClaims ==
  ASSUME Given, SenderStep, ~Reconnect
  PROVE  NoClaims'
<1>0. Typed /\ NoClaims /\ KeepState /\ UNCHANGED <<src, rpc, info>>
  BY GivenTypes, Footprints DEF Given, Delivering, SenderKnows
<1>1. NothingClaimed(saved'.st, {})
  <2>1. CASE saved' = saved
    BY <1>0, <2>1 DEF NoClaims
  <2>2. CASE HandleError \/ SendComplete
    <3>1. saved'.st = FreshState \/ saved' = saved
      BY <1>0, <2>2 DEF HandleError, SendComplete, NoStateFile
    <3> QED
      BY <1>0, <3>1, StateUpdates DEF NoClaims, NothingClaimed, Typed, StateTyped
  <2>3. CASE StateWritten
    <3>1. saved'.st = st /\ spc = "saving"
      BY <2>3 DEF StateWritten
    <3> QED
      BY <1>0, <3>1 DEF NoClaims
  <2>4. saved' = saved \/ HandleError \/ SendComplete \/ StateWritten
    BY DEF SenderStep, SendInfo, RecvReady, OpenFile, SendComplete, ReadChunk, FlushBatch, BatchAcked,
       SendChecksum, RecvChecksum, HandleError, StateWritten, ReconnectFails, SenderExits, stateVars
  <2> QED
    BY <2>1, <2>2, <2>3, <2>4
<1>2. spc' \in {"start", "awaitReady", "saving", "backoff"} => NothingClaimed(st', {})
  <2>1. CASE spc' \in {"start", "awaitReady"}
    <3>1. \/ spc = "start"
          \/ spc = "backoff" /\ st' = st
      BY <2>1, SenderMoves DEF SendInfo, ReconnectFails
    <3> QED
      BY <1>0, <3>1, SenderState DEF NoClaims
  <2>2. CASE spc' \in {"saving", "backoff"}
    <3>1. \/ spc = "error"
          \/ spc = "saving" /\ st' = st
      BY <2>2, SenderMoves DEF HandleError, StateWritten
    <3> QED
      BY <1>0, <3>1, SenderState DEF NoClaims
  <2> QED
    BY <2>1, <2>2
<1>3. spc' = "next" => NothingClaimed(st', st'.done)
  <2>1. CASE RecvReady
    BY <1>0, <2>1 DEF RecvReady, NoClaims, NothingClaimed
  <2>2. CASE FileIsDone
    <3>1. st'.done = st.done \cup {cur} /\ st'.chunks = st.chunks
      BY <2>2, SenderState DEF FileIsDone, RecvChecksum
    <3> QED
      BY <1>0, <2>2, <3>1 DEF FileIsDone, RecvChecksum, NoClaims, NothingClaimed, InFile
  <2> QED
    BY <2>1, <2>2, SenderMoves
<1>4. spc' \in InFile => NothingClaimed(st', st'.done \cup {cur'})
  <2>1. CASE OpenFile
    BY <1>0, <2>1 DEF OpenFile, stateVars, NoClaims, NothingClaimed
  <2>2. CASE BatchAcked
    <3>1. st'.done = st.done /\ cur' = cur /\ \A g \in Files : g # cur => st'.chunks[g] = st.chunks[g]
      BY <2>2, SenderState DEF BatchAcked, FileIsDone, RecvChecksum
    <3> QED
      BY <1>0, <2>2, <3>1 DEF BatchAcked, NoClaims, NothingClaimed, InFile
  <2>3. CASE ReadChunk \/ FlushBatch \/ SendChecksum
    BY <1>0, <2>3 DEF ReadChunk, FlushBatch, SendChecksum, fileVars, NoClaims, NothingClaimed, InFile
  <2> QED
    BY <2>1, <2>2, <2>3, SenderMoves DEF InFile
<1> QED
  BY <1>0, <1>1, <1>2, <1>3, <1>4 DEF NoClaims

LEMMA SenderKeepsFresh ==
  ASSUME Given, SenderStep, ~Reconnect
  PROVE  RetriesAreFresh'
<1>0. Typed /\ RetriesAreFresh /\ SizesAreTrue /\ (up' => up) /\ UNCHANGED rpc
  BY GivenTypes, SenderMoves, Footprints DEF Given, Delivering, SenderKnows
<1>1. spc' \in {"error", "saving"} /\ err' = "recoverable" => ~up
  <2>1. CASE ReadChunk
    <3>1. pos <= src[cur].len
      BY <1>0, <2>1 DEF ReadChunk, SizesAreTrue, InFile
    <3> QED
      BY <1>0, <2>1, <3>1 DEF ReadChunk, Typed, SourceTyped, FileTyped, Source, Lens
  <2>2. CASE HandleError
    BY <1>0, <2>2 DEF HandleError, RetriesAreFresh
  <2>3. CASE ~ReadChunk /\ ~HandleError
    BY <1>0, <2>3
       DEF SenderStep, SendInfo, RecvReady, OpenFile, SendComplete, FlushBatch, BatchAcked, SendChecksum,
           RecvChecksum, StateWritten, AfterError, ReconnectFails, SenderExits, Raise, RetriesAreFresh
  <2> QED
    BY <2>1, <2>2, <2>3
<1>2. spc' = "backoff" => ~up
  BY <1>0, SenderMoves DEF HandleError, StateWritten, AfterError, RetriesAreFresh
<1>3. spc' = "start" => ~up
  BY <1>0, SenderMoves DEF ReconnectFails, RetriesAreFresh
<1> QED
  BY <1>0, <1>1, <1>2, <1>3 DEF RetriesAreFresh

LEMMA SenderKeepsFirst ==
  ASSUME Given, SenderStep, ~Reconnect
  PROVE  CurrentIsFirst'
<1>0. Typed /\ CurrentIsFirst
  BY GivenTypes DEF Given, Delivering, SenderKnows
<1>1. CASE OpenFile
  <2>1. cur' = NextFile(st) /\ st' = st /\ NextFile(st) # 0
    BY <1>1 DEF OpenFile, stateVars
  <2>2. cur' \in Files \ st.done /\ \A g \in Files \ st.done : cur' <= g
    BY <1>0, <2>1, NextFileIsPending DEF Typed, StateTyped
  <2>3. \A g \in Files : g < cur' => g \in st.done
    BY <2>2 DEF Files
  <2> QED
    BY <2>1, <2>2, <2>3 DEF CurrentIsFirst, FirstPending
<1>2. CASE ~OpenFile
  <2>1. spc' \in InFile => spc \in InFile /\ ~FileIsDone /\ cur' = cur
    BY <1>2, SenderMoves
       DEF InFile, FileIsDone, RecvChecksum, ReadChunk, BatchAcked, FlushBatch, SendChecksum
  <2> QED
    BY <1>0, <2>1, SenderState DEF CurrentIsFirst, FirstPending
<1> QED
  BY <1>1, <1>2

LEMMA SenderKeepsBatch ==
  ASSUME Given, SenderStep, ~Reconnect
  PROVE  BatchIsOfFile'
<1>0. Typed /\ Typed' /\ BatchIsOfFile /\ SizesAreTrue /\ UNCHANGED src
  BY GivenTypes, Footprints DEF Given, Delivering, SenderKnows
<1>1. batch \in Frames /\ pos \in Nat /\ slen \in Nat /\ sum \in Hashed /\ cur \in Files
  BY <1>0 DEF Typed, FileTyped, Lens
<1>e. Len(<<>>) = 0 /\ Range(<<>>) = {} /\ Rising(<<>>)
  BY EmptyQueue
<1>2. CASE OpenFile
  BY <1>0, <1>2, <1>e DEF OpenFile, BatchIsOfFile, Typed, FileTyped, Lens
<1>3. CASE ReadChunk /\ spc' = "send"
  <2> DEFINE y == <<pos, src[cur].ver>>
  <2>1. /\ spc = "send" /\ cur' = cur /\ slen' = slen /\ slen = src[cur].len
        /\ pos' = pos + 1 /\ pos <= slen /\ sum' = Append(sum, src[cur].ver)
        /\ batch' = batch \/ batch' = Append(batch, y)
    BY <1>0, <1>3 DEF ReadChunk, Raise, SizesAreTrue, InFile
  <2>2. src[cur].ver \in Versions /\ y \in Frame /\ y[1] = pos /\ y[2] = src[cur].ver
    BY <1>0, <1>1, <2>1 DEF Typed, SourceTyped, Source, FileTyped, Frame, Chunks, Lens
  <2> HIDE DEF y
  <2>3. /\ Rising(batch) /\ \A x \in Range(batch) : FrameOf(x, cur) /\ x[1] < pos
        /\ Len(sum) = pos - 1 /\ \A k \in 1..Len(sum) : sum[k] = src[cur].ver
    BY <1>0, <2>1 DEF BatchIsOfFile, InFile
  <2>4. Range(Append(batch, y)) = Range(batch) \cup {y}
    BY <1>1, <2>2, RangeOfAppend DEF Frames
  <2>5. Rising(Append(batch, y))
    BY <1>1, <2>2, <2>3, RisingQueue DEF Before
  <2>6. \A x \in Range(batch) : x[1] \in Nat
    BY <1>1, RangeIsIndexed DEF Frames, Frame, Chunks
  <2>7. \A x \in Range(batch') : FrameOf(x, cur) /\ x[1] < pos + 1
    <3>1. \A x \in Range(batch) : FrameOf(x, cur) /\ x[1] < pos + 1
      BY <1>1, <2>3, <2>6
    <3>2. FrameOf(y, cur) /\ y[1] < pos + 1
      BY <1>1, <2>1, <2>2 DEF FrameOf
    <3>3. Range(batch') \subseteq Range(batch) \cup {y}
      BY <2>1, <2>4
    <3> QED
      BY <3>1, <3>2, <3>3
  <2>8. Len(sum') = pos /\ \A k \in 1..Len(sum') : sum'[k] = src[cur].ver
    <3>1. /\ Len(sum') = Len(sum) + 1 /\ sum'[Len(sum) + 1] = src[cur].ver
          /\ \A k \in 1..Len(sum) : sum'[k] = sum[k]
      BY <1>1, <2>1, <2>2, AppendProperties DEF Hashed
    <3> QED
      BY <1>1, <2>3, <3>1
  <2>9. pos' <= slen' + 1 /\ Rising(batch') /\ Len(sum') = pos' - 1
    <3>1. Rising(batch')
      BY <2>1, <2>3, <2>5
    <3>2. pos' <= slen' + 1 /\ Len(sum') = pos' - 1
      BY <1>1, <2>1, <2>8
    <3> QED
      BY <3>1, <3>2
  <2>10. \A x \in Range(batch') : FrameOf(x, cur)' /\ x[1] < pos'
    BY <1>0, <2>1, <2>7 DEF FrameOf
  <2> QED
    BY <1>0, <1>3, <2>1, <2>8, <2>9, <2>10 DEF BatchIsOfFile
<1>4. CASE BatchAcked /\ spc' = "send"
  BY <1>0, <1>4, <1>e DEF BatchAcked, Raise, BatchIsOfFile, InFile, FrameOf
<1>5. CASE FlushBatch /\ spc' = "flushing"
  BY <1>0, <1>5 DEF FlushBatch, fileVars, Raise, BatchIsOfFile, InFile, FrameOf
<1>6. CASE SendChecksum /\ spc' = "awaitSum"
  BY <1>0, <1>1, <1>6 DEF SendChecksum, fileVars, Raise, BatchIsOfFile, InFile, FrameOf
<1> QED
  BY <1>2, <1>3, <1>4, <1>5, <1>6, SenderMoves DEF BatchIsOfFile, InFile

-----------------------------------------------------------------------------
(* What the sender's steps leave of what the two agree on.                  *)

(* A file the sender is told of is behind the receiver: none of its frames  *)
(* is in flight any more.                                                   *)
LEMMA DoneIsPassed ==
  ASSUME Given, FileIsDone
  PROVE  /\ spc = "awaitSum" /\ toS # <<>> /\ IsSum(Head(toS)) /\ Head(toS).file = cur
         /\ toS' = Tail(toS) /\ Answered(toS) = Answered(toS') \cup {cur}
         /\ UNCHANGED <<cur, up, toR, unis, saved>> /\ verified' = [verified EXCEPT ![cur] = sum]
         /\ final[cur] # NoFile
         /\ rpc \in Session => Passed(cur) /\ InFlight = {}
<1>0. Typed /\ AnswersAreInOrder /\ FlightIsOfCurrent
  BY GivenTypes DEF Given, Delivering, TheyAgree, NothingLost
<1>1. /\ spc = "awaitSum" /\ toS # <<>> /\ IsSum(Head(toS)) /\ toS' = Tail(toS)
      /\ UNCHANGED <<cur, up, toR, unis, saved>> /\ verified' = [verified EXCEPT ![cur] = sum]
  BY DEF FileIsDone, RecvChecksum, Raise, IsSum, fileVars
<1>2. Head(toS).file = cur /\ cur \in Answered(toS)
  BY <1>1, AnswerIsOfCurrent
<1>3. Answered(toS) = Answered(toS') \cup {cur}
  BY <1>0, <1>1, <1>2, AnsweredQueue DEF Typed, NetTyped
<1>4. final[cur] # NoFile /\ (rpc \in Session => Passed(cur))
  BY <1>0, <1>2 DEF AnswersAreInOrder
<1>5. rpc \in Session => InFlight = {}
  BY <1>0, <1>4 DEF FlightIsOfCurrent, Passed, Typed, FileTyped, ReceiverTyped, Files
<1> QED
  BY <1>1, <1>2, <1>3, <1>4, <1>5

LEMMA ManifestIsTrue ==
  ASSUME NEW s \in State, NothingClaimed(s, {})
  PROVE  ManifestOf(s).size = s.size /\ ManifestOf(s).done = s.done /\ ManifestOf(s).claimFile = 0
<1>1. NextFile(s) \in Files \/ NextFile(s) = 0
  BY NextFileIsPending
<1> QED
  BY <1>1 DEF ManifestOf, NothingClaimed

(* A manifest goes out on a connection nothing was said on yet.             *)
LEMMA OfferIsAlone ==
  ASSUME Given, SendInfo, up
  PROVE  /\ toR = <<>> /\ toS = <<>> /\ unis = <<>> /\ rpc = "info"
         /\ spc' = "awaitReady" /\ UNCHANGED <<up, toS, unis>>
         /\ Len(toR') = 1
         /\ \A m \in Range(toR') : /\ m.type = "TransferInfo"
                                   /\ m.info.size = Lengths /\ m.info.claimFile = 0 /\ m.info.done = st'.done
<1>0. Typed /\ Typed' /\ RetriesAreFresh
  BY GivenTypes DEF Given, Delivering, SenderKnows
<1>1. /\ toR = <<>> /\ toS = <<>> /\ unis = <<>> /\ rpc = "info"
      /\ spc = "start" /\ spc' = "awaitReady" /\ UNCHANGED <<up, toS, unis>>
      /\ toR' = Append(toR, Info(ManifestOf(st')))
  BY <1>0 DEF SendInfo, Raise, RetriesAreFresh
<1>2. st'.scanned /\ KnowsSource(st)' /\ NothingClaimed(st', {}) /\ st' \in State /\ UNCHANGED src
  BY <1>0, <1>1, SenderState DEF SenderStep, Reconnect, Given, Typed, StateTyped
<1>3. st'.size = Lengths
  BY <1>2 DEF KnowsSource, Lengths
<1>4. Info(ManifestOf(st')) \in Message
  BY <1>2, ManifestTyped, MessagesTyped
<1>5. Len(toR') = 1 /\ Range(toR') = {Info(ManifestOf(st'))}
  <2>1. <<>> \in Seq(Message) /\ Len(<<>>) = 0 /\ Range(<<>>) = {}
    BY EmptyQueue, QueuesTyped DEF Channel
  <2>2. Len(Append(<<>>, Info(ManifestOf(st')))) = Len(<<>>) + 1
    BY <1>4, <2>1, AppendProperties
  <2>3. Range(Append(<<>>, Info(ManifestOf(st')))) = Range(<<>>) \cup {Info(ManifestOf(st'))}
    BY <1>4, <2>1, RangeOfAppend
  <2> QED
    BY <1>1, <2>1, <2>2, <2>3
<1>6. /\ Info(ManifestOf(st')).type = "TransferInfo"
      /\ Info(ManifestOf(st')).info = ManifestOf(st')
  BY DEF Info
<1> QED
  BY <1>1, <1>2, <1>3, <1>5, <1>6, ManifestIsTrue

(* What a step of the sender appends to the channel.                        *)
LEMMA SenderSends ==
  ASSUME Given, SenderStep, ~Reconnect, ~(SendInfo /\ up), ~SenderExits
  PROVE  \/ toR' = toR
         \/ /\ SendChecksum /\ spc' = "awaitSum" /\ UNCHANGED <<st, cur, toS>>
            /\ Range(toR') = Range(toR) \cup {Checksum(cur, sum)}
         \/ /\ SendComplete /\ spc' = "ok" /\ Range(toR') = Range(toR) \cup {Plain("Complete")}
<1>0. Typed
  BY GivenTypes
<1>1. toR \in Channel /\ Checksum(cur, sum) \in Message /\ Plain("Complete") \in Message
  BY <1>0, MessagesTyped, SeqMonotonic DEF Typed, NetTyped, FileTyped, Hashed, Content
<1>2. /\ Range(Append(toR, Checksum(cur, sum))) = Range(toR) \cup {Checksum(cur, sum)}
      /\ Range(Append(toR, Plain("Complete"))) = Range(toR) \cup {Plain("Complete")}
  BY <1>1, RangeOfAppend DEF Channel
<1> QED
  BY <1>2 DEF SenderStep, SendInfo, RecvReady, OpenFile, SendComplete, ReadChunk, FlushBatch, BatchAcked,
       SendChecksum, RecvChecksum, HandleError, StateWritten, ReconnectFails, Raise, netVars, fileVars

LEMMA SenderKeepsOffers ==
  ASSUME Given, SenderStep, ~Reconnect
  PROVE  OffersAreTrue'
<1>0. Typed /\ OffersAreTrue /\ UNCHANGED <<src, rpc>>
  BY GivenTypes, Footprints DEF Given, Delivering, TheyAgree
<1>1. CASE SendInfo /\ up
  BY <1>0, <1>1, OfferIsAlone DEF OffersAreTrue, Offered, Talking, Lengths
<1>2. CASE ~(SendInfo /\ up)
  <2> SUFFICES ASSUME NEW m \in Range(toR'), m.type = "TransferInfo" PROVE Offered(m)'
    BY DEF OffersAreTrue
  <2>1. m \in Range(toR) /\ Len(toR') <= Len(toR) /\ (toS = <<>> => toS' = <<>>)
    <3>1. CASE SenderExits
      <4>1. Less(toR, toR') /\ toS' = <<>>
        BY <1>0, <3>1, LosingSteps DEF SenderExits, SenderCloses, Loses, Typed
      <4> QED
        BY <4>1, TruncatedIsNothing DEF Less
    <3>2. CASE ~SenderExits
      <4>1. toR' = toR
        BY <1>0, <1>2, <3>2, SenderSends
           DEF OffersAreTrue, Offered, Talking, SendChecksum, SendComplete, Checksum, Plain
      <4>2. toS = <<>> => toS' = <<>>
        BY <3>2 DEF SenderStep, SendInfo, RecvReady, OpenFile, SendComplete, ReadChunk, FlushBatch,
           BatchAcked, SendChecksum, RecvChecksum, HandleError, StateWritten, ReconnectFails, netVars
      <4>3. Len(toR) \in Nat
        BY <1>0, RangeIsIndexed DEF Typed, NetTyped, Channel
      <4> QED
        BY <4>1, <4>2, <4>3
    <3> QED
      BY <3>1, <3>2
  <2>2. Offered(m)
    BY <1>0, <2>1 DEF OffersAreTrue
  <2>3. st'.done = st.done /\ spc' \notin Talking
    <3>1. spc \notin Talking /\ toS = <<>>
      BY <2>2 DEF Offered
    <3>2. ~FileIsDone
      BY <3>1 DEF FileIsDone, RecvChecksum, Talking
    <3>3. spc' \notin Talking
      BY <3>1, <3>2, SenderMoves
         DEF Talking, RecvReady, Raise, OpenFile, ReadChunk, BatchAcked, FlushBatch, SendChecksum
    <3> QED
      BY <3>2, <3>3, SenderState
  <2>4. Len(toR') = 1
    <3>1. toR' \in Channel /\ toR' # <<>>
      BY GivenTypes, EmptyQueue DEF Typed, NetTyped
    <3>2. Len(toR') \in Nat /\ Len(toR') # 0
      BY <3>1, EmptySeq, LenProperties DEF Channel
    <3>3. Len(toR) = 1
      BY <2>2 DEF Offered
    <3>4. Len(toR') <= 1
      BY <2>1, <3>3, Zenon
    <3>5. \A n \in Nat : n # 0 /\ n <= 1 => n = 1
      OBVIOUS
    <3> QED
      BY <3>2, <3>4, <3>5, Zenon
  <2> QED
    BY <1>0, <2>1, <2>2, <2>3, <2>4 DEF Offered, Lengths
<1> QED
  BY <1>1, <1>2

-----------------------------------------------------------------------------
(* What the sender's steps leave of what the two agree on.                  *)

Parts == /\ SizesAreTrue /\ NoClaims /\ RetriesAreFresh /\ CurrentIsFirst /\ BatchIsOfFile
         /\ OffersAreTrue /\ SumsAreOfCurrent /\ SessionIsOpen /\ DoneAgrees /\ PassedIsDone
         /\ AnswersAreInOrder
         /\ FlightIsOfCurrent /\ FlightIsSound /\ FlightIsRising /\ SeenIsBehind
         /\ PartialsAreSound /\ FinalsAreWhole /\ WritersAreSound /\ SeenIsKept /\ DoneIsDelivered

LEMMA GivenParts == Given => Typed /\ Typed' /\ Parts /\ KeepState /\ UNCHANGED src
BY GivenTypes DEF Given, Delivering, SenderKnows, TheyAgree, NothingLost, DiskIsSound, Parts

(* A sender that goes on in the session was in it before, unless it has     *)
(* just made its offer.                                                     *)
LEMMA SenderStays ==
  ASSUME SenderStep, ~Reconnect, ~(SendInfo /\ up), spc' \in Active
  PROVE  /\ spc \in Active /\ ~SenderExits /\ ~SendInfo
         /\ spc = "awaitSum" => FileIsDone
         /\ spc = "awaitReady" => RecvReady /\ spc' = "next"
<1>1. ~SendInfo /\ ~SenderExits
  BY DEF SendInfo, SenderExits, Raise, Active, Talking
<1>2. spc \in Active
  BY <1>1, SenderMoves DEF Active, Talking, RecvReady, FileIsDone, RecvChecksum, OpenFile, ReadChunk,
     BatchAcked, FlushBatch, SendChecksum
<1>3. spc = "awaitSum" => FileIsDone
  BY <1>1, SenderMoves DEF Active, Talking, RecvReady, FileIsDone, RecvChecksum, OpenFile, ReadChunk,
     BatchAcked, FlushBatch, SendChecksum
<1>4. spc = "awaitReady" => RecvReady /\ spc' = "next"
  BY <1>1, SenderMoves DEF Active, Talking, RecvReady, FileIsDone, RecvChecksum, OpenFile, ReadChunk,
     BatchAcked, FlushBatch, SendChecksum
<1> QED
  BY <1>1, <1>2, <1>3, <1>4

LEMMA SenderKeepsSums ==
  ASSUME Given, SenderStep, ~Reconnect
  PROVE  SumsAreOfCurrent'
<1>0. Typed /\ SumsAreOfCurrent /\ CurrentIsFirst
  BY GivenParts DEF Parts
<1>1. CASE SendInfo /\ up
  BY <1>1, OfferIsAlone DEF SumsAreOfCurrent, IsSum
<1>2. CASE ~(SendInfo /\ up)
  <2> SUFFICES ASSUME spc' \in Active, NEW m \in Range(toR')
               PROVE  /\ IsSum(m) => \/ \A g \in Files : g <= m.file => g \in st'.done
                                     \/ spc' = "awaitSum" /\ m.file = cur'
                      /\ m.type # "Complete"
    BY DEF SumsAreOfCurrent
  <2>0. spc \in Active /\ ~SenderExits /\ (spc = "awaitSum" => FileIsDone)
    BY <1>2, SenderStays
  <2>1. st.done \subseteq st'.done
    BY SenderState
  <2>2. CASE m \in Range(toR)
    <3>1. m.type # "Complete"
      BY <1>0, <2>0, <2>2 DEF SumsAreOfCurrent
    <3>2. CASE spc = "awaitSum" /\ m.file = cur
      <4>1. st'.done = st.done \cup {cur} /\ FirstPending(cur)
        BY <1>0, <2>0, <3>2, SenderState DEF CurrentIsFirst, InFile
      <4>2. \A g \in Files : g <= cur => g \in st'.done
        BY <1>0, <4>1 DEF FirstPending, Typed, FileTyped, Files
      <4> QED
        BY <3>1, <3>2, <4>2
    <3>3. CASE ~(spc = "awaitSum" /\ m.file = cur)
      BY <1>0, <2>0, <2>1, <2>2, <3>1, <3>3 DEF SumsAreOfCurrent
    <3> QED
      BY <3>2, <3>3
  <2>3. CASE m \notin Range(toR)
    <3>1. spc' = "awaitSum" /\ cur' = cur /\ m = Checksum(cur, sum)
      BY <1>2, <2>0, <2>3, SenderSends DEF Active, Talking
    <3> QED
      BY <3>1 DEF Checksum
  <2> QED
    BY <2>2, <2>3
<1> QED
  BY <1>1, <1>2

(* What the sender's steps leave of the streams.                            *)
LEMMA SenderStreams ==
  ASSUME Given, SenderStep, ~Reconnect
  PROVE  \/ unis' = unis
         \/ FlushBatch /\ up /\ spc = "send" /\ spc' = "flushing" /\ unis' = Append(unis, batch) /\ batch # <<>>
         \/ SenderExits /\ LessStreams(unis, unis') /\ (unis = <<>> => unis' = <<>>)
<1>1. SenderExits => LessStreams(unis, unis') /\ (unis = <<>> => unis' = <<>>)
  BY GivenTypes, LosingSteps DEF Typed, SenderExits, Loses, SenderCloses, CutStreams
<1> QED
  BY <1>1 DEF SenderStep, SendInfo, RecvReady, OpenFile, SendComplete, ReadChunk, FlushBatch, BatchAcked,
         SendChecksum, RecvChecksum, HandleError, StateWritten, ReconnectFails, netVars, Raise

LEMMA SenderKeepsSession ==
  ASSUME Given, SenderStep, ~Reconnect
  PROVE  SessionIsOpen'
<1>0. Typed /\ SessionIsOpen /\ UNCHANGED rpc /\ (up' => up)
  BY GivenParts, Footprints, SenderMoves DEF Parts
<1>1. rpc = "info" => unis' = <<>>
  BY <1>0, SenderStreams DEF SessionIsOpen, Talking, Session
<1>2. spc' \in Talking /\ up => rpc \in Session
  <2> SUFFICES ASSUME spc' \in Talking, up PROVE rpc \in Session
    OBVIOUS
  <2>1. CASE spc \in Talking
    BY <1>0, <2>1 DEF SessionIsOpen
  <2>2. CASE spc \notin Talking
    <3>1. ~SendInfo
      BY DEF SendInfo, Raise, Talking
    <3>2. RecvReady /\ spc' = "next" /\ spc = "awaitReady"
      BY <2>2, <3>1, SenderStays DEF Active, Talking
    <3>3. toS # <<>> /\ Head(toS).type = "Ready"
      BY <3>2 DEF RecvReady, Raise
    <3>4. Head(toS) \in Range(toS)
      BY <1>0, <3>3, RangeOfTail DEF Typed, NetTyped, Channel
    <3> QED
      BY <1>0, <3>2, <3>3, <3>4 DEF SessionIsOpen
  <2> QED
    BY <2>1, <2>2
<1>3. spc' = "awaitReady" /\ up => Range(toS') = {}
  BY SenderMoves, OfferIsAlone, EmptyQueue
<1> QED
  BY <1>0, <1>1, <1>2, <1>3 DEF SessionIsOpen

LEMMA SenderKeepsAgreement ==
  ASSUME Given, SenderStep, ~Reconnect
  PROVE  DoneAgrees'
<1>0. Typed /\ DoneAgrees /\ UNCHANGED <<rpc, rfile, info>>
  BY GivenParts, Footprints DEF Parts
<1>1. CASE FileIsDone
  <2>1. st'.done = st.done \cup {cur} /\ (rpc \in Session => Passed(cur))
    BY <1>1, SenderState, DoneIsPassed
  <2>2. rpc \in Session => ~Ahead(cur)
    BY <1>0, <2>1 DEF Passed, Ahead, Typed, FileTyped, ReceiverTyped, Files
  <2> QED
    BY <1>0, <2>1, <2>2 DEF DoneAgrees, Ahead
<1>2. CASE ~FileIsDone
  BY <1>0, <1>2, SenderState DEF DoneAgrees, Ahead
<1> QED
  BY <1>1, <1>2

LEMMA SenderKeepsPassed ==
  ASSUME Given, SenderStep, ~Reconnect
  PROVE  PassedIsDone'
<1>0. Typed /\ PassedIsDone /\ UNCHANGED <<rpc, rfile>>
  BY GivenParts, Footprints DEF Parts
<1>1. CASE SendInfo /\ up
  BY <1>0, <1>1, OfferIsAlone DEF PassedIsDone, Session
<1>2. CASE ~(SendInfo /\ up) /\ spc' \in Active
  BY <1>0, <1>2, SenderStays, SenderState DEF PassedIsDone
<1> QED
  BY <1>1, <1>2 DEF PassedIsDone

(* What the sender takes from its channel.                                  *)
LEMMA SenderHears ==
  ASSUME Given, SenderStep, ~Reconnect
  PROVE  /\ Answered(toS') \subseteq Answered(toS)
         /\ spc' \in Active /\ ~(SendInfo /\ up) =>
              \/ toS' = toS /\ ~FileIsDone
              \/ FileIsDone
              \/ /\ ~FileIsDone /\ toS # <<>> /\ ~IsSum(Head(toS)) /\ toS' = Tail(toS)
                 /\ Answered(toS) = Answered(toS')
<1>0. Typed
  BY GivenTypes
<1>1. \/ toS' = toS
      \/ toS # <<>> /\ toS' = Tail(toS)
      \/ toS' = <<>> /\ SenderExits
  BY DEF SenderStep, SendInfo, RecvReady, OpenFile, SendComplete, ReadChunk, FlushBatch, BatchAcked,
         SendChecksum, RecvChecksum, HandleError, StateWritten, ReconnectFails, SenderExits, SenderCloses, netVars
<1>2. Answered(toS') \subseteq Answered(toS)
  BY <1>0, <1>1, AnsweredQueue, QueuesTyped DEF Typed, NetTyped
<1>3. ASSUME spc' \in Active, ~(SendInfo /\ up), toS' # toS, ~FileIsDone
      PROVE  toS # <<>> /\ ~IsSum(Head(toS)) /\ toS' = Tail(toS)
  <2>1. spc \in Active /\ spc # "awaitSum" /\ (spc = "awaitReady" => RecvReady /\ spc' = "next")
        /\ ~SenderExits
    BY <1>3, SenderStays
  <2>2. RecvReady
    BY <1>3, <2>1
       DEF SenderStep, SendInfo, RecvReady, OpenFile, SendComplete, ReadChunk, FlushBatch, BatchAcked,
           SendChecksum, RecvChecksum, HandleError, StateWritten, ReconnectFails, netVars
  <2> QED
    BY <1>3, <2>1, <2>2 DEF RecvReady, Raise, IsSum
<1>4. toS # <<>> /\ ~IsSum(Head(toS)) /\ toS' = Tail(toS) => Answered(toS) = Answered(toS')
  <2> SUFFICES ASSUME toS # <<>>, ~IsSum(Head(toS)), toS' = Tail(toS)
               PROVE  Answered(toS) = Answered(toS')
    OBVIOUS
  <2>1. Answered(toS) = Answered(Tail(toS)) \cup (IF IsSum(Head(toS)) THEN {Head(toS).file} ELSE {})
    BY <1>0, AnsweredQueue DEF Typed, NetTyped
  <2> QED
    BY <2>1
<1> QED
  BY <1>2, <1>3, <1>4

LEMMA SenderKeepsAnswers ==
  ASSUME Given, SenderStep, ~Reconnect
  PROVE  AnswersAreInOrder'
<1>0. Typed /\ AnswersAreInOrder /\ UNCHANGED <<rpc, rfile, final>> /\ (up' => up)
  BY GivenParts, Footprints, SenderMoves DEF Parts
<1>1. \A g \in Answered(toS') : final[g] # NoFile /\ (rpc \in Session => Passed(g))
  BY <1>0, SenderHears DEF AnswersAreInOrder
<1>2. CASE SendInfo /\ up
  <2>1. toS' = <<>> /\ rpc \notin Session
    BY <1>2, OfferIsAlone DEF Session
  <2>2. InOrder(toS', st'.done)
    BY <2>1, EmptyQueue DEF InOrder
  <2> QED
    BY <1>0, <1>1, <2>1, <2>2 DEF AnswersAreInOrder, Passed
<1>3. CASE ~(SendInfo /\ up) /\ spc' \in Active
  <2>0. spc \in Active /\ InOrder(toS, st.done) /\ toS \in Channel
    BY <1>0, <1>3, SenderStays DEF AnswersAreInOrder, Typed, NetTyped
  <2>1. InOrder(toS', st'.done)
    <3>1. CASE FileIsDone
      <4>1. st'.done = st.done \cup {cur} /\ toS # <<>> /\ IsSum(Head(toS)) /\ Head(toS).file = cur /\ toS' = Tail(toS)
        BY <3>1, SenderState, DoneIsPassed
      <4> QED
        BY <2>0, <4>1, InOrderTail
    <3>2. CASE ~FileIsDone
      <4>1. st'.done = st.done
        BY <3>2, SenderState
      <4>2. toS' = toS \/ (toS # <<>> /\ ~IsSum(Head(toS)) /\ toS' = Tail(toS))
        BY <1>3, <3>2, SenderHears
      <4>3. toS # <<>> /\ ~IsSum(Head(toS)) => InOrder(Tail(toS), st.done)
        BY <2>0, InOrderTail
      <4> QED
        BY <2>0, <4>1, <4>2, <4>3
    <3> QED
      BY <3>1, <3>2
  <2>2. st.done \cup Answered(toS) \subseteq st'.done \cup Answered(toS')
    <3>1. CASE FileIsDone
      BY <3>1, SenderState, DoneIsPassed
    <3>2. CASE ~FileIsDone
      BY <1>3, <3>2, SenderState, SenderHears
    <3> QED
      BY <3>1, <3>2
  <2> QED
    BY <1>0, <1>1, <2>0, <2>1, <2>2 DEF AnswersAreInOrder, Passed
<1> QED
  BY <1>0, <1>1, <1>2, <1>3 DEF AnswersAreInOrder, Passed

-----------------------------------------------------------------------------
(* What the sender's steps leave of what is in flight.                      *)

LEMMA NumbersTyped ==
  Typed => /\ cur \in Nat /\ rfile \in Nat /\ pos \in Nat /\ slen \in Nat /\ Files \subseteq Nat
           /\ \A i \in seen : i \in Nat
           /\ \A x \in Frame : x[1] \in Nat /\ x[1] >= 1 /\ x[2] \in Versions
           /\ Range(batch) \subseteq Frame /\ Range(rstream) \subseteq Frame /\ Range(buf) \subseteq Frame
           /\ Flat(unis) \subseteq Frame /\ InFlight \subseteq Frame
<1> SUFFICES ASSUME Typed
             PROVE  /\ cur \in Nat /\ rfile \in Nat /\ pos \in Nat /\ slen \in Nat /\ Files \subseteq Nat
                    /\ \A i \in seen : i \in Nat
                    /\ \A x \in Frame : x[1] \in Nat /\ x[1] >= 1 /\ x[2] \in Versions
                    /\ Range(batch) \subseteq Frame /\ Range(rstream) \subseteq Frame
                    /\ Range(buf) \subseteq Frame
                    /\ Flat(unis) \subseteq Frame /\ InFlight \subseteq Frame
  OBVIOUS
<1>1. cur \in Nat /\ rfile \in Nat /\ pos \in Nat /\ slen \in Nat /\ Files \subseteq Nat
  BY DEF Typed, FileTyped, ReceiverTyped, Files, Lens
<1>2. \A i \in seen : i \in Nat
  BY DEF Typed, ReceiverTyped, Chunks
<1>3. \A x \in Frame : x[1] \in Nat /\ x[1] >= 1 /\ x[2] \in Versions
  BY DEF Frame, Chunks
<1>4. Range(batch) \subseteq Frame /\ Range(rstream) \subseteq Frame /\ Range(buf) \subseteq Frame
  BY RangeIsIndexed DEF Typed, FileTyped, ReceiverTyped, Frames
<1>5. Flat(unis) \subseteq Frame
  BY FlatOfQueue DEF Typed, NetTyped
<1> QED
  BY <1>1, <1>2, <1>3, <1>4, <1>5 DEF InFlight

LEMMA SenderFlight ==
  ASSUME Given, SenderStep, ~Reconnect
  PROVE  /\ Flat(unis') \subseteq Flat(unis) \cup (IF FlushBatch /\ up THEN Range(batch) ELSE {})
         /\ InFlight' \subseteq InFlight \cup (IF FlushBatch /\ up THEN Range(batch) ELSE {})
<1>0. Typed /\ UNCHANGED <<rpc, rstream>>
  BY GivenTypes, Footprints
<1>1. Flat(unis') \subseteq Flat(unis) \cup (IF FlushBatch /\ up THEN Range(batch) ELSE {})
  <2>1. Flat(Append(unis, batch)) = Flat(unis) \cup Range(batch)
    BY <1>0, FlatOfQueue DEF Typed, NetTyped, FileTyped
  <2>2. LessStreams(unis, unis') => Flat(unis') \subseteq Flat(unis)
    BY DEF LessStreams, Flat
  <2> QED
    BY <2>1, <2>2, SenderStreams
<1> QED
  BY <1>0, <1>1 DEF InFlight

(* A sender that still has frames of a file has not been passed.            *)
LEMMA BatchIsNotPassed ==
  ASSUME Given, spc = "send", batch # <<>>, rpc \in Session
  PROVE  FirstPending(cur) /\ rfile <= cur /\ rpc # "finalizing" /\ (rpc = "awaitSum" => rfile < cur)
<1>0. Typed /\ Parts
  BY GivenParts
<1>n. cur \in Nat /\ rfile \in Nat /\ Files \subseteq Nat /\ cur \in Files /\ cur <= NumFiles
  BY <1>0, NumbersTyped DEF Typed, FileTyped, Files
<1>1. FirstPending(cur)
  BY <1>0 DEF Parts, CurrentIsFirst, InFile
<1>2. rfile <= cur
  <2>1. cur < rfile => cur \in st.done
    BY <1>0, <1>n DEF Parts, PassedIsDone, Active, Talking
  <2> QED
    BY <1>1, <1>n, <2>1 DEF FirstPending
<1>3. rpc \in {"finalizing", "awaitSum"} => rfile # cur
  <2> SUFFICES ASSUME rpc \in {"finalizing", "awaitSum"}, rfile = cur PROVE FALSE
    OBVIOUS
  <2>1. PICK x \in Range(batch) : TRUE
    BY <1>0, RangeIsIndexed DEF Typed, FileTyped, Frames
  <2>2. x[1] \in Nat /\ x[1] >= 1 /\ x[1] <= src[cur].len
    BY <1>0, <2>1, NumbersTyped DEF Parts, BatchIsOfFile, InFile, FrameOf
  <2>3. seen = 1..src[cur].len
    BY <1>0 DEF Parts, SeenIsKept
  <2>4. src[cur].len \in Nat
    BY <1>0, <1>n DEF Typed, SourceTyped, Source, Lens
  <2>5. x[1] \in seen
    BY <2>2, <2>3, <2>4
  <2>6. x[1] < x[1]
    BY <1>0, <2>1, <2>5 DEF Parts, SeenIsBehind, AtFile
  <2> QED
    BY <2>2, <2>6
<1>4. rpc # "finalizing"
  <2> SUFFICES ASSUME rpc = "finalizing" PROVE FALSE
    OBVIOUS
  <2>1. rfile < cur /\ rfile \in Files
    BY <1>2, <1>3, <1>n DEF Given, IInv, ReceiverIsSomewhere
  <2>2. rfile \in st.done /\ rfile \notin info.done
    BY <1>0, <1>1, <2>1 DEF FirstPending, Parts, DoneAgrees, AtFile
  <2> QED
    BY <1>0, <2>1, <2>2 DEF Parts, DoneAgrees, Session, Ahead
<1> QED
  BY <1>1, <1>2, <1>3, <1>4, <1>n

(* A new file is opened with nothing in flight, and so is one finished.     *)
LEMMA NothingFlies ==
  ASSUME Given, SenderStep, ~Reconnect, OpenFile \/ FileIsDone, rpc \in Session
  PROVE  InFlight = {} /\ InFlight' = {}
<1>1. InFlight = {}
  BY GivenParts, DoneIsPassed DEF Parts, SeenIsBehind, OpenFile
<1>2. ~(FlushBatch /\ up)
  BY DEF OpenFile, FlushBatch, FileIsDone, RecvChecksum
<1> QED
  BY <1>1, <1>2, SenderFlight

LEMMA SenderKeepsFlightOfCurrent ==
  ASSUME Given, SenderStep, ~Reconnect
  PROVE  FlightIsOfCurrent'
<1>0. Typed /\ FlightIsOfCurrent /\ UNCHANGED <<rpc, rfile>>
  BY GivenParts, Footprints DEF Parts
<1> SUFFICES ASSUME rpc \in Session, InFlight' # {}
             PROVE  /\ FirstPending(cur)' /\ rfile <= cur'
                    /\ rpc # "finalizing" /\ (rpc = "awaitSum" => rfile < cur')
  BY <1>0 DEF FlightIsOfCurrent
<1>1. ~OpenFile /\ ~FileIsDone
  BY NothingFlies
<1>2. cur' = cur /\ st'.done = st.done
  BY <1>1, SenderMoves, SenderState
<1>3. CASE FlushBatch /\ up
  BY <1>2, <1>3, BatchIsNotPassed DEF FlushBatch, FirstPending
<1>4. CASE ~(FlushBatch /\ up)
  BY <1>0, <1>2, <1>4, SenderFlight DEF FlightIsOfCurrent, FirstPending
<1> QED
  BY <1>3, <1>4

LEMMA SenderKeepsFlightSound ==
  ASSUME Given, SenderStep, ~Reconnect
  PROVE  FlightIsSound'
<1>0. Typed /\ FlightIsSound /\ BatchIsOfFile /\ UNCHANGED <<src, rpc>>
  BY GivenParts, Footprints DEF Parts
<1> SUFFICES ASSUME rpc \in Session, NEW x \in InFlight'
             PROVE  /\ FrameOf(x, cur)' /\ x[1] < pos'
                    /\ spc' = "send" => \A y \in Range(batch') : Before(x, y)
  BY <1>0 DEF FlightIsSound
<1>1. ~OpenFile /\ ~FileIsDone
  BY NothingFlies
<1>2. cur' = cur
  BY <1>1, SenderMoves
<1>3. CASE FlushBatch /\ up
  <2>1. /\ spc = "send" /\ spc' = "flushing" /\ UNCHANGED <<cur, pos>>
    BY <1>3 DEF FlushBatch, Raise, fileVars
  <2>2. x \in InFlight \/ x \in Range(batch)
    BY <1>3, SenderFlight
  <2> QED
    BY <1>0, <2>1, <2>2 DEF FlightIsSound, BatchIsOfFile, InFile, FrameOf
<1>4. CASE ~(FlushBatch /\ up)
  <2>0. x \in InFlight /\ x \in Frame
    BY <1>0, <1>4, SenderFlight, NumbersTyped
  <2>1. CASE ReadChunk
    <3>1. /\ pos' = pos \/ pos' = pos + 1
          /\ spc = "send"
          /\ spc' = "send" => batch' = batch \/ batch' = Append(batch, <<pos, src[cur].ver>>)
      BY <2>1 DEF ReadChunk, Raise
    <3>2. FrameOf(x, cur) /\ x[1] < pos /\ \A y \in Range(batch) : Before(x, y)
      BY <1>0, <2>0, <3>1 DEF FlightIsSound
    <3>3. x[1] < pos'
      BY <1>0, <2>0, <3>1, <3>2, NumbersTyped
    <3>4. spc' = "send" => Range(batch') \subseteq Range(batch) \cup {<<pos, src[cur].ver>>}
      <4>1. ASSUME batch' = Append(batch, <<pos, src[cur].ver>>)
            PROVE  Range(batch') \subseteq Range(batch) \cup {<<pos, src[cur].ver>>}
        <5>1. batch \in Seq(Frame)
          BY <1>0 DEF Typed, FileTyped, Frames
        <5>2. Range(Append(batch, <<pos, src[cur].ver>>)) \subseteq Range(batch) \cup {<<pos, src[cur].ver>>}
          BY <5>1, RangeOfAnyAppend
        <5> QED
          BY <4>1, <5>2
      <4> QED
        BY <3>1, <4>1
    <3>5. Before(x, <<pos, src[cur].ver>>)
      BY <3>2 DEF Before
    <3> QED
      BY <1>0, <1>2, <3>2, <3>3, <3>4, <3>5 DEF FrameOf
  <2>2. CASE ~ReadChunk
    <3>1. pos' = pos /\ (spc' = "send" => batch' = <<>>)
      BY <1>1, <2>2
         DEF SenderStep, SendInfo, RecvReady, OpenFile, SendComplete, FlushBatch, BatchAcked,
             SendChecksum, RecvChecksum, HandleError, StateWritten, ReconnectFails, SenderExits,
             fileVars, Raise, AfterError
    <3>2. Range(<<>>) = {}
      BY EmptyQueue
    <3> QED
      BY <1>0, <1>2, <2>0, <3>1, <3>2 DEF FlightIsSound, FrameOf
  <2> QED
    BY <2>1, <2>2
<1> QED
  BY <1>3, <1>4

LEMMA SenderKeepsRising ==
  ASSUME Given, SenderStep, ~Reconnect
  PROVE  FlightIsRising'
<1>0. Typed /\ FlightIsRising /\ FlightIsSound /\ BatchIsOfFile /\ UNCHANGED <<rpc, rstream>>
  BY GivenParts, Footprints DEF Parts
<1> SUFFICES ASSUME rpc \in Session
             PROVE  /\ RisingStreams(unis') /\ \A s \in Range(unis') : s # <<>>
                    /\ rpc = "recv" =>
                         Rising(rstream) /\ \A x \in Range(rstream), y \in Flat(unis') : Before(x, y)
  BY <1>0 DEF FlightIsRising
<1>1. CASE unis' = unis
  BY <1>0, <1>1 DEF FlightIsRising
<1>2. CASE FlushBatch /\ up /\ spc = "send" /\ unis' = Append(unis, batch) /\ batch # <<>>
  <2>1. unis \in Streams /\ batch \in Frames /\ Rising(batch) /\ RisingStreams(unis)
    BY <1>0, <1>2 DEF Typed, NetTyped, FileTyped, BatchIsOfFile, InFile, FlightIsRising
  <2>2. \A x \in InFlight, y \in Range(batch) : Before(x, y)
    BY <1>0, <1>2 DEF FlightIsSound
  <2>3. RisingStreams(unis')
    BY <1>2, <2>1, <2>2, RisingStreamsQueue DEF InFlight
  <2>4. Range(unis') = Range(unis) \cup {batch} /\ Flat(unis') = Flat(unis) \cup Range(batch)
    BY <1>2, <2>1, RangeOfAppend, FlatOfQueue DEF Streams
  <2> QED
    BY <1>0, <1>2, <2>2, <2>3, <2>4 DEF FlightIsRising, InFlight
<1>3. CASE LessStreams(unis, unis')
  <2>1. Range(unis') \subseteq Range(unis) /\ RisingStreams(unis') /\ Flat(unis') \subseteq Flat(unis)
    BY <1>0, <1>3 DEF LessStreams, FlightIsRising, Flat
  <2> QED
    BY <1>0, <2>1 DEF FlightIsRising
<1> QED
  BY <1>1, <1>2, <1>3, SenderStreams

LEMMA SenderKeepsSeenBehind ==
  ASSUME Given, SenderStep, ~Reconnect
  PROVE  SeenIsBehind'
<1>0. Typed /\ Typed' /\ SeenIsBehind /\ UNCHANGED <<rpc, rfile, seen>>
  BY GivenParts, Footprints DEF Parts
<1>1. ASSUME rpc \in AtFile, rfile = cur', NEW i \in seen
      PROVE  /\ \A x \in InFlight' : i < x[1]
             /\ spc' \in {"send", "flushing"} => i < pos'
             /\ spc' = "send" => \A x \in Range(batch') : i < x[1]
  <2>1. ~OpenFile
    <3> SUFFICES ASSUME OpenFile PROVE FALSE
      OBVIOUS
    <3>1. cur' \notin st.done /\ spc = "next"
      <4>1. cur' = NextFile(st) /\ NextFile(st) # 0 /\ spc = "next" /\ st \in State
        BY <1>0 DEF OpenFile, Typed, StateTyped
      <4> QED
        BY <4>1, NextFileIsPending
    <3> QED
      BY <1>0, <1>1, <3>1 DEF SeenIsBehind, Active, Talking, InFile
  <2>2. cur' = cur
    BY <2>1, SenderMoves
  <2>3. /\ \A x \in InFlight : i < x[1]
        /\ spc \in {"send", "flushing"} => i < pos
        /\ spc = "send" => \A x \in Range(batch) : i < x[1]
    BY <1>0, <1>1, <2>2 DEF SeenIsBehind
  <2>4. \A x \in InFlight' : i < x[1]
    BY <2>3, SenderFlight DEF FlushBatch
  <2>5. CASE ReadChunk
    <3>1. /\ pos' = pos \/ pos' = pos + 1
          /\ spc = "send"
          /\ spc' = "send" => batch' = batch \/ batch' = Append(batch, <<pos, src[cur].ver>>)
          /\ spc' # "flushing"
      BY <2>5 DEF ReadChunk, Raise
    <3>2. i < pos'
      BY <1>0, <1>1, <2>3, <3>1, NumbersTyped
    <3>3. ASSUME batch' = Append(batch, <<pos, src[cur].ver>>)
          PROVE  Range(batch') \subseteq Range(batch) \cup {<<pos, src[cur].ver>>}
      <4>1. batch \in Seq(Frame)
        BY <1>0 DEF Typed, FileTyped, Frames
      <4>2. Range(Append(batch, <<pos, src[cur].ver>>)) \subseteq Range(batch) \cup {<<pos, src[cur].ver>>}
        BY <4>1, RangeOfAnyAppend
      <4> QED
        BY <3>3, <4>2
    <3> QED
      BY <2>3, <2>4, <3>1, <3>2, <3>3
  <2>6. CASE ~ReadChunk
    <3>1. /\ pos' = pos
          /\ spc' \in {"send", "flushing"} => spc \in {"send", "flushing"}
          /\ spc' = "send" => batch' = <<>>
      BY <2>1, <2>6
         DEF SenderStep, SendInfo, RecvReady, OpenFile, SendComplete, FlushBatch, BatchAcked,
             SendChecksum, RecvChecksum, HandleError, StateWritten, ReconnectFails, SenderExits,
             fileVars, Raise, AfterError
    <3>2. Range(<<>>) = {}
      BY EmptyQueue
    <3> QED
      BY <2>3, <2>4, <3>1, <3>2
  <2> QED
    BY <2>5, <2>6
<1>2. ASSUME spc' \in Active, rpc \in AtFile, rfile \notin st'.done, ~(spc' \in InFile /\ rfile = cur')
      PROVE  seen = {}
  <2>1. ~(SendInfo /\ up)
    BY <1>2, OfferIsAlone DEF AtFile
  <2>2. spc \in Active /\ (spc = "awaitSum" => FileIsDone) /\ st.done \subseteq st'.done
    BY <1>2, <2>1, SenderStays, SenderState
  <2>3. ~(spc \in InFile /\ rfile = cur)
    <3>1. CASE FileIsDone
      BY <1>2, <3>1, SenderState
    <3>2. CASE ~FileIsDone
      <4>1. spc \in InFile => spc' \in InFile /\ cur' = cur
        BY <1>2, <2>2, <3>2, SenderMoves
           DEF InFile, Active, Talking, SendInfo, RecvReady, OpenFile
      <4> QED
        BY <1>2, <4>1
    <3> QED
      BY <3>1, <3>2
  <2> QED
    BY <1>0, <1>2, <2>2, <2>3 DEF SeenIsBehind
<1>3. ASSUME spc' \in {"awaitReady", "next"}, rpc \in Session PROVE InFlight' = {}
  <2>1. ~(SendInfo /\ up)
    BY <1>3, OfferIsAlone DEF Session
  <2>2. CASE FileIsDone
    BY <1>3, <2>2, NothingFlies
  <2>3. CASE ~FileIsDone
    <3>1. RecvReady
      BY <1>3, <2>1, <2>3, SenderMoves, SenderStays DEF Active, Talking
    <3>2. InFlight = {} /\ ~(FlushBatch /\ up)
      BY <1>0, <1>3, <3>1 DEF RecvReady, SeenIsBehind, FlushBatch
    <3> QED
      BY <3>2, SenderFlight
  <2> QED
    BY <2>2, <2>3
<1> QED
  BY <1>0, <1>1, <1>2, <1>3 DEF SeenIsBehind

(* A checksum of the whole file, chunk by chunk, is the file.               *)
LEMMA SumIsWhole ==
  ASSUME NEW S, NEW q \in Seq(S), NEW n \in Nat, Len(q) = n, NEW v, \A k \in 1..n : q[k] = v
  PROVE  q = [i \in 1..n |-> v]
<1>1. q \in [1..n -> S]
  BY LenProperties
<1> QED
  BY <1>1

LEMMA SenderKeepsDone ==
  ASSUME Given, SenderStep, ~Reconnect
  PROVE  DoneIsDelivered'
<1>0. /\ Typed /\ DoneIsDelivered /\ FinalsAreWhole /\ BatchIsOfFile /\ SizesAreTrue
      /\ UNCHANGED <<src, final>>
  BY GivenParts, Footprints DEF Parts
<1>1. saved'.st.done \subseteq st.done \cup saved.st.done
  <2>1. saved' = saved \/ saved'.st = FreshState \/ saved'.st = st
    <3>1. saved' = saved \/ HandleError \/ SendComplete \/ StateWritten
      BY DEF SenderStep, SendInfo, RecvReady, OpenFile, ReadChunk, FlushBatch, BatchAcked,
         SendChecksum, RecvChecksum, ReconnectFails, SenderExits, stateVars
    <3>2. HandleError \/ SendComplete \/ StateWritten => saved' = saved \/ saved'.st = FreshState \/ saved'.st = st
      BY DEF HandleError, SendComplete, StateWritten, NoStateFile
    <3> QED
      BY <3>1, <3>2
  <2> QED
    BY <1>0, <2>1, StateUpdates DEF Typed, StateTyped
<1>2. CASE FileIsDone
  <2>1. /\ st'.done = st.done \cup {cur} /\ verified' = [verified EXCEPT ![cur] = sum]
        /\ final[cur] # NoFile /\ spc = "awaitSum" /\ spc' = "next"
    BY <1>2, SenderState, DoneIsPassed DEF FileIsDone
  <2>2. sum = Whole(cur)
    <3>1. /\ slen = src[cur].len /\ pos = slen + 1 /\ Len(sum) = pos - 1
          /\ \A k \in 1..Len(sum) : sum[k] = src[cur].ver
      BY <1>0, <2>1 DEF SizesAreTrue, BatchIsOfFile, InFile
    <3>2. Len(sum) = src[cur].len /\ src[cur].len \in Nat
      <4>1. slen \in Nat /\ pos \in Nat
        BY <1>0, NumbersTyped
      <4>2. slen = src[cur].len /\ pos = slen + 1 /\ Len(sum) = pos - 1
        BY <3>1
      <4>3. pos - 1 = slen
        BY ONLY <4>1, <4>2
      <4> QED
        BY ONLY <4>1, <4>2, <4>3
    <3>3. sum \in Seq(Versions)
      BY <1>0 DEF Typed, FileTyped, Hashed
    <3> QED
      BY <3>1, <3>2, <3>3, SumIsWhole DEF Whole
  <2>3. final[cur] = Whole(cur) /\ cur \in Files
    BY <1>0, <2>1 DEF FinalsAreWhole, Typed, FileTyped
  <2>4. verified'[cur] = Whole(cur) /\ \A f \in Files : f # cur => verified'[f] = verified[f]
    BY <1>0, <2>1, <2>2 DEF Typed, FileTyped
  <2>5. st.done \subseteq Files /\ saved.st.done \subseteq Files
    BY <1>0 DEF Typed, StateTyped, State, StateFile
  <2>6. \A f \in st'.done \cup saved'.st.done : final[f] = Whole(f) /\ verified'[f] = Whole(f)
    BY <1>0, <1>1, <2>1, <2>3, <2>4, <2>5 DEF DoneIsDelivered
  <2> QED
    BY <1>0, <2>1, <2>6 DEF DoneIsDelivered, Whole
<1>3. CASE ~FileIsDone
  <2>1. verified' = verified /\ st'.done = st.done
    BY <1>3, SenderMoves, SenderState
  <2>2. spc' = "ok" => Files \subseteq st.done
    BY <1>0, SenderMoves, NextFileIsPending
       DEF SendComplete, SenderExits, DoneIsDelivered, Typed, StateTyped
  <2> QED
    BY <1>0, <1>1, <2>1, <2>2 DEF DoneIsDelivered, Whole
<1> QED
  BY <1>2, <1>3

LEMMA SenderKeepsDisk ==
  ASSUME Given, SenderStep, ~Reconnect
  PROVE  PartialsAreSound' /\ FinalsAreWhole' /\ WritersAreSound' /\ SeenIsKept'
<1>0. /\ PartialsAreSound /\ FinalsAreWhole /\ WritersAreSound /\ SeenIsKept
      /\ UNCHANGED <<src, rpc, rfile, seen, buf, epoch, writers, partial, final>>
  BY GivenParts, Footprints DEF Parts
<1>1. PartialsAreSound' /\ FinalsAreWhole'
  BY <1>0 DEF PartialsAreSound, FinalsAreWhole, Whole
<1>2. WritersAreSound' /\ SeenIsKept'
  BY <1>0 DEF WritersAreSound, SeenIsKept, FrameOf, Written, OnTheWay
<1> QED
  BY <1>1, <1>2

LEMMA SenderStepDelivers ==
  ASSUME Given, SenderStep, ~Reconnect
  PROVE  Delivering'
<1>1. SenderKnows'
  BY SenderKeepsSizes, SenderKeepsNoClaims, SenderKeepsFresh, SenderKeepsFirst, SenderKeepsBatch
     DEF SenderKnows
<1>2. TheyAgree'
  BY SenderKeepsOffers, SenderKeepsSums, SenderKeepsSession, SenderKeepsAgreement, SenderKeepsPassed,
     SenderKeepsAnswers DEF TheyAgree
<1>3. NothingLost'
  BY SenderKeepsFlightOfCurrent, SenderKeepsFlightSound, SenderKeepsRising, SenderKeepsSeenBehind
     DEF NothingLost
<1>4. DiskIsSound'
  BY SenderKeepsDisk, SenderKeepsDone DEF DiskIsSound
<1> QED
  BY <1>1, <1>2, <1>3, <1>4 DEF Delivering

-----------------------------------------------------------------------------
(* A new connection starts from nothing.                                    *)

LEMMA NewConnectionDelivers ==
  ASSUME Given, Connect, spc' = "start", UNCHANGED <<diskVars, verified>>,
         KnowsSource(st)', KnowsSource(saved.st)',
         NothingClaimed(st', {}), NothingClaimed(saved'.st, {}),
         st'.done \cup saved'.st.done \subseteq st.done \cup saved.st.done
  PROVE  Delivering'
<1>0. Typed /\ Parts /\ UNCHANGED <<src, writers, partial, final, verified>>
  BY GivenParts DEF diskVars
<1>1. up' /\ toR' = <<>> /\ toS' = <<>> /\ unis' = <<>> /\ rpc' = "info"
  BY DEF Connect
<1>2. Len(<<>>) = 0 /\ Range(<<>>) = {} /\ Answered(<<>>) = {}
  BY EmptyQueue, AnsweredQueue, QueuesTyped
<1>3. SenderKnows'
  BY <1>1 DEF SenderKnows, SizesAreTrue, NoClaims, RetriesAreFresh, CurrentIsFirst, BatchIsOfFile,
              Active, Talking, InFile, Session, NothingClaimed
<1>4. TheyAgree'
  BY <1>1, <1>2 DEF TheyAgree, OffersAreTrue, SumsAreOfCurrent, SessionIsOpen, DoneAgrees, PassedIsDone,
                    AnswersAreInOrder, Active, Talking, Session, AtFile
<1>5. NothingLost'
  BY <1>1 DEF NothingLost, FlightIsOfCurrent, FlightIsSound, FlightIsRising, SeenIsBehind,
              Session, AtFile
<1>6. PartialsAreSound' /\ FinalsAreWhole' /\ WritersAreSound' /\ SeenIsKept'
  BY <1>0, <1>1 DEF Parts, PartialsAreSound, FinalsAreWhole, Whole, WritersAreSound, FrameOf, SeenIsKept
<1>7. DoneIsDelivered'
  BY <1>0 DEF Parts, DoneIsDelivered, Whole
<1> QED
  BY <1>3, <1>4, <1>5, <1>6, <1>7 DEF Delivering, DiskIsSound

LEMMA ConnectingSteps ==
  ASSUME Given, Reconnect \/ LaunchSend \/ LaunchResume
  PROVE  Delivering'
<1>0. Typed /\ SizesAreTrue /\ NoClaims /\ UNCHANGED src
  BY GivenParts DEF Parts
<1>1. KnowsSource(FreshState) /\ NothingClaimed(FreshState, {}) /\ FreshState.done = {}
  BY StateUpdates, FreshStateTyped DEF KnowsSource, NothingClaimed
<1>2. /\ Connect /\ spc' = "start" /\ UNCHANGED <<diskVars, verified>>
      /\ st' \in {saved.st, FreshState} \/ (st' = st /\ spc = "backoff")
      /\ saved'.st \in {saved.st, FreshState}
  BY DEF Reconnect, LaunchSend, LaunchResume, NoStateFile
<1>3. Lengths' = Lengths
  BY <1>0 DEF Lengths
<1>4. KnowsSource(st)' /\ KnowsSource(saved.st)'
  BY <1>0, <1>1, <1>2, <1>3 DEF SizesAreTrue, KnowsSource
<1>5. NothingClaimed(st', {}) /\ NothingClaimed(saved'.st, {})
  BY <1>0, <1>1, <1>2 DEF NoClaims
<1>6. st'.done \cup saved'.st.done \subseteq st.done \cup saved.st.done
  BY <1>1, <1>2
<1> QED
  BY <1>2, <1>4, <1>5, <1>6, NewConnectionDelivers

-----------------------------------------------------------------------------
(* A connection lost, a process ended or a receiver that goes back to       *)
(* accept: what remains of the exchange is less of the same.                *)

LEMMA LessIsLeft ==
  ASSUME NetTyped, NetTyped', Loses
  PROVE  /\ Answered(toS') \subseteq Answered(toS)
         /\ toS = <<>> => toS' = <<>>
         /\ unis = <<>> => unis' = <<>>
         /\ Flat(unis') \subseteq Flat(unis)
<1>1. Answered(toS') \subseteq Answered(toS)
  BY TruncatedIsNothing DEF Loses, Less, Answered
<1>2. toS = <<>> => toS' = <<>>
  <2> SUFFICES ASSUME toS = <<>> PROVE toS' = <<>>
    OBVIOUS
  <2>1. Len(toS) = 0
    BY EmptyQueue
  <2>2. Len(toS') <= 0
    BY <2>1, Zenon DEF Loses, Less
  <2>3. Len(toS') \in Nat /\ toS' \in Seq(Message)
    BY LenProperties DEF NetTyped, Channel
  <2>4. \A n \in Nat : n <= 0 => n = 0
    OBVIOUS
  <2>5. Len(toS') = 0
    BY <2>2, <2>3, <2>4, Zenon
  <2> QED
    BY <2>3, <2>5, EmptySeq
<1>3. unis = <<>> => unis' = <<>>
  BY EmptyQueue, RangeIsIndexed DEF Loses, LessStreams, NetTyped, Streams
<1>4. Flat(unis') \subseteq Flat(unis)
  BY DEF Loses, LessStreams, Flat
<1> QED
  BY <1>1, <1>2, <1>3, <1>4

LEMMA OneLeft ==
  ASSUME NEW q \in Channel, NEW r \in Channel, Less(q, r), Len(q) = 1, r # <<>>
  PROVE  Len(r) = 1
<1>1. Len(r) <= 1
  BY Zenon DEF Less
<1>2. Len(r) \in Nat /\ Len(r) # 0
  BY EmptySeq, LenProperties DEF Channel
<1>3. \A n \in Nat : n # 0 /\ n <= 1 => n = 1
  OBVIOUS
<1> QED
  BY <1>1, <1>2, <1>3, Zenon

(* A file of the source can be told from no file.                           *)
LEMMA WholeIsAFile ==
  ASSUME SourceTyped, NEW f \in Files
  PROVE  /\ src[f].len \in Nat /\ src[f].ver \in Versions
         /\ Whole(f) \in Content /\ Whole(f) # NoFile
         /\ Len(Whole(f)) = src[f].len /\ \A k \in 1..src[f].len : Whole(f)[k] = src[f].ver
<1>1. src[f].len \in Nat /\ src[f].ver \in Versions
  BY DEF SourceTyped, Source, Lens
<1>2. Whole(f) \in [1..src[f].len -> Versions \cup {Hole}]
  BY <1>1 DEF Whole
<1>3. Whole(f) \in Content
  BY <1>1, <1>2, SeqDef DEF Content
<1>4. Len(Whole(f)) = src[f].len
  BY <1>1, <1>2, <1>3, LenProperties DEF Content
<1>5. \A k \in 1..src[f].len : Whole(f)[k] = src[f].ver
  BY DEF Whole
<1> QED
  BY <1>1, <1>3, <1>4, <1>5, NoFileIsNoContent

(* The files stay what they are, and what has its final name keeps it.      *)
DiskStaysSound ==
  /\ PartialsAreSound' /\ FinalsAreWhole'
  /\ \A f \in Files : final[f] # NoFile => final'[f] # NoFile

LEMMA UntouchedDiskStaysSound ==
  ASSUME Given, UNCHANGED <<partial, final>>
  PROVE  DiskStaysSound
BY GivenParts DEF DiskStaysSound, Parts, PartialsAreSound, FinalsAreWhole, Whole

(* What counts as done stays delivered on such a disk.                      *)
LEMMA DoneStaysDelivered ==
  ASSUME Given, DiskStaysSound, UNCHANGED <<st, saved, verified>>, spc' = "ok" => spc = "ok"
  PROVE  DoneIsDelivered'
<1>0. Typed /\ SourceTyped /\ Parts /\ UNCHANGED src
  BY GivenParts DEF Typed
<1>1. st.done \subseteq Files /\ saved.st.done \subseteq Files
  BY <1>0 DEF Typed, StateTyped, State, StateFile
<1>2. \A f \in st.done \cup saved.st.done : final'[f] = Whole(f)
  <2> TAKE f \in st.done \cup saved.st.done
  <2>1. final[f] = Whole(f) /\ f \in Files
    BY <1>0, <1>1 DEF Parts, DoneIsDelivered
  <2>2. final'[f] # NoFile
    BY <1>0, <2>1, WholeIsAFile DEF DiskStaysSound
  <2> QED
    BY <1>0, <2>1, <2>2 DEF DiskStaysSound, FinalsAreWhole, Whole
<1> QED
  BY <1>0, <1>2 DEF Parts, DoneIsDelivered, Whole

LEMMA LossDelivers ==
  ASSUME Given, Loses, DiskStaysSound,
         UNCHANGED <<src, st, saved, cur, pos, slen, sum, batch, verified, info, rfile, seen, rstream,
                     buf, epoch>>,
         spc' = spc \/ spc' = "interrupted",
         \/ UNCHANGED <<rpc, writers, partial>> /\ WritersAreSound'
         \/ rpc' \in {"accept", "dead"} /\ WritersAreSound' /\ (rpc = "info" => toR' = <<>>)
  PROVE  Delivering'
<1>0. /\ Typed /\ Typed' /\ Parts /\ NetTyped /\ NetTyped'
      /\ ~up' /\ Less(toR, toR') /\ Less(toS, toS') /\ LessStreams(unis, unis')
  BY GivenParts DEF Typed, Loses
<1>l. /\ Answered(toS') \subseteq Answered(toS) /\ (toS = <<>> => toS' = <<>>)
      /\ (unis = <<>> => unis' = <<>>) /\ Flat(unis') \subseteq Flat(unis)
  BY <1>0, LessIsLeft
<1>r. /\ rpc' \in Session => rpc' = rpc
      /\ rpc' \in AtFile => rpc' = rpc
      /\ rpc' = "info" => rpc = "info"
      /\ InFlight' \subseteq InFlight
  BY <1>l DEF Session, AtFile, InFlight
<1>s. /\ \A S \in {Talking, Active, InFile, {"start", "awaitReady", "saving", "backoff"},
                   {"send", "flushing"}, {"awaitReady", "next"}} : spc' \in S => spc' = spc
      /\ spc' \in {"next", "send", "ok", "awaitSum"} => spc' = spc
  BY DEF Active, Talking, InFile
<1>1. SizesAreTrue' /\ NoClaims' /\ RetriesAreFresh'
  <2>1. SizesAreTrue'
    BY <1>0, <1>r, <1>s DEF Parts, SizesAreTrue, KnowsSource, Lengths
  <2>2. NoClaims'
    BY <1>0, <1>r, <1>s DEF Parts, NoClaims, NothingClaimed
  <2>3. RetriesAreFresh'
    BY <1>0 DEF RetriesAreFresh
  <2> QED
    BY <2>1, <2>2, <2>3
<1>2. CurrentIsFirst' /\ BatchIsOfFile'
  BY <1>0, <1>s DEF Parts, CurrentIsFirst, FirstPending, BatchIsOfFile, FrameOf
<1>3. OffersAreTrue'
  <2> SUFFICES ASSUME NEW m \in Range(toR'), m.type = "TransferInfo" PROVE Offered(m)'
    BY DEF OffersAreTrue
  <2>1. m \in Range(toR)
    BY <1>0, TruncatedIsNothing DEF Less
  <2>2. Offered(m)
    BY <1>0, <2>1 DEF Parts, OffersAreTrue
  <2>3. toR' # <<>>
    BY EmptyQueue
  <2>4. Len(toR') = 1
    BY <1>0, <2>2, <2>3, OneLeft DEF Offered, NetTyped
  <2>5. rpc' = "info" /\ toS' = <<>>
    BY <1>l, <2>2, <2>3 DEF Offered
  <2> QED
    BY <1>s, <2>2, <2>4, <2>5 DEF Offered, Lengths, Talking
<1>4. SumsAreOfCurrent'
  <2>1. \A m \in Range(toR') : m \in Range(toR) \/ (~IsSum(m) /\ m.type # "Complete")
    BY <1>0, TruncatedIsNothing DEF Less
  <2> QED
    BY <1>0, <1>s, <2>1 DEF Parts, SumsAreOfCurrent
<1>5. SessionIsOpen' /\ DoneAgrees' /\ PassedIsDone'
  BY <1>0, <1>l, <1>r, <1>s DEF Parts, SessionIsOpen, DoneAgrees, Ahead, PassedIsDone, Session, AtFile
<1>6. AnswersAreInOrder'
  <2>1. \A g \in Answered(toS') : final'[g] # NoFile /\ (rpc' \in Session => Passed(g)')
    <3>1. Answered(toS) \subseteq Files
      BY <1>0, AnsweredQueue DEF NetTyped
    <3> QED
      BY <1>0, <1>l, <1>r, <3>1 DEF Parts, AnswersAreInOrder, Passed, DiskStaysSound
  <2>2. spc' \in Active => InOrder(toS', st'.done)
    <3>1. st.done \in SUBSET Files
      BY <1>0 DEF Typed, StateTyped, State
    <3> QED
      BY <1>0, <1>s, <3>1 DEF Parts, AnswersAreInOrder, Less
  <2> QED
    BY <1>0, <2>1, <2>2 DEF AnswersAreInOrder
<1>7. FlightIsOfCurrent' /\ FlightIsSound'
  BY <1>0, <1>r, <1>s DEF Parts, FlightIsOfCurrent, FlightIsSound, FirstPending, FrameOf
<1>8. FlightIsRising'
  BY <1>0, <1>l, <1>r DEF Parts, FlightIsRising, LessStreams
<1>9. SeenIsBehind'
  BY <1>0, <1>r, <1>s DEF Parts, SeenIsBehind, Active, Talking, InFile
<1>10. PartialsAreSound' /\ FinalsAreWhole' /\ WritersAreSound'
  BY DEF DiskStaysSound
<1>11. SeenIsKept'
  <2>1. CASE UNCHANGED <<rpc, writers, partial>>
    BY <1>0, <2>1 DEF Parts, SeenIsKept, FrameOf, Written, OnTheWay
  <2>2. CASE rpc' \in {"accept", "dead"}
    BY <2>2 DEF SeenIsKept
  <2> QED
    BY <2>1, <2>2
<1>12. DoneIsDelivered'
  BY <1>s, DoneStaysDelivered
<1> QED
  BY <1>1, <1>2, <1>3, <1>4, <1>5, <1>6, <1>7, <1>8, <1>9, <1>10, <1>11, <1>12
     DEF Delivering, SenderKnows, TheyAgree, NothingLost, DiskIsSound

LEMMA NoWriterIsSound ==
  /\ Range(NoWriter.todo) = {} /\ Flat(NoWriter.queue) = {} /\ ~NoWriter.finished
  /\ (\A e \in Epochs : writers'[e] = NoWriter) => WritersAreSound'
<1>1. Range(NoWriter.todo) = {} /\ Flat(NoWriter.queue) = {} /\ ~NoWriter.finished
  BY EmptyQueue DEF NoWriter
<1> QED
  BY <1>1 DEF WritersAreSound

(* The receiver ends, with what it was doing.                               *)
LEMMA ExitDelivers ==
  ASSUME Given, Exit, DiskStaysSound, UNCHANGED <<src, spc, stateVars, fileVars, verified>>
  PROVE  Delivering'
<1>1. Loses
  BY GivenTypes, LosingSteps DEF Typed
<1>2. WritersAreSound'
  BY NoWriterIsSound DEF Exit
<1> QED
  BY <1>1, <1>2, LossDelivers DEF Exit, stateVars, fileVars

LEMMA FatalDelivers ==
  ASSUME Given, Fatal, UNCHANGED <<src, spc, stateVars, fileVars, verified>>
  PROVE  Delivering'
BY UntouchedDiskStaysSound, ExitDelivers DEF Fatal

(* The receiver leaves a connection that is gone for the next one.          *)
LEMMA DisconnectDelivers ==
  ASSUME Given, PeerDisconnected, ~up, rpc = "info" => toR = <<>>, epoch \in Epochs, UNCHANGED receiverKeeps
  PROVE  Delivering'
<1>0. Typed /\ WritersAreSound /\ UNCHANGED <<src, final, netVars>>
  BY GivenParts DEF Parts, PeerDisconnected
<1>1. Loses
  BY <1>0, LessItself DEF Loses, Typed, NetTyped, netVars
<1>2. WritersAreSound'
  <2>1. ASSUME NEW e \in Epochs
        PROVE  \/ writers'[e] = NoWriter
               \/ /\ writers'[e].todo = writers[e].todo /\ writers'[e].queue = writers[e].queue
                  /\ writers'[e].file = writers[e].file /\ writers'[e].finished = writers[e].finished
    <3>1. writers[epoch] \in Writer /\ writers \in [Epochs -> Writer]
      BY <1>0 DEF Typed, DiskTyped
    <3> DEFINE w == [writers[epoch] EXCEPT !.open = FALSE]
    <3>2. /\ w.todo = writers[epoch].todo /\ w.queue = writers[epoch].queue
          /\ w.file = writers[epoch].file /\ w.finished = writers[epoch].finished
      BY <3>1 DEF Writer
    <3>3. writers'[e] = IF e = epoch THEN (IF rpc = "recv" THEN w ELSE NoWriter) ELSE writers[e]
      BY <3>1 DEF PeerDisconnected
    <3> HIDE DEF w
    <3> QED
      BY <3>2, <3>3
  <2> QED
    BY <1>0, <2>1, NoWriterIsSound DEF WritersAreSound, FrameOf
<1> QED
  BY <1>0, <1>1, <1>2, UntouchedDiskStaysSound, LossDelivers
     DEF PeerDisconnected, receiverKeeps, stateVars, fileVars, netVars

LEMMA LosingStepsDeliver ==
  ASSUME Given, Interrupt \/ Drop \/ AcceptFails \/ ReceiverCrash \/ RestartReceiver
  PROVE  Delivering'
<1>0. Typed /\ NetTyped /\ Parts
  BY GivenParts DEF Typed
<1>1. CASE AcceptFails \/ ReceiverCrash
  BY <1>1, FatalDelivers DEF AcceptFails, ReceiverCrash, receiverKeeps
<1>2. CASE Interrupt \/ Drop \/ RestartReceiver
  <2>1. UNCHANGED diskVars
    BY <1>2 DEF Interrupt, Drop, RestartReceiver
  <2>2. DiskStaysSound
    BY <2>1, UntouchedDiskStaysSound DEF diskVars
  <2>3. WritersAreSound'
    BY <1>0, <2>1, GivenParts DEF diskVars, Parts, WritersAreSound, FrameOf
  <2>4. CASE Interrupt \/ Drop
    BY <1>0, <2>1, <2>2, <2>3, <2>4, LosingSteps, LossDelivers
       DEF Interrupt, Drop, stateVars, fileVars, recvVars, diskVars
  <2>5. CASE RestartReceiver
    <3>1. ~up /\ rpc = "dead"
      BY <1>0, <2>5 DEF RestartReceiver, Parts, RetriesAreFresh
    <3>2. Loses
      BY <1>0, <2>5, <3>1, LessItself DEF RestartReceiver, Loses, NetTyped, netVars
    <3> QED
      BY <2>2, <2>3, <2>5, <3>1, <3>2, LossDelivers DEF RestartReceiver, stateVars, fileVars
  <2> QED
    BY <1>2, <2>4, <2>5
<1> QED
  BY <1>1, <1>2

-----------------------------------------------------------------------------
(* What the receiver's steps leave of the invariant.                        *)

SenderRests == UNCHANGED <<src, spc, st, saved, err, cur, pos, slen, sum, batch, verified>>

LEMMA ReceiverRests ==
  UNCHANGED receiverKeeps => SenderRests
BY DEF receiverKeeps, SenderRests, stateVars, fileVars

(* A step inside the session leaves what it is not about.                   *)
LEMMA SessionStepKeeps ==
  ASSUME Given, SenderRests, UNCHANGED <<up, info, final>>, rpc \in Session, rpc' \in Session,
         Range(toR') \subseteq Range(toR), InFlight' \subseteq InFlight
  PROVE  /\ SenderKnows' /\ OffersAreTrue' /\ SumsAreOfCurrent' /\ SessionIsOpen'
         /\ FlightIsSound' /\ FinalsAreWhole' /\ DoneIsDelivered'
<1>0. Typed /\ Parts
  BY GivenParts
<1>1. SizesAreTrue' /\ NoClaims' /\ CurrentIsFirst' /\ BatchIsOfFile'
  BY <1>0 DEF SenderRests, Parts, SizesAreTrue, NoClaims, CurrentIsFirst, FirstPending, BatchIsOfFile,
              FrameOf, KnowsSource, Lengths, NothingClaimed
<1>2. RetriesAreFresh'
  BY <1>0 DEF SenderRests, Parts, RetriesAreFresh, Session
<1>3. OffersAreTrue'
  BY <1>0 DEF Parts, OffersAreTrue, Offered, Session
<1>4. SumsAreOfCurrent'
  BY <1>0 DEF SenderRests, Parts, SumsAreOfCurrent
<1>5. SessionIsOpen'
  BY <1>0 DEF SessionIsOpen, Session
<1>6. FlightIsSound'
  BY <1>0 DEF SenderRests, Parts, FlightIsSound, FrameOf
<1>7. FinalsAreWhole' /\ DoneIsDelivered'
  BY <1>0 DEF SenderRests, Parts, FinalsAreWhole, DoneIsDelivered, Whole
<1> QED
  BY <1>1, <1>2, <1>3, <1>4, <1>5, <1>6, <1>7 DEF SenderKnows

(* Between two files the receiver has nothing of the current one yet.       *)
LEMMA SkipFileDelivers ==
  ASSUME Given, SkipFile
  PROVE  Delivering'
<1>0. Typed /\ Parts
  BY GivenParts
<1>n. cur \in Nat /\ rfile \in Nat /\ Files \subseteq Nat /\ cur \in Files
  BY <1>0, NumbersTyped DEF Typed, FileTyped
<1>1. CASE Fatal
  BY <1>1, FatalDelivers DEF SkipFile, receiverKeeps
<1>2. CASE ~Fatal
  <2>1. /\ rpc = "file" /\ rpc' = "file" /\ rfile \in info.done /\ rfile' = rfile + 1
        /\ UNCHANGED <<info, seen, rstream, buf, epoch, up, toR, toS, unis, writers, partial, final>>
        /\ SenderRests
    BY <1>2, ReceiverRests DEF SkipFile, netVars, diskVars
  <2>2. InFlight' = InFlight /\ rpc \in Session /\ rpc' \in Session
    BY <2>1 DEF InFlight, Session
  <2>3. rfile \in st.done /\ rfile \in Files
    <3>1. rfile \in Files
      BY <1>0, <2>1 DEF Typed, ReceiverTyped, Manifest
    <3> QED
      BY <1>0, <2>1, <2>2, <3>1 DEF Parts, DoneAgrees, Ahead
  <2>4. DoneAgrees'
    <3>1. \A g \in Files : Ahead(g)' => Ahead(g)
      BY <1>n, <2>1 DEF Ahead
    <3> QED
      BY <1>0, <2>1, <2>2, <3>1 DEF Parts, DoneAgrees, SenderRests, AtFile
  <2>5. PassedIsDone'
    <3>1. \A g \in Files : g < rfile' => g < rfile \/ g = rfile
      <4>1. rfile' = rfile + 1
        BY <2>1
      <4>2. \A g, n \in Nat : g < n + 1 => g < n \/ g = n
        OBVIOUS
      <4> QED
        BY <1>n, <4>1, <4>2
    <3> QED
      BY <1>0, <2>1, <2>2, <2>3, <3>1 DEF Parts, PassedIsDone, SenderRests
  <2>6. AnswersAreInOrder'
    <3>0. \A g \in Files : /\ g < rfile => g < rfile'
                           /\ g < rfile' => g < rfile \/ g = rfile
      <4>1. rfile' = rfile + 1
        BY <2>1
      <4>2. \A g, n \in Nat : (g < n => g < n + 1) /\ (g < n + 1 => g < n \/ g = n)
        OBVIOUS
      <4> QED
        BY <1>n, <4>1, <4>2
    <3>1. /\ \A g \in Files : Passed(g) => Passed(g)'
          /\ \A g \in Files : Passed(g)' => Passed(g) \/ g = rfile
      BY <3>0, <2>1 DEF Passed
    <3>2. Answered(toS) \subseteq Files
      BY <1>0, AnsweredQueue DEF Typed, NetTyped
    <3> QED
      BY <1>0, <2>1, <2>2, <2>3, <3>1, <3>2 DEF Parts, AnswersAreInOrder, SenderRests
  <2>7. FlightIsOfCurrent'
    <3> SUFFICES ASSUME InFlight # {}
                 PROVE  FirstPending(cur) /\ rfile + 1 <= cur
      BY <2>1, <2>2 DEF FlightIsOfCurrent, SenderRests, FirstPending
    <3>1. FirstPending(cur) /\ rfile <= cur
      BY <1>0, <2>2 DEF Parts, FlightIsOfCurrent
    <3> QED
      BY <1>n, <2>3, <3>1 DEF FirstPending
  <2>8. FlightIsRising' /\ SeenIsBehind'
    BY <1>0, <2>1, <2>2 DEF Parts, FlightIsRising, SeenIsBehind, SenderRests, AtFile
  <2>9. PartialsAreSound' /\ WritersAreSound' /\ SeenIsKept'
    BY <1>0, <2>1 DEF Parts, PartialsAreSound, WritersAreSound, SeenIsKept, SenderRests, FrameOf
  <2> QED
    BY <2>1, <2>2, <2>4, <2>5, <2>6, <2>7, <2>8, <2>9, SessionStepKeeps
       DEF Delivering, TheyAgree, NothingLost, DiskIsSound
<1> QED
  BY <1>1, <1>2

LEMMA LastFileDelivers ==
  ASSUME Given, LastFileDone
  PROVE  Delivering'
<1>0. Typed /\ Parts
  BY GivenParts
<1>1. /\ rpc = "file" /\ rpc' = "complete" /\ rfile > NumFiles
      /\ UNCHANGED <<info, rfile, seen, rstream, buf, epoch, up, toR, toS, unis, writers, partial, final>>
      /\ SenderRests
  BY ReceiverRests DEF LastFileDone, netVars, diskVars
<1>2. InFlight' = InFlight /\ rpc \in Session /\ rpc' \in Session
  BY <1>1 DEF InFlight, Session
<1>3. DoneAgrees' /\ PassedIsDone' /\ AnswersAreInOrder'
  BY <1>0, <1>1, <1>2
     DEF Parts, DoneAgrees, Ahead, PassedIsDone, AnswersAreInOrder, Passed, SenderRests, AtFile
<1>4. FlightIsOfCurrent' /\ FlightIsRising' /\ SeenIsBehind'
  BY <1>0, <1>1, <1>2
     DEF Parts, FlightIsOfCurrent, FirstPending, FlightIsRising, SeenIsBehind, SenderRests, AtFile
<1>5. PartialsAreSound' /\ WritersAreSound' /\ SeenIsKept'
  BY <1>0, <1>1 DEF Parts, PartialsAreSound, WritersAreSound, SeenIsKept, SenderRests, FrameOf
<1> QED
  BY <1>1, <1>2, <1>3, <1>4, <1>5, SessionStepKeeps DEF Delivering, TheyAgree, NothingLost, DiskIsSound

(* Inside a file the two agree on the same files as before it.              *)
LEMMA FileStepKeeps ==
  ASSUME Given, SenderRests, UNCHANGED <<up, info, final, toS, rfile>>,
         rpc \in {"file", "recv"}, rpc' \in {"recv", "finalizing"}, rfile \notin info.done
  PROVE  DoneAgrees' /\ PassedIsDone' /\ AnswersAreInOrder'
<1>0. Parts
  BY GivenParts
<1> QED
  BY <1>0 DEF Parts, DoneAgrees, Ahead, PassedIsDone, AnswersAreInOrder, Passed, SenderRests, Session, AtFile

LEMMA TruncateKeeps ==
  ASSUME NEW c \in Content, NEW n \in Nat, NEW T, \A k \in 1..Len(c) : c[k] \in T
  PROVE  /\ Len(Truncate(c, n)) <= n
         /\ \A k \in 1..Len(Truncate(c, n)) : Truncate(c, n)[k] \in T
<1>1. Len(c) \in Nat
  BY LenProperties DEF Content
<1>2. CASE Len(c) > n
  <2>1. n \in 0..Len(c) /\ 1..n \subseteq 1..Len(c)
    BY <1>1, <1>2
  <2>2. Len(SubSeq(c, 1, n)) = n /\ \A k \in 1..n : SubSeq(c, 1, n)[k] = c[k]
    BY <2>1, RangeOfPrefix DEF Content
  <2>3. Truncate(c, n) = SubSeq(c, 1, n)
    BY <1>2 DEF Truncate
  <2> QED
    BY <2>1, <2>2, <2>3
<1>3. CASE ~(Len(c) > n)
  <2>1. Truncate(c, n) = c
    BY <1>3 DEF Truncate
  <2> QED
    BY <1>1, <1>3, <2>1
<1> QED
  BY <1>2, <1>3

LEMMA StartFileDelivers ==
  ASSUME Given, StartFile
  PROVE  Delivering'
<1>0. Typed /\ Typed' /\ Parts
  BY GivenParts
<1>1. /\ rpc = "file" /\ rpc' = "recv" /\ rfile \in Files /\ rfile \notin info.done
      /\ seen' = {} /\ rstream' = <<>> /\ buf' = <<>>
      /\ UNCHANGED <<info, rfile, epoch, up, toR, toS, unis, final>> /\ OpenWriter(rfile)
      /\ SenderRests
  BY <1>0, ReceiverRests DEF StartFile, netVars, Typed, ReceiverTyped, Files
<1>2. Range(<<>>) = {} /\ Flat(<<>>) = {} /\ Rising(<<>>) /\ Len(<<>>) = 0
  BY EmptyQueue
<1>3. InFlight' = InFlight /\ rpc \in Session /\ rpc' \in Session
  BY <1>1, <1>2 DEF InFlight, Session
<1>4. DoneAgrees' /\ PassedIsDone' /\ AnswersAreInOrder'
  BY <1>1, FileStepKeeps
<1>5. FlightIsOfCurrent' /\ FlightIsRising' /\ SeenIsBehind'
  BY <1>0, <1>1, <1>2, <1>3
     DEF Parts, FlightIsOfCurrent, FirstPending, FlightIsRising, SeenIsBehind, SenderRests
<1>6. PartialsAreSound'
  <2> SUFFICES ASSUME NEW f \in Files, partial'[f] # NoFile
               PROVE  /\ Len(partial'[f]) <= src[f].len
                      /\ \A k \in 1..Len(partial'[f]) : partial'[f][k] \in {Hole, src[f].ver}
    BY <1>1 DEF PartialsAreSound, SenderRests
  <2>1. CASE f # rfile
    BY <1>0, <1>1, <2>1 DEF OpenWriter, Typed, DiskTyped, Parts, PartialsAreSound
  <2>2. CASE f = rfile
    <3>1. info.size[rfile] = src[f].len /\ src[f].len \in Nat
      BY <1>0, <1>3, <2>2 DEF Parts, SizesAreTrue, Lengths, Typed, SourceTyped, Source, Lens
    <3>2. partial'[f] = <<>> \/ (partial[f] # NoFile /\ partial'[f] = Truncate(partial[f], src[f].len))
      BY <1>0, <1>1, <2>2, <3>1 DEF OpenWriter, Typed, DiskTyped
    <3>3. CASE partial'[f] = <<>>
      BY <1>2, <3>1, <3>3
    <3>4. CASE partial[f] # NoFile /\ partial'[f] = Truncate(partial[f], src[f].len)
      <4>1. partial[f] \in Content /\ \A k \in 1..Len(partial[f]) : partial[f][k] \in {Hole, src[f].ver}
        BY <1>0, <3>4 DEF Typed, DiskTyped, Parts, PartialsAreSound
      <4> QED
        BY <3>1, <3>4, <4>1, TruncateKeeps
    <3> QED
      BY <3>2, <3>3, <3>4
  <2> QED
    BY <2>1, <2>2
<1>7. /\ writers'[epoch].file = rfile /\ writers'[epoch].todo = <<>> /\ writers'[epoch].queue = <<>>
      /\ ~writers'[epoch].finished
      /\ \A e \in Epochs : e # epoch => writers'[e] = writers[e]
  <2>1. epoch \in Epochs
    BY <1>1 DEF Given, IInv, ReceiverIsSomewhere
  <2> QED
    BY <1>0, <1>1, <2>1 DEF OpenWriter, NoWriter, Typed, DiskTyped
<1>8. WritersAreSound'
  <2> SUFFICES ASSUME NEW e \in Epochs
               PROVE  /\ \A x \in Range(writers'[e].todo) \cup Flat(writers'[e].queue) :
                           FrameOf(x, writers'[e].file)
                      /\ writers'[e].finished => writers'[e].file \in Files /\ final'[writers'[e].file] # NoFile
    BY <1>1 DEF WritersAreSound, FrameOf, SenderRests
  <2>1. CASE e = epoch
    BY <1>2, <1>7, <2>1
  <2>2. CASE e # epoch
    BY <1>0, <1>1, <1>7, <2>2 DEF Parts, WritersAreSound, FrameOf, SenderRests
  <2> QED
    BY <2>1, <2>2
<1>9. SeenIsKept'
  BY <1>1, <1>2, <1>7 DEF SeenIsKept
<1> QED
  BY <1>1, <1>3, <1>4, <1>5, <1>6, <1>8, <1>9, SessionStepKeeps
     DEF Delivering, TheyAgree, NothingLost, DiskIsSound

(* What reaches the receiver in a file is of that file.                     *)
LEMMA FlightIsOfFile ==
  ASSUME Given, rpc = "recv", InFlight # {}
  PROVE  rfile = cur /\ FirstPending(cur) /\ rfile \notin st.done
<1>0. Typed /\ Parts
  BY GivenParts
<1>1. FirstPending(cur) /\ rfile <= cur
  BY <1>0 DEF Parts, FlightIsOfCurrent, Session
<1>2. rfile \in Files /\ cur \in Files
  BY <1>0 DEF Given, IInv, ReceiverIsSomewhere, Typed, FileTyped
<1>3. rfile \notin info.done /\ Ahead(rfile)
  BY <1>0 DEF Parts, DoneAgrees, AtFile, Ahead
<1>4. rfile \notin st.done
  BY <1>0, <1>2, <1>3 DEF Parts, DoneAgrees, Session
<1> QED
  BY <1>1, <1>2, <1>4 DEF FirstPending, Files

(* A step in the middle of a file: what is seen, buffered or handed to the  *)
(* writer changes.                                                          *)
LEMMA ReceiveStepKeeps ==
  ASSUME Given, SenderRests, UNCHANGED <<up, info, final, toR, toS, rfile, epoch, partial>>,
         rpc = "recv", rpc' = "recv", InFlight' \subseteq InFlight,
         FlightIsRising', WritersAreSound', SeenIsKept',
         \A i \in seen' : i \in seen \/ /\ \A x \in InFlight' : i < x[1]
                                        /\ \E x \in InFlight : i = x[1]
  PROVE  Delivering'
<1>0. Typed /\ Parts
  BY GivenParts
<1>1. rpc \in Session /\ rpc' \in Session /\ rpc \in AtFile /\ rfile \notin info.done
  BY <1>0 DEF Session, AtFile, Parts, DoneAgrees
<1>2. DoneAgrees' /\ PassedIsDone' /\ AnswersAreInOrder'
  BY <1>1, FileStepKeeps
<1>3. FlightIsOfCurrent'
  BY <1>0, <1>1 DEF Parts, FlightIsOfCurrent, FirstPending, SenderRests
<1>4. SeenIsBehind'
  <2>1. ASSUME rfile = cur, NEW i \in seen'
        PROVE  /\ \A x \in InFlight' : i < x[1]
               /\ spc \in {"send", "flushing"} => i < pos
               /\ spc = "send" => \A x \in Range(batch) : i < x[1]
    <3>1. CASE i \in seen
      BY <1>0, <1>1, <2>1, <3>1 DEF Parts, SeenIsBehind
    <3>2. CASE /\ \A x \in InFlight' : i < x[1]
               /\ \E x \in InFlight : i = x[1]
      BY <1>0, <1>1, <3>2 DEF Parts, FlightIsSound, Before
    <3> QED
      BY <2>1, <3>1, <3>2
  <2>2. ASSUME spc \in Active, rfile \notin st.done, ~(spc \in InFile /\ rfile = cur) PROVE seen' = {}
    <3>1. seen = {}
      BY <1>0, <1>1, <2>2 DEF Parts, SeenIsBehind
    <3>2. InFlight = {}
      <4>1. InFlight # {} => spc \in {"awaitReady", "next"}
        BY <2>2, FlightIsOfFile DEF Active, Talking, InFile
      <4> QED
        BY <1>0, <1>1, <4>1 DEF Parts, SeenIsBehind
    <3> QED
      BY <3>1, <3>2
  <2>3. spc \in {"awaitReady", "next"} => InFlight' = {}
    BY <1>0, <1>1 DEF Parts, SeenIsBehind
  <2> QED
    BY <1>1, <2>1, <2>2, <2>3 DEF SeenIsBehind, SenderRests
<1>5. PartialsAreSound'
  BY <1>0 DEF Parts, PartialsAreSound, SenderRests
<1> QED
  BY <1>1, <1>2, <1>3, <1>4, <1>5, SessionStepKeeps DEF Delivering, TheyAgree, NothingLost, DiskIsSound

LEMMA HandedToWriter ==
  ASSUME Given, NEW frames \in Frames, HandToWriter(frames), rpc = "recv",
         UNCHANGED <<src, final, epoch>>, \A x \in Range(frames) : FrameOf(x, rfile)
  PROVE  /\ WritersAreSound' /\ writers'[epoch].file = rfile
         /\ OnTheWay' = OnTheWay \cup Range(frames)
<1>0. Typed /\ Parts /\ epoch \in Epochs
  BY GivenParts DEF Given, IInv, ReceiverIsSomewhere
<1>1. writers[epoch] \in Writer /\ writers \in [Epochs -> Writer]
  BY <1>0 DEF Typed, DiskTyped
<1>2. writers[epoch].queue \in Streams
  BY <1>1, WriterFields
<1>3. Flat(Append(writers[epoch].queue, frames)) = Flat(writers[epoch].queue) \cup Range(frames)
  BY <1>2, FlatOfQueue
<1>4. /\ writers'[epoch].todo = writers[epoch].todo
      /\ writers'[epoch].queue = Append(writers[epoch].queue, frames)
      /\ writers'[epoch].file = writers[epoch].file
      /\ writers'[epoch].finished = writers[epoch].finished
      /\ \A e \in Epochs : e # epoch => writers'[e] = writers[e]
  BY <1>0, <1>1 DEF HandToWriter, Writer
<1>5. writers[epoch].file = rfile
  BY <1>0 DEF Parts, SeenIsKept
<1>6. ASSUME NEW e \in Epochs
      PROVE  /\ \A x \in Range(writers'[e].todo) \cup Flat(writers'[e].queue) : FrameOf(x, writers'[e].file)
             /\ writers'[e].finished => writers'[e].file \in Files /\ final'[writers'[e].file] # NoFile
  <2>1. CASE e = epoch
    BY <1>0, <1>3, <1>4, <1>5, <2>1 DEF Parts, WritersAreSound
  <2>2. CASE e # epoch
    BY <1>0, <1>4, <2>2 DEF Parts, WritersAreSound
  <2> QED
    BY <2>1, <2>2
<1>7. WritersAreSound'
  BY <1>6 DEF WritersAreSound, FrameOf
<1>8. OnTheWay' = OnTheWay \cup Range(frames)
  BY <1>3, <1>4 DEF OnTheWay
<1> QED
  BY <1>4, <1>5, <1>7, <1>8

LEMMA AcceptUniDelivers ==
  ASSUME Given, AcceptUni
  PROVE  Delivering'
<1>0. Typed /\ Parts /\ epoch \in Epochs
  BY GivenParts DEF Given, IInv, ReceiverIsSomewhere, AcceptUni
<1>1. CASE PeerDisconnected /\ ~up
  BY <1>0, <1>1, DisconnectDelivers DEF AcceptUni
<1>2. CASE ~(PeerDisconnected /\ ~up)
  <2>1. /\ rpc = "recv" /\ rpc' = "recv" /\ rstream = <<>> /\ unis # <<>>
        /\ rstream' = Head(unis) /\ unis' = Tail(unis)
        /\ UNCHANGED <<info, rfile, seen, buf, epoch, up, toR, toS, writers, partial, final>>
        /\ SenderRests
    BY <1>2, ReceiverRests DEF AcceptUni, diskVars
  <2>2. /\ unis \in Streams /\ RisingStreams(unis) /\ \A s \in Range(unis) : s # <<>>
    BY <1>0, <2>1 DEF Typed, NetTyped, Parts, FlightIsRising, Session
  <2>3. Flat(unis) = Range(Head(unis)) \cup Flat(Tail(unis))
    BY <2>1, <2>2, FlatOfQueue
  <2>4. InFlight' \subseteq InFlight
    BY <2>1, <2>3 DEF InFlight
  <2>5. FlightIsRising'
    <3>1. /\ RisingStreams(Tail(unis)) /\ Rising(Head(unis))
          /\ \A x \in Range(Head(unis)), y \in Flat(Tail(unis)) : Before(x, y)
      BY <2>1, <2>2, RisingStreamsQueue
    <3>2. Range(Tail(unis)) \subseteq Range(unis)
      BY <2>1, <2>2, RangeOfTail DEF Streams
    <3> QED
      BY <2>1, <2>2, <3>1, <3>2 DEF FlightIsRising
  <2>6. WritersAreSound' /\ SeenIsKept'
    BY <1>0, <2>1 DEF Parts, WritersAreSound, SeenIsKept, FrameOf, Written, OnTheWay, SenderRests
  <2> QED
    BY <2>1, <2>4, <2>5, <2>6, ReceiveStepKeeps
<1> QED
  BY <1>1, <1>2

LEMMA FlushRestDelivers ==
  ASSUME Given, FlushRest
  PROVE  Delivering'
<1>0. Typed /\ Parts
  BY GivenParts
<1>1. /\ rpc = "recv" /\ rpc' = "recv" /\ HandToWriter(buf) /\ buf' = <<>>
      /\ UNCHANGED <<info, rfile, seen, rstream, epoch, up, toR, toS, unis, partial, final>>
      /\ SenderRests
  BY ReceiverRests DEF FlushRest, AllReceived, netVars
<1>2. buf \in Frames /\ \A x \in Range(buf) : FrameOf(x, rfile)
  BY <1>0, <1>1 DEF Typed, ReceiverTyped, Parts, SeenIsKept
<1>3. WritersAreSound' /\ writers'[epoch].file = rfile /\ OnTheWay' = OnTheWay \cup Range(buf)
  BY <1>1, <1>2, HandedToWriter DEF SenderRests
<1>4. Range(<<>>) = {}
  BY EmptyQueue
<1>5. SeenIsKept'
  BY <1>0, <1>1, <1>3, <1>4 DEF Parts, SeenIsKept, Written, SenderRests
<1>6. FlightIsRising' /\ InFlight' = InFlight
  BY <1>0, <1>1 DEF Parts, FlightIsRising, InFlight, Session
<1> QED
  BY <1>1, <1>3, <1>5, <1>6, ReceiveStepKeeps

LEMMA RecvFrameDelivers ==
  ASSUME Given, RecvFrame
  PROVE  Delivering'
<1>0. Typed /\ Parts
  BY GivenParts
<1>1. CASE Fatal
  BY <1>1, FatalDelivers DEF RecvFrame, receiverKeeps
<1>2. CASE ~Fatal
  <2> DEFINE x == Head(rstream)
             i == x[1]
             frames == Append(buf, x)
  <2>1. /\ rpc = "recv" /\ rpc' = "recv" /\ rstream # <<>>
        /\ i <= info.size[rfile]
        /\ rstream' = Tail(rstream) /\ seen' = seen \cup {i}
        /\ \/ i \in seen /\ UNCHANGED <<buf, writers>>
           \/ buf' = frames /\ UNCHANGED writers
           \/ HandToWriter(frames) /\ buf' = <<>>
        /\ UNCHANGED <<info, rfile, epoch, up, toR, toS, unis, partial, final>>
        /\ SenderRests
    BY <1>2, ReceiverRests DEF RecvFrame, netVars
  <2>2. rstream \in Frames /\ buf \in Frames /\ x \in Frame /\ Rising(rstream)
    BY <1>0, <2>1, QueuesTyped DEF Typed, ReceiverTyped, Parts, FlightIsRising, Session
  <2>3. Range(rstream) = {x} \cup Range(Tail(rstream))
    BY <2>1, <2>2, RangeOfTail DEF Frames
  <2>4. x \in InFlight /\ InFlight' = Flat(unis) \cup Range(Tail(rstream)) /\ InFlight' \subseteq InFlight
    BY <2>1, <2>3 DEF InFlight
  <2>5. Rising(Tail(rstream)) /\ \A y \in Range(Tail(rstream)) : Before(x, y)
    BY <2>1, <2>2, RisingQueue
  <2>6. \A y \in InFlight' : i < y[1]
    <3>1. \A y \in Flat(unis) : Before(x, y)
      BY <1>0, <2>1, <2>3 DEF Parts, FlightIsRising, Session
    <3> QED
      BY <2>4, <2>5, <3>1 DEF Before
  <2>7. FrameOf(x, rfile) /\ i \in Nat /\ i >= 1 /\ src[rfile].len \in Nat
    <3>1. rfile = cur
      BY <2>1, <2>4, FlightIsOfFile
    <3>2. FrameOf(x, cur)
      BY <1>0, <2>1, <2>4 DEF Parts, FlightIsSound, Session
    <3>3. src[cur].len \in Nat
      BY <1>0 DEF Typed, FileTyped, SourceTyped, Source, Lens
    <3> QED
      BY <1>0, <2>2, <3>1, <3>2, <3>3, NumbersTyped
  <2>8. frames \in Frames /\ Range(frames) = Range(buf) \cup {x}
    BY <2>2, QueuesTyped, RangeOfAppend DEF Frames
  <2>9. \A y \in Range(frames) : FrameOf(y, rfile)
    BY <1>0, <2>1, <2>7, <2>8 DEF Parts, SeenIsKept
  <2>10. FlightIsRising'
    BY <1>0, <2>1, <2>3, <2>5 DEF Parts, FlightIsRising, Session
  <2>11. seen' \subseteq 1..src[rfile].len
    BY <1>0, <2>1, <2>7 DEF Parts, SeenIsKept, FrameOf
  <2>12. i \in Indices(Range(frames)) /\ \A S, T : Indices(S \cup T) = Indices(S) \cup Indices(T)
    BY <2>8 DEF Indices
  <2> HIDE DEF x, i, frames
  <2>13. WritersAreSound' /\ SeenIsKept'
    <3>1. CASE i \in seen /\ UNCHANGED <<buf, writers>>
      <4>1. WritersAreSound'
        BY <1>0, <2>1, <3>1 DEF Parts, WritersAreSound, FrameOf, SenderRests
      <4>2. OnTheWay' = OnTheWay /\ Written(rfile)' = Written(rfile) /\ seen' = seen
        BY <2>1, <3>1 DEF OnTheWay, Written, SenderRests
      <4>3. writers'[epoch].file = rfile /\ seen \subseteq Written(rfile) \cup Indices(OnTheWay \cup Range(buf))
        BY <1>0, <2>1, <3>1 DEF Parts, SeenIsKept
      <4>4. \A y \in Range(buf') : FrameOf(y, rfile)'
        BY <1>0, <2>1, <3>1 DEF Parts, SeenIsKept, FrameOf, SenderRests
      <4> QED
        BY <2>1, <2>11, <3>1, <4>1, <4>2, <4>3, <4>4 DEF SeenIsKept, SenderRests
    <3>2. CASE buf' = frames /\ UNCHANGED writers
      <4>1. WritersAreSound'
        BY <1>0, <2>1, <3>2 DEF Parts, WritersAreSound, FrameOf, SenderRests
      <4>2. OnTheWay' = OnTheWay /\ Written(rfile)' = Written(rfile)
        BY <2>1, <3>2 DEF OnTheWay, Written, SenderRests
      <4>3. Indices(OnTheWay \cup Range(frames)) = Indices(OnTheWay \cup Range(buf)) \cup {i}
        BY <2>8, <2>12 DEF Indices, i
      <4>4. seen' \subseteq Written(rfile) \cup Indices(OnTheWay \cup Range(frames))
        BY <1>0, <2>1, <4>3 DEF Parts, SeenIsKept
      <4>5. writers'[epoch].file = rfile
        BY <1>0, <2>1, <3>2 DEF Parts, SeenIsKept
      <4>6. \A y \in Range(buf') : FrameOf(y, rfile)'
        BY <2>1, <2>9, <3>2 DEF FrameOf, SenderRests
      <4> QED
        BY <2>1, <2>11, <3>2, <4>1, <4>2, <4>4, <4>5, <4>6 DEF SeenIsKept, SenderRests
    <3>3. CASE HandToWriter(frames) /\ buf' = <<>>
      <4>1. WritersAreSound' /\ writers'[epoch].file = rfile /\ OnTheWay' = OnTheWay \cup Range(frames)
        BY <2>1, <2>8, <2>9, <3>3, HandedToWriter DEF SenderRests
      <4>2. Written(rfile)' = Written(rfile) /\ Range(<<>>) = {}
        BY <2>1, EmptyQueue DEF Written, SenderRests
      <4>3. Indices(OnTheWay \cup Range(frames)) = Indices(OnTheWay \cup Range(buf)) \cup {i}
        BY <2>8, <2>12 DEF Indices, i
      <4>4. seen' \subseteq Written(rfile) \cup Indices(OnTheWay')
        BY <1>0, <2>1, <4>1, <4>3 DEF Parts, SeenIsKept
      <4> QED
        BY <2>1, <2>11, <3>3, <4>1, <4>2, <4>4 DEF SeenIsKept, SenderRests
    <3> QED
      BY <2>1, <3>1, <3>2, <3>3
  <2>14. \A j \in seen' : j \in seen \/ ((\A y \in InFlight' : j < y[1]) /\ \E y \in InFlight : j = y[1])
    BY <2>1, <2>4, <2>6 DEF i
  <2> QED
    BY <2>1, <2>4, <2>10, <2>13, <2>14, ReceiveStepKeeps
<1> QED
  BY <1>1, <1>2

(* All chunks of the file are seen, and no frame is left.                   *)
LEMMA AllIsReceived ==
  ASSUME Given, AllReceived
  PROVE  seen = 1..src[rfile].len /\ InFlight = {}
<1>0. Typed /\ Parts /\ rpc = "recv" /\ rstream = <<>> /\ rfile \in Files
  BY GivenParts DEF AllReceived, Given, IInv, ReceiverIsSomewhere
<1>1. src[rfile].len \in Nat /\ seen \subseteq 1..src[rfile].len
  BY <1>0 DEF Typed, SourceTyped, Source, Lens, Parts, SeenIsKept
<1>2. seen = 1..src[rfile].len
  <2>1. ToReceive = src[rfile].len
    <3>1. info.size[rfile] = src[rfile].len /\ info.claimFile = 0 /\ rfile # 0
      BY <1>0 DEF Parts, SizesAreTrue, NoClaims, Session, Lengths, Files
    <3> QED
      BY <1>1, <3>1 DEF ToReceive
  <2>2. IsFiniteSet(1..src[rfile].len) /\ Cardinality(1..src[rfile].len) = src[rfile].len
    <3>1. ASSUME NEW n \in Nat
          PROVE  IsFiniteSet(1..n) /\ Cardinality(1..n) = IF 1 > n THEN 0 ELSE n - 1 + 1
      <4>1. 1 \in Int /\ n \in Int
        OBVIOUS
      <4> QED
        BY <4>1, FS_Interval, Zenon
    <3>2. \A n \in Nat : (IF 1 > n THEN 0 ELSE n - 1 + 1) = n
      OBVIOUS
    <3> QED
      BY <1>1, <3>1, <3>2
  <2>3. /\ IsFiniteSet(seen) /\ Cardinality(seen) <= src[rfile].len
        /\ Cardinality(seen) = src[rfile].len => seen = 1..src[rfile].len
    BY <1>1, <2>2, FS_Subset
  <2>4. Cardinality(seen) \in Nat
    BY <2>3, FS_CardinalityType
  <2>5. Cardinality(seen) >= src[rfile].len
    BY <2>1 DEF AllReceived
  <2> QED
    BY <1>1, <2>3, <2>4, <2>5
<1>3. InFlight = {}
  <2> SUFFICES ASSUME NEW x \in InFlight PROVE FALSE
    OBVIOUS
  <2>1. rfile = cur
    BY <1>0, FlightIsOfFile
  <2>2. x[1] \in Nat /\ x[1] >= 1
    BY <1>0, NumbersTyped
  <2>3. x[1] <= src[rfile].len
    BY <1>0, <2>1 DEF Parts, FlightIsSound, FrameOf, Session
  <2>4. x[1] \in seen
    BY <1>1, <1>2, <2>2, <2>3
  <2>5. x[1] < x[1]
    BY <1>0, <2>1, <2>4 DEF Parts, SeenIsBehind, AtFile
  <2> QED
    BY <2>2, <2>5
<1> QED
  BY <1>2, <1>3

LEMMA SendFinalizeDelivers ==
  ASSUME Given, SendFinalize
  PROVE  Delivering'
<1>0. Typed /\ Parts /\ epoch \in Epochs
  BY GivenParts DEF Given, IInv, ReceiverIsSomewhere, SendFinalize, AllReceived
<1>1. /\ rpc = "recv" /\ rpc' = "finalizing" /\ buf = <<>> /\ rstream = <<>>
      /\ writers' = [writers EXCEPT ![epoch].fin = TRUE]
      /\ UNCHANGED <<info, rfile, seen, rstream, buf, epoch, up, toR, toS, unis, partial, final>>
      /\ SenderRests
  BY ReceiverRests DEF SendFinalize, AllReceived, netVars
<1>2. seen = 1..src[rfile].len /\ InFlight = {}
  BY AllIsReceived DEF SendFinalize
<1>3. InFlight' = {}
  BY <1>1, <1>2 DEF InFlight
<1>4. \A e \in Epochs : /\ writers'[e].todo = writers[e].todo /\ writers'[e].queue = writers[e].queue
                        /\ writers'[e].file = writers[e].file /\ writers'[e].finished = writers[e].finished
  <2>1. writers[epoch] \in Writer /\ writers \in [Epochs -> Writer]
    BY <1>0 DEF Typed, DiskTyped
  <2>2. /\ writers'[epoch].todo = writers[epoch].todo /\ writers'[epoch].queue = writers[epoch].queue
        /\ writers'[epoch].file = writers[epoch].file /\ writers'[epoch].finished = writers[epoch].finished
        /\ \A e \in Epochs : e # epoch => writers'[e] = writers[e]
    BY <1>0, <1>1, <2>1 DEF Writer
  <2> QED
    BY <2>2
<1>5. DoneAgrees' /\ PassedIsDone' /\ AnswersAreInOrder'
  BY <1>0, <1>1, FileStepKeeps DEF Parts, DoneAgrees, AtFile
<1>6. FlightIsOfCurrent' /\ FlightIsRising'
  BY <1>0, <1>1, <1>3 DEF FlightIsOfCurrent, Parts, FlightIsRising, Session
<1>7. SeenIsBehind'
  BY <1>0, <1>1, <1>3 DEF SeenIsBehind, Parts, SenderRests, AtFile
<1>8. PartialsAreSound' /\ WritersAreSound'
  BY <1>0, <1>1, <1>4 DEF Parts, PartialsAreSound, WritersAreSound, FrameOf, SenderRests
<1>9. SeenIsKept'
  <2>1. OnTheWay' = OnTheWay /\ Written(rfile)' = Written(rfile) /\ Range(<<>>) = {}
    BY <1>0, <1>1, <1>4, EmptyQueue DEF OnTheWay, Written, SenderRests
  <2>2. writers'[epoch].fin /\ writers'[epoch].open
    <3>1. writers[epoch].open
      BY <1>0, <1>1 DEF Given, IInv, WriterHoldsItsFile
    <3>2. writers[epoch] \in Writer /\ writers \in [Epochs -> Writer]
      BY <1>0 DEF Typed, DiskTyped
    <3> QED
      BY <1>0, <1>1, <3>1, <3>2 DEF Writer
  <2> QED
    BY <1>0, <1>1, <1>2, <1>4, <2>1, <2>2 DEF Parts, SeenIsKept, SenderRests
<1>10. InFlight' \subseteq InFlight /\ rpc \in Session /\ rpc' \in Session
  BY <1>1, <1>3 DEF Session
<1> QED
  BY <1>1, <1>5, <1>6, <1>7, <1>8, <1>9, <1>10, SessionStepKeeps
     DEF Delivering, TheyAgree, NothingLost, DiskIsSound

LEMMA SendHashDelivers ==
  ASSUME Given, SendHash
  PROVE  Delivering'
<1>0. Typed /\ Parts /\ epoch \in Epochs /\ rfile \in Files
  BY GivenParts DEF Given, IInv, ReceiverIsSomewhere, SendHash
<1>n. rfile \in Nat /\ Files \subseteq Nat
  BY <1>0, NumbersTyped
<1>1. CASE Fatal
  BY <1>1, FatalDelivers DEF SendHash, receiverKeeps
<1>2. CASE ~Fatal
  <2> DEFINE m == Checksum(rfile, writers[epoch].hash)
  <2>1. /\ rpc = "finalizing" /\ rpc' = "awaitSum" /\ up /\ writers[epoch].finished
        /\ toS' = Append(toS, m)
        /\ UNCHANGED <<info, rfile, seen, rstream, buf, epoch, up, toR, unis, writers, partial, final>>
        /\ SenderRests
    BY <1>2, ReceiverRests DEF SendHash, diskVars
  <2>2. m \in Message /\ IsSum(m) /\ m.file = rfile
    <3>1. writers[epoch].hash \in Content
      BY <1>0, WriterFields DEF Typed, DiskTyped
    <3> QED
      BY <1>0, <3>1, MessagesTyped DEF Checksum, IsSum
  <2> HIDE DEF m
  <2>3. toS \in Channel /\ Answered(toS') = Answered(toS) \cup {rfile} /\ Answered(toS) \subseteq Files
    BY <1>0, <2>1, <2>2, AnsweredQueue DEF Typed, NetTyped
  <2>4. final[rfile] # NoFile
    BY <1>0, <2>1 DEF Parts, WritersAreSound, SeenIsKept
  <2>5. rpc \in Session /\ rpc' \in Session /\ rpc \in AtFile /\ rpc' \in AtFile
        /\ InFlight = {} /\ InFlight' = InFlight
    BY <1>0, <2>1 DEF Session, AtFile, Parts, FlightIsOfCurrent, InFlight
  <2>6. rfile \notin info.done /\ rfile \notin st.done
    BY <1>0, <2>1, <2>5 DEF Parts, DoneAgrees, Ahead
  <2>7. \A g \in Files : (Passed(g) <=> g < rfile) /\ (Passed(g)' <=> g < rfile \/ g = rfile)
    BY <2>1 DEF Passed
  <2>8. DoneAgrees' /\ PassedIsDone'
    BY <1>0, <2>1, <2>5 DEF Parts, DoneAgrees, Ahead, PassedIsDone, SenderRests
  <2>9. AnswersAreInOrder'
    <3>1. \A g \in Answered(toS') : final'[g] # NoFile /\ (rpc' \in Session => Passed(g)')
      BY <1>0, <2>1, <2>3, <2>4, <2>5, <2>7 DEF Parts, AnswersAreInOrder
    <3>2. spc \in Active => InOrder(toS', st.done)
      <4> SUFFICES ASSUME spc \in Active PROVE InOrder(toS', st.done)
        OBVIOUS
      <4>1. InOrder(toS, st.done)
        BY <1>0 DEF Parts, AnswersAreInOrder
      <4>2. \A g \in Files : g < rfile => g \in st.done \cup Answered(toS)
        BY <1>0, <2>1, <2>5, <2>7 DEF Parts, AnswersAreInOrder
      <4>3. \A g \in Answered(toS) : g < rfile
        BY <1>0, <2>3, <2>5, <2>7 DEF Parts, AnswersAreInOrder
      <4> QED
        BY <2>1, <2>2, <2>3, <2>6, <4>1, <4>2, <4>3, InOrderAppend
    <3>3. up /\ spc \in Active => \A g \in Files : Passed(g)' => g \in st.done \cup Answered(toS')
      BY <1>0, <2>3, <2>5, <2>7 DEF Parts, AnswersAreInOrder
    <3> QED
      BY <2>1, <3>1, <3>2, <3>3 DEF AnswersAreInOrder, SenderRests
  <2>10. FlightIsOfCurrent' /\ FlightIsRising'
    BY <1>0, <2>1, <2>5 DEF Parts, FlightIsOfCurrent, FlightIsRising
  <2>11. SeenIsBehind'
    BY <1>0, <2>1, <2>5 DEF Parts, SeenIsBehind, SenderRests
  <2>12. PartialsAreSound' /\ WritersAreSound' /\ SeenIsKept'
    BY <1>0, <2>1 DEF Parts, PartialsAreSound, WritersAreSound, SeenIsKept, FrameOf, SenderRests
  <2> QED
    BY <2>1, <2>5, <2>8, <2>9, <2>10, <2>11, <2>12, SessionStepKeeps
       DEF Delivering, TheyAgree, NothingLost, DiskIsSound
<1> QED
  BY <1>1, <1>2

LEMMA CompareHashDelivers ==
  ASSUME Given, CompareHash
  PROVE  Delivering'
<1>0. Typed /\ Parts /\ epoch \in Epochs /\ rfile \in Files
  BY GivenParts DEF Given, IInv, ReceiverIsSomewhere, CompareHash
<1>n. rfile \in Nat /\ Files \subseteq Nat /\ cur \in Nat
  BY <1>0, NumbersTyped
<1>1. CASE Fatal
  BY <1>1, FatalDelivers DEF CompareHash, receiverKeeps
<1>2. CASE ~Fatal
  <2>1. /\ rpc = "awaitSum" /\ rpc' = "file" /\ rfile' = rfile + 1
        /\ toR # <<>> /\ IsSum(Head(toR)) /\ Head(toR).file = rfile /\ toR' = Tail(toR)
        /\ writers' = [writers EXCEPT ![epoch] = NoWriter]
        /\ UNCHANGED <<info, seen, rstream, buf, epoch, up, toS, unis, partial, final>>
        /\ SenderRests
    BY <1>2, ReceiverRests DEF CompareHash, IsSum
  <2>2. Head(toR) \in Range(toR) /\ Range(toR') \subseteq Range(toR)
    BY <1>0, <2>1, RangeOfTail DEF Typed, NetTyped, Channel
  <2>3. rpc \in Session /\ rpc' \in Session /\ rpc' \notin AtFile /\ InFlight' = InFlight
    BY <2>1 DEF Session, AtFile, InFlight
  <2>4. spc \in Active => rfile \in st.done \/ (spc = "awaitSum" /\ rfile = cur)
    BY <1>0, <1>n, <2>1, <2>2 DEF Parts, SumsAreOfCurrent
  <2>5. DoneAgrees'
    <3>0. rpc = "awaitSum" /\ rfile' = rfile + 1
      BY <2>1
    <3>1. \A g \in Nat : Ahead(g)' => Ahead(g)
      BY <1>n, <3>0 DEF Ahead
    <3> QED
      BY <1>0, <1>n, <2>1, <2>3, <3>1 DEF Parts, DoneAgrees, SenderRests
  <2>6. PassedIsDone'
    <3>1. \A g \in Files : g < rfile' => g < rfile \/ g = rfile
      <4>1. rfile' = rfile + 1
        BY <2>1
      <4>2. \A g, n \in Nat : g < n + 1 => g < n \/ g = n
        OBVIOUS
      <4> QED
        BY <1>n, <4>1, <4>2
    <3> QED
      BY <1>0, <2>1, <2>3, <2>4, <3>1 DEF Parts, PassedIsDone, SenderRests
  <2>7. AnswersAreInOrder'
    <3>0. rpc = "awaitSum" /\ rpc' = "file" /\ rfile' = rfile + 1
      BY <2>1
    <3>1. \A g \in Files : Passed(g)' <=> Passed(g)
      <4>1. \A g \in Nat : g < rfile + 1 <=> (g < rfile \/ g = rfile)
        BY <1>n
      <4>2. \A g \in Nat : (Passed(g)' <=> g < rfile + 1) /\ (Passed(g) <=> (g < rfile \/ g = rfile))
        BY <3>0 DEF Passed
      <4> QED
        BY <1>n, <4>1, <4>2
    <3>2. Answered(toS) \subseteq Files
      BY <1>0, AnsweredQueue DEF Typed, NetTyped
    <3> QED
      BY <1>0, <2>1, <2>3, <3>1, <3>2 DEF Parts, AnswersAreInOrder, SenderRests
  <2>8. FlightIsOfCurrent'
    <3>1. InFlight # {} => FirstPending(cur) /\ rfile + 1 <= cur
      BY <1>0, <1>n, <2>1, <2>3 DEF Parts, FlightIsOfCurrent
    <3> QED
      BY <2>1, <2>3, <3>1 DEF FlightIsOfCurrent, FirstPending, SenderRests
  <2>9. FlightIsRising' /\ SeenIsBehind'
    BY <1>0, <2>1, <2>3 DEF Parts, FlightIsRising, SeenIsBehind, SenderRests
  <2>10. PartialsAreSound' /\ SeenIsKept'
    BY <1>0, <2>1 DEF Parts, PartialsAreSound, SeenIsKept, SenderRests
  <2>11. WritersAreSound'
    <3>1. \A e \in Epochs : writers'[e] = NoWriter \/ writers'[e] = writers[e]
      BY <1>0, <2>1 DEF Typed, DiskTyped
    <3> QED
      BY <1>0, <2>1, <3>1, NoWriterIsSound DEF Parts, WritersAreSound, FrameOf, SenderRests
  <2> QED
    BY <2>1, <2>2, <2>3, <2>5, <2>6, <2>7, <2>8, <2>9, <2>10, <2>11, SessionStepKeeps
       DEF Delivering, TheyAgree, NothingLost, DiskIsSound
<1> QED
  BY <1>1, <1>2

LEMMA RecvInfoDelivers ==
  ASSUME Given, RecvInfo
  PROVE  Delivering'
<1>0. Typed /\ Typed' /\ Parts
  BY GivenParts
<1>1. CASE Fatal
  BY <1>1, FatalDelivers DEF RecvInfo, receiverKeeps
<1>2. CASE ~Fatal
  <2>1. PICK d \in Decisions :
          /\ rpc = "info" /\ up /\ toR # <<>> /\ Head(toR).type = "TransferInfo"
          /\ toR' = Tail(toR)
          /\ info' = IF d = "Accept" THEN Head(toR).info ELSE info
          /\ rfile' = IF d = "Accept" THEN 1 ELSE rfile
          /\ rpc' = IF d = "Accept" THEN "file" ELSE "info"
          /\ toS' = Append(toS, Plain(IF d = "Accept" THEN "Ready" ELSE "Cancel"))
          /\ UNCHANGED <<up, unis, seen, rstream, buf, epoch, writers, partial, final>>
          /\ SenderRests
    <3>1. UNCHANGED diskVars => UNCHANGED <<writers, partial, final>>
      BY DEF diskVars
    <3> QED
      BY <1>2, <3>1, ReceiverRests, Zenon DEF RecvInfo
  <2>2. Head(toR) \in Range(toR) /\ Offered(Head(toR))
    <3>1. Head(toR) \in Range(toR)
      BY <1>0, <2>1, RangeOfTail DEF Typed, NetTyped, Channel
    <3> QED
      BY <1>0, <2>1, <3>1 DEF Parts, OffersAreTrue
  <2>3. /\ toS = <<>> /\ spc \notin Talking /\ unis = <<>>
        /\ Head(toR).info.size = Lengths /\ Head(toR).info.claimFile = 0 /\ Head(toR).info.done = st.done
    BY <1>0, <2>1, <2>2 DEF Offered, Parts, SessionIsOpen
  <2>4. Range(toR') = {}
    <3>1. Len(toR) = 1 /\ toR \in Seq(Message)
      BY <1>0, <2>2 DEF Offered, Typed, NetTyped, Channel
    <3>2. Tail(toR) \in Seq(Message) /\ Len(Tail(toR)) = Len(toR) - 1
      BY <2>1, <3>1, HeadTailProperties
    <3>3. Len(Tail(toR)) = 0
      BY <3>1, <3>2
    <3>4. Tail(toR) = <<>>
      BY <3>2, <3>3, EmptySeq
    <3> QED
      BY <2>1, <3>4, EmptyQueue
  <2>5. rpc' \in Session => d = "Accept" /\ rpc' = "file"
    BY <2>1 DEF Session
  <2>6. rpc' \notin AtFile /\ rpc' \notin {"complete", "accept", "dead", "recv"}
    BY <2>1 DEF AtFile
  <2> DEFINE t == IF d = "Accept" THEN "Ready" ELSE "Cancel"
  <2>7. Plain(t) \in Message /\ ~IsSum(Plain(t)) /\ Plain(t).type = t
    BY MessagesTyped DEF Plain, IsSum
  <2>8. /\ Range(toS') = {Plain(t)} /\ Answered(toS') = {}
        /\ \A s \in SUBSET Files : InOrder(toS', s)
    <3>1. <<>> \in Channel /\ Range(<<>>) = {} /\ Answered(<<>>) = {} /\ Len(<<>>) = 0
      BY EmptyQueue, QueuesTyped, AnsweredQueue
    <3>2. toS' = Append(<<>>, Plain(t))
      BY <2>1, <2>3
    <3> HIDE DEF t
    <3>3. Range(Append(<<>>, Plain(t))) = Range(<<>>) \cup {Plain(t)}
      BY <2>7, <3>1, RangeOfAppend DEF Channel
    <3>4. Answered(Append(<<>>, Plain(t))) = {}
      BY <2>7, <3>1, <3>3 DEF Answered
    <3>5. \A s : InOrder(<<>>, s)
      BY <3>1 DEF InOrder
    <3>6. \A s \in SUBSET Files : InOrder(Append(<<>>, Plain(t)), s)
      BY <2>7, <3>1, <3>5, InOrderAppend
    <3> QED
      BY <3>1, <3>2, <3>3, <3>4, <3>6
  <2>9. InFlight' = {}
    BY <2>1, <2>3, <2>6, EmptyQueue DEF InFlight
  <2>10. SenderKnows'
    <3>1. SizesAreTrue' /\ NoClaims' /\ CurrentIsFirst' /\ BatchIsOfFile'
      BY <1>0, <2>1, <2>3, <2>5 DEF SenderRests, Parts, SizesAreTrue, NoClaims, CurrentIsFirst, FirstPending,
         BatchIsOfFile, FrameOf, KnowsSource, Lengths, NothingClaimed
    <3>2. RetriesAreFresh'
      BY <1>0, <2>1, <2>6 DEF SenderRests, Parts, RetriesAreFresh
    <3> QED
      BY <3>1, <3>2 DEF SenderKnows
  <2>11. OffersAreTrue' /\ SumsAreOfCurrent'
    BY <2>4 DEF OffersAreTrue, SumsAreOfCurrent
  <2>12. SessionIsOpen'
    <3>1. spc' \notin Talking /\ unis' = <<>>
      BY <2>1, <2>3 DEF SenderRests
    <3>2. (\E m \in Range(toS') : m.type = "Ready") => rpc' \in Session
      BY <2>1, <2>7, <2>8 DEF Session
    <3> QED
      BY <3>1, <3>2 DEF SessionIsOpen
  <2>13. DoneAgrees' /\ PassedIsDone'
    <3>1. rpc' \in Session => info'.done = st'.done /\ \A g \in Files : ~(g < rfile')
      BY <2>1, <2>3, <2>5 DEF SenderRests, Files
    <3> QED
      BY <2>6, <3>1 DEF DoneAgrees, PassedIsDone
  <2>14. AnswersAreInOrder'
    <3>1. rpc' \in Session => \A g \in Files : ~Passed(g)'
      BY <2>1, <2>5 DEF Passed, Files
    <3>2. st'.done \in SUBSET Files
      BY <1>0 DEF Typed, StateTyped, State
    <3> QED
      BY <2>8, <3>1, <3>2 DEF AnswersAreInOrder
  <2>15. NothingLost'
    <3>1. FlightIsOfCurrent' /\ FlightIsSound' /\ SeenIsBehind'
      BY <2>6, <2>9 DEF FlightIsOfCurrent, FlightIsSound, SeenIsBehind
    <3>2. FlightIsRising'
      BY <2>1, <2>3, <2>6, EmptyQueue DEF FlightIsRising
    <3> QED
      BY <3>1, <3>2 DEF NothingLost
  <2>16. DiskIsSound'
    BY <1>0, <2>1, <2>6 DEF Parts, DiskIsSound, PartialsAreSound, FinalsAreWhole, WritersAreSound, SeenIsKept,
       DoneIsDelivered, Whole, FrameOf, SenderRests
  <2> QED
    BY <2>10, <2>11, <2>12, <2>13, <2>14, <2>15, <2>16 DEF Delivering, TheyAgree
<1> QED
  BY <1>1, <1>2

LEMMA RecvCompleteDelivers ==
  ASSUME Given, RecvComplete
  PROVE  Delivering'
<1>0. Typed /\ Parts
  BY GivenParts
<1>1. /\ rpc = "complete" /\ rpc' = "info"
      /\ toR # <<>> /\ Head(toR).type = "Complete" /\ toR' = Tail(toR)
      /\ UNCHANGED <<info, rfile, seen, rstream, buf, epoch, up, toS, unis, writers, partial, final>>
      /\ SenderRests
  BY ReceiverRests DEF RecvComplete, diskVars
<1>2. Head(toR) \in Range(toR) /\ Range(toR') \subseteq Range(toR)
  BY <1>0, <1>1, RangeOfTail DEF Typed, NetTyped, Channel
<1>3. spc \notin Active /\ spc \notin Talking
  BY <1>0, <1>1, <1>2 DEF Parts, SumsAreOfCurrent, Active
<1>4. rpc' \notin Session /\ rpc' \notin AtFile /\ rpc \in Session
  BY <1>1 DEF Session, AtFile
<1>5. unis = <<>>
  <2>1. InFlight = {}
    <3>1. rfile > NumFiles /\ cur \in Files
      BY <1>0, <1>1 DEF Parts, DoneAgrees, Typed, FileTyped
    <3>2. cur \in Nat /\ rfile \in Nat /\ cur <= NumFiles
      BY <1>0, <3>1, NumbersTyped DEF Files
    <3>3. ~(rfile <= cur)
      BY <3>1, <3>2
    <3> QED
      BY <1>0, <1>4, <3>3 DEF Parts, FlightIsOfCurrent
  <2>2. Flat(unis) = {}
    BY <2>1 DEF InFlight
  <2>3. unis \in Streams /\ \A s \in Range(unis) : s # <<>>
    BY <1>0, <1>4 DEF Typed, NetTyped, Parts, FlightIsRising
  <2>4. Range(unis) \subseteq Frames
    BY <2>3, RangeIsIndexed DEF Streams
  <2>5. \A s \in Range(unis) : Range(s) = {}
    BY <2>2 DEF Flat
  <2>6. Range(unis) = {}
    BY <2>3, <2>4, <2>5, RangeIsIndexed DEF Frames
  <2> QED
    BY <2>3, <2>6, RangeIsIndexed DEF Streams
<1>6. SenderKnows'
  <2>1. SizesAreTrue' /\ NoClaims' /\ CurrentIsFirst' /\ BatchIsOfFile'
    BY <1>0, <1>1, <1>4 DEF SenderRests, Parts, SizesAreTrue, NoClaims, CurrentIsFirst, FirstPending,
       BatchIsOfFile, FrameOf, KnowsSource, Lengths, NothingClaimed
  <2>2. RetriesAreFresh'
    BY <1>0, <1>1 DEF SenderRests, Parts, RetriesAreFresh
  <2> QED
    BY <2>1, <2>2 DEF SenderKnows
<1>7. OffersAreTrue' /\ SumsAreOfCurrent'
  BY <1>0, <1>1, <1>2, <1>3 DEF Parts, OffersAreTrue, Offered, SumsAreOfCurrent, SenderRests
<1>8. SessionIsOpen'
  BY <1>1, <1>3, <1>5 DEF SessionIsOpen, SenderRests, Active
<1>9. DoneAgrees' /\ PassedIsDone'
  BY <1>1, <1>4 DEF DoneAgrees, PassedIsDone
<1>10. AnswersAreInOrder'
  BY <1>0, <1>1, <1>3, <1>4 DEF Parts, AnswersAreInOrder, SenderRests
<1>11. NothingLost'
  BY <1>4 DEF NothingLost, FlightIsOfCurrent, FlightIsSound, FlightIsRising, SeenIsBehind
<1>12. DiskIsSound'
  BY <1>0, <1>1 DEF Parts, DiskIsSound, PartialsAreSound, FinalsAreWhole, WritersAreSound, SeenIsKept,
     DoneIsDelivered, Whole, FrameOf, SenderRests
<1> QED
  BY <1>6, <1>7, <1>8, <1>9, <1>10, <1>11, <1>12 DEF Delivering, TheyAgree

LEMMA ReceiverStepDelivers ==
  ASSUME Given, ReceiverStep
  PROVE  Delivering'
<1>1. CASE RecvUnexpected
  BY <1>1, FatalDelivers DEF RecvUnexpected, receiverKeeps
<1>2. CASE RecvDisconnected
  BY <1>2, DisconnectDelivers DEF RecvDisconnected, Given, IInv, ReceiverIsSomewhere
<1> QED
  BY <1>1, <1>2, RecvInfoDelivers, SkipFileDelivers, StartFileDelivers, LastFileDelivers,
     AcceptUniDelivers, RecvFrameDelivers, FlushRestDelivers, SendFinalizeDelivers, SendHashDelivers,
     CompareHashDelivers, RecvCompleteDelivers DEF ReceiverStep

-----------------------------------------------------------------------------
(* What the steps of the writers leave of the invariant.                    *)

LEMMA WrittenAt ==
  ASSUME NEW c \in Content, NEW i \in Nat, i >= 1, NEW v, NEW n \in Nat, i <= n, Len(c) <= n
  PROVE  LET d == WriteAt(c, i, v)
         IN  /\ Len(d) <= n /\ i \in 1..Len(d) /\ d[i] = v
             /\ Len(d) = (IF Len(c) < i THEN i ELSE Len(c))
             /\ \A k \in 1..Len(c) : k \in 1..Len(d) /\ (k # i => d[k] = c[k])
             /\ \A k \in 1..Len(d) : d[k] \in {v, Hole} \/ (k \in 1..Len(c) /\ d[k] = c[k])
<1> DEFINE m == IF Len(c) < i THEN i ELSE Len(c)
           d == WriteAt(c, i, v)
<1>1. Len(c) \in Nat
  BY LenProperties DEF Content
<1>2. m \in Nat /\ i <= m /\ Len(c) <= m /\ m <= n
  BY <1>1
<1>3. d = [k \in 1..m |-> IF k = i THEN v ELSE IF k <= Len(c) THEN c[k] ELSE Hole]
  BY DEF WriteAt
<1>4. Len(d) = m
  <2> DEFINE S == {d[k] : k \in 1..m}
  <2> HIDE DEF m
  <2>1. d \in [1..m -> S]
    BY <1>3
  <2> HIDE DEF d, S
  <2>2. d \in Seq(S)
    BY <1>2, <2>1, SeqDef
  <2> QED
    BY <1>2, <2>1, <2>2, LenProperties
<1>5. i \in 1..m /\ \A k \in 1..Len(c) : k \in 1..m
  BY <1>1, <1>2
<1> HIDE DEF m, d
<1>6. d[i] = v /\ \A k \in 1..Len(c) : k # i => d[k] = c[k]
  BY <1>1, <1>3, <1>5
<1>7. \A k \in 1..m : d[k] \in {v, Hole} \/ (k \in 1..Len(c) /\ d[k] = c[k])
  BY <1>1, <1>2, <1>3
<1> QED
  BY <1>2, <1>4, <1>5, <1>6, <1>7 DEF d, m

(* A writer changes nothing but its queue and the disk, where what has its  *)
(* final name keeps it.                                                     *)
LEMMA DiskLeavesTheRest ==
  ASSUME Given, OnlyTheDisk, DiskStaysSound
  PROVE  SenderKnows' /\ TheyAgree' /\ NothingLost' /\ DoneIsDelivered'
<1>0. /\ Typed /\ Parts /\ SourceTyped
      /\ UNCHANGED <<src, spc, st, saved, err, cur, pos, slen, sum, batch, verified, edits, up, toR, toS,
                     unis, rpc, info, rfile, seen, rstream, buf, epoch>>
  BY GivenParts DEF Typed, OnlyTheDisk
<1>1. SenderKnows'
  BY <1>0 DEF Parts, SenderKnows, SizesAreTrue, NoClaims, RetriesAreFresh, CurrentIsFirst, FirstPending,
     BatchIsOfFile, FrameOf, KnowsSource, Lengths, NothingClaimed
<1>2. OffersAreTrue' /\ SumsAreOfCurrent' /\ SessionIsOpen' /\ DoneAgrees' /\ PassedIsDone'
  BY <1>0 DEF Parts, OffersAreTrue, Offered, Lengths, SumsAreOfCurrent, SessionIsOpen, DoneAgrees, Ahead,
     PassedIsDone
<1>3. AnswersAreInOrder'
  <2>1. Answered(toS) \subseteq Files
    BY <1>0, AnsweredQueue DEF Typed, NetTyped
  <2> QED
    BY <1>0, <2>1 DEF Parts, AnswersAreInOrder, Passed, DiskStaysSound
<1>4. NothingLost'
  BY <1>0 DEF Parts, NothingLost, FlightIsOfCurrent, FirstPending, FlightIsSound, FrameOf, FlightIsRising,
     SeenIsBehind, InFlight
<1>5. DoneIsDelivered'
  BY <1>0, DoneStaysDelivered
<1> QED
  BY <1>1, <1>2, <1>3, <1>4, <1>5 DEF TheyAgree

(* With the rest of the disk sound as well, the invariant is kept.          *)
LEMMA DiskStepDelivers ==
  ASSUME Given, OnlyTheDisk, DiskStaysSound, WritersAreSound', SeenIsKept'
  PROVE  Delivering'
BY DiskLeavesTheRest DEF Delivering, DiskIsSound, DiskStaysSound

(* What is seen stays on the disk or on the way there, whoever writes.      *)
LEMMA SeenStaysKept ==
  ASSUME Given, OnlyTheDisk,
         rpc \in {"recv", "finalizing"} =>
           /\ writers'[epoch].file = writers[epoch].file
           /\ writers'[epoch].fin = writers[epoch].fin /\ writers'[epoch].open = writers[epoch].open
           /\ writers[epoch].finished => writers'[epoch].finished,
         rpc = "recv" \/ (rpc = "finalizing" /\ ~writers'[epoch].finished) =>
           Written(rfile) \cup Indices(OnTheWay) \subseteq Written(rfile)' \cup Indices(OnTheWay')
  PROVE  SeenIsKept'
<1>0. /\ Parts /\ UNCHANGED <<src, rpc, rfile, seen, buf, epoch>>
  BY GivenParts DEF OnlyTheDisk
<1>1. \A S, T : Indices(S \cup T) = Indices(S) \cup Indices(T)
  BY DEF Indices
<1>2. rpc' = "recv" => /\ \A x \in Range(buf') : FrameOf(x, rfile)'
                       /\ seen' \subseteq 1..src'[rfile'].len
  BY <1>0 DEF Parts, SeenIsKept, FrameOf
<1>3. rpc' = "recv" => seen' \subseteq Written(rfile)' \cup Indices((OnTheWay \cup Range(buf))')
  <2> SUFFICES ASSUME rpc = "recv"
               PROVE  seen \subseteq Written(rfile)' \cup Indices(OnTheWay' \cup Range(buf))
    BY <1>0
  <2>1. seen \subseteq Written(rfile) \cup Indices(OnTheWay) \cup Indices(Range(buf))
    BY <1>0, <1>1 DEF Parts, SeenIsKept
  <2>2. Indices(OnTheWay' \cup Range(buf)) = Indices(OnTheWay') \cup Indices(Range(buf))
    BY <1>1
  <2> QED
    BY <2>1, <2>2
<1>4. /\ rpc' \in {"recv", "finalizing"} => writers'[epoch'].file = rfile'
      /\ rpc' = "finalizing" => writers'[epoch'].fin /\ writers'[epoch'].open
      /\ rpc' \in {"finalizing", "awaitSum"} => seen' = 1..src'[rfile'].len
  BY <1>0 DEF Parts, SeenIsKept
<1>5. rpc' = "finalizing" /\ ~writers'[epoch'].finished =>
        seen' \subseteq Written(rfile)' \cup Indices(OnTheWay')
  BY <1>0 DEF Parts, SeenIsKept
<1> QED
  BY <1>0, <1>2, <1>3, <1>4, <1>5 DEF SeenIsKept

(* A writer that loses nothing of what is said of it stays sound.           *)
LEMMA WritersStaySound ==
  ASSUME WritersAreSound, UNCHANGED src,
         \A f \in Files : final[f] # NoFile => final'[f] # NoFile,
         \A y \in Epochs :
           /\ Range(writers'[y].todo) \cup Flat(writers'[y].queue)
                \subseteq Range(writers[y].todo) \cup Flat(writers[y].queue)
           /\ writers'[y].file = writers[y].file /\ writers'[y].finished = writers[y].finished
  PROVE  WritersAreSound'
<1> SUFFICES ASSUME NEW y \in Epochs
             PROVE  /\ \A x \in Range(writers'[y].todo) \cup Flat(writers'[y].queue) :
                         FrameOf(x, writers[y].file)
                    /\ writers[y].finished => writers[y].file \in Files /\ final'[writers[y].file] # NoFile
  BY DEF WritersAreSound, FrameOf
<1> QED
  BY DEF WritersAreSound

LEMMA WriterRecvDelivers ==
  ASSUME Given, NEW e \in Epochs, WriterRecv(e)
  PROVE  Delivering'
<1> DEFINE w == writers[e]
<1>0. Typed /\ Parts /\ OnlyTheDisk
  BY GivenParts, Footprints DEF WriterStep
<1>1. /\ w.todo = <<>> /\ w.queue # <<>>
      /\ writers' = [writers EXCEPT ![e] = [w EXCEPT !.todo = Head(w.queue), !.queue = Tail(w.queue)]]
      /\ w \in Writer /\ w.queue \in Streams
      /\ UNCHANGED <<src, rpc, rfile, epoch, partial, final>>
  BY <1>0, WriterFields DEF WriterRecv, OnlyTheDisk, Typed, DiskTyped
<1>2. /\ \A x \in Epochs \ {e} : writers'[x] = writers[x]
      /\ writers'[e].todo = Head(w.queue) /\ writers'[e].queue = Tail(w.queue)
      /\ writers'[e].file = w.file /\ writers'[e].fin = w.fin /\ writers'[e].open = w.open
      /\ writers'[e].finished = w.finished
  BY <1>0, <1>1 DEF Writer, Typed, DiskTyped
<1>3. Flat(w.queue) = Range(Head(w.queue)) \cup Flat(Tail(w.queue)) /\ Range(<<>>) = {}
  BY <1>1, FlatOfQueue, EmptyQueue
<1>4. \A x \in Epochs :
        Range(writers'[x].todo) \cup Flat(writers'[x].queue) = Range(writers[x].todo) \cup Flat(writers[x].queue)
  BY <1>1, <1>2, <1>3
<1>5. \A x \in Epochs : /\ writers'[x].file = writers[x].file /\ writers'[x].fin = writers[x].fin
                        /\ writers'[x].open = writers[x].open
                        /\ writers'[x].finished = writers[x].finished
  BY <1>2
<1>6. DiskStaysSound
  BY <1>1, UntouchedDiskStaysSound
<1>7. WritersAreSound'
  BY <1>0, <1>1, <1>4, <1>5, WritersStaySound DEF Parts
<1>8. SeenIsKept'
  <2>1. rpc \in {"recv", "finalizing"} => epoch \in Epochs
    BY DEF Given, IInv, ReceiverIsSomewhere
  <2>2. rpc \in {"recv", "finalizing"} => OnTheWay' = OnTheWay /\ Written(rfile)' = Written(rfile)
    BY <1>1, <1>4, <2>1 DEF OnTheWay, Written
  <2> HIDE DEF w
  <2> QED
    BY <1>0, <1>5, <2>1, <2>2, SeenStaysKept
<1> QED
  BY <1>0, <1>6, <1>7, <1>8, DiskStepDelivers


LEMMA WriterWriteDelivers ==
  ASSUME Given, NEW e \in Epochs, WriterWrite(e)
  PROVE  Delivering'
<1> DEFINE w == writers[e]
           f == w.file
           x == Head(w.todo)
           i == x[1]
           v == x[2]
<1>0. Typed /\ Parts /\ OnlyTheDisk /\ WriterHoldsItsFile(e) /\ SourceTyped
  BY GivenParts, Footprints DEF WriterStep, Given, IInv, Typed
<1>1. /\ w.todo # <<>> /\ w \in Writer /\ w.todo \in Frames
      /\ writers'[e] = [w EXCEPT !.todo = Tail(w.todo), !.hashed = writers'[e].hashed,
                                 !.ordered = writers'[e].ordered]
      /\ \A y \in Epochs \ {e} : writers'[y] = writers[y]
      /\ partial' = IF w.target = "partial" THEN [partial EXCEPT ![f] = WriteAt(@, i, v)] ELSE partial
      /\ final' = IF w.target = "final" THEN [final EXCEPT ![f] = WriteAt(@, i, v)] ELSE final
      /\ UNCHANGED <<src, rpc, rfile, epoch>>
  <2>1. w \in Writer /\ w.todo \in Frames /\ writers \in [Epochs -> Writer]
    BY <1>0, WriterFields DEF Typed, DiskTyped
  <2>2. UNCHANGED <<src, rpc, rfile, epoch>>
    BY <1>0 DEF OnlyTheDisk
  <2> DEFINE hashedAfter == IF w.ordered /\ i = Len(w.hashed) + 1 THEN Append(w.hashed, v) ELSE w.hashed
             orderedAfter == w.ordered /\ i <= Len(w.hashed) + 1
             after == [w EXCEPT !.todo = Tail(w.todo), !.hashed = hashedAfter, !.ordered = orderedAfter]
  <2>3. writers' = [writers EXCEPT ![e] = after]
    BY DEF WriterWrite
  <2> HIDE DEF hashedAfter, orderedAfter
  <2>4. writers'[e] = after /\ after.hashed = hashedAfter /\ after.ordered = orderedAfter
    BY <2>1, <2>3 DEF Writer
  <2> QED
    BY <2>1, <2>2, <2>3, <2>4 DEF WriterWrite
<1>2. /\ writers'[e].todo = Tail(w.todo) /\ writers'[e].queue = w.queue
      /\ writers'[e].file = f /\ writers'[e].fin = w.fin /\ writers'[e].open = w.open
      /\ writers'[e].finished = w.finished
  BY <1>1 DEF Writer
<1>3. Range(w.todo) = {x} \cup Range(Tail(w.todo)) /\ x \in Frame
  BY <1>1, RangeOfTail, QueuesTyped DEF Frames
<1>4. i \in Nat /\ i >= 1 /\ i <= src[f].len /\ v = src[f].ver
  BY <1>0, <1>3, NumbersTyped DEF Parts, WritersAreSound, FrameOf
<1>5. w.target # "gone" => f \in Files /\ src[f].len \in Nat
  BY <1>0 DEF WriterHoldsItsFile, SourceTyped, Source, Lens
<1> HIDE DEF x, i, v, w
<1>6. FinalsAreWhole' /\ \A g \in Files : final[g] # NoFile => final'[g] # NoFile
  <2>1. CASE w.target = "final"
    <3>1. final[f] = Whole(f) /\ f \in Files
      BY <1>0, <1>5, <2>1 DEF Parts, FinalsAreWhole, WriterHoldsItsFile, w
    <3>2. WriteAt(Whole(f), i, v) = Whole(f)
      <4> DEFINE n == src[f].len
      <4>1. Len(Whole(f)) = n /\ n \in Nat /\ i <= n /\ v = src[f].ver
        BY <1>0, <1>4, <3>1, WholeIsAFile
      <4>2. \A k \in 1..n : Whole(f)[k] = src[f].ver
        BY <1>0, <3>1, WholeIsAFile
      <4>3. WriteAt(Whole(f), i, v) =
              [k \in 1..n |-> IF k = i THEN v ELSE IF k <= n THEN Whole(f)[k] ELSE Hole]
        <5>1. (IF n < i THEN i ELSE n) = n
          BY <1>4, <4>1
        <5> QED
          BY <4>1, <5>1 DEF WriteAt
      <4>4. WriteAt(Whole(f), i, v) = [k \in 1..n |-> src[f].ver]
        <5>1. \A k \in 1..n :
                (IF k = i THEN v ELSE IF k <= n THEN Whole(f)[k] ELSE Hole) = src[f].ver
          BY <4>1, <4>2
        <5> QED
          BY <4>3, <5>1
      <4> QED
        BY <4>4 DEF Whole
    <3>3. final' = final
      BY <1>0, <1>1, <2>1, <3>1, <3>2 DEF Typed, DiskTyped
    <3> QED
      BY <1>0, <1>1, <3>3 DEF Parts, FinalsAreWhole, Whole
  <2>2. CASE w.target # "final"
    BY <1>0, <1>1, <2>2 DEF Parts, FinalsAreWhole, Whole
  <2> QED
    BY <2>1, <2>2
<1>9. \A y \in Epochs :
        /\ Range(writers'[y].todo) \cup Flat(writers'[y].queue)
             \subseteq Range(writers[y].todo) \cup Flat(writers[y].queue)
        /\ writers'[y].file = writers[y].file /\ writers'[y].fin = writers[y].fin
        /\ writers'[y].open = writers[y].open /\ writers'[y].finished = writers[y].finished
  <2> TAKE y \in Epochs
  <2>1. CASE y = e
    BY <1>2, <1>3, <2>1 DEF w
  <2>2. CASE y # e
    BY <1>1, <2>2
  <2> QED
    BY <2>1, <2>2
<1>7. CASE w.target = "partial"
  <2> DEFINE c == partial[f]
             d == WriteAt(c, i, v)
             n == src[f].len
  <2>1. f \in Files /\ n \in Nat /\ c \in Content /\ Len(c) <= n /\ c # NoFile
        /\ \A k \in 1..Len(c) : c[k] \in {Hole, src[f].ver}
    BY <1>0, <1>5, <1>7 DEF Parts, PartialsAreSound, WriterHoldsItsFile, Typed, DiskTyped, w
  <2>2. partial'[f] = d /\ \A g \in Files \ {f} : partial'[g] = partial[g]
    BY <1>0, <1>1, <1>7, <2>1 DEF Typed, DiskTyped
  <2> HIDE DEF c, d, n
  <2>3. /\ Len(d) <= n /\ i \in 1..Len(d) /\ d[i] = v
        /\ \A k \in 1..Len(c) : k \in 1..Len(d) /\ (k # i => d[k] = c[k])
        /\ \A k \in 1..Len(d) : d[k] \in {v, Hole} \/ (k \in 1..Len(c) /\ d[k] = c[k])
    BY <1>4, <2>1, WrittenAt DEF d, n
  <2>4. PartialsAreSound'
    <3>1. Len(d) <= src[f].len /\ \A k \in 1..Len(d) : d[k] \in {Hole, src[f].ver}
      BY <1>4, <2>1, <2>3 DEF n
    <3>2. \A g \in Files \ {f} : partial[g] # NoFile =>
            Len(partial[g]) <= src[g].len /\ \A k \in 1..Len(partial[g]) : partial[g][k] \in {Hole, src[g].ver}
      BY <1>0 DEF Parts, PartialsAreSound
    <3> QED
      BY <1>1, <2>2, <3>1, <3>2 DEF PartialsAreSound
  <2>5. \A g \in Files : Written(g) \subseteq Written(g)'
    <3>1. \A k \in 1..Len(c) : c[k] = src[f].ver => d[k] = src[f].ver
      BY <1>4, <2>3
    <3> QED
      BY <1>1, <2>2, <2>3, <3>1 DEF Written, c
  <2>6. \A g \in Files : g = f => i \in Written(g)'
    BY <1>1, <1>4, <2>2, <2>3 DEF Written
  <2> QED
    <3>1. \A g \in Files : Written(g) \subseteq Written(g)'
      BY <2>5
    <3>2. WritersAreSound'
      BY <1>0, <1>1, <1>6, <1>9, WritersStaySound DEF Parts
    <3>3. SeenIsKept'
      <4>1. rpc \in {"recv", "finalizing"} => epoch \in Epochs /\ rfile \in Files /\ writers[epoch].file = rfile
        BY <1>0 DEF Given, IInv, ReceiverIsSomewhere, Parts, SeenIsKept
      <4>2. rpc \in {"recv", "finalizing"} =>
              Written(rfile) \cup Indices(OnTheWay) \subseteq Written(rfile)' \cup Indices(OnTheWay')
        <5>1. CASE e = epoch
          <6>1. OnTheWay = {x} \cup OnTheWay'
            BY <1>1, <1>2, <1>3, <5>1 DEF OnTheWay, w
          <6>2. Indices(OnTheWay) = {i} \cup Indices(OnTheWay')
            BY <6>1 DEF Indices, i
          <6> QED
            <7> HIDE DEF f
            <7>1. rpc \in {"recv", "finalizing"} => rfile \in Files /\ rfile = f
              BY <4>1, <5>1 DEF f, w
            <7>2. rpc \in {"recv", "finalizing"} =>
                    i \in Written(rfile)' /\ Written(rfile) \subseteq Written(rfile)'
              <8> SUFFICES ASSUME rpc \in {"recv", "finalizing"}
                           PROVE  i \in Written(rfile)' /\ Written(rfile) \subseteq Written(rfile)'
                OBVIOUS
              <8>1. i \in 1..Len(partial'[rfile]) /\ partial'[rfile][i] = src'[rfile].ver /\ rfile' = rfile
                BY <1>1, <1>4, <2>2, <2>3, <7>1
              <8>2. \A k \in 1..Len(partial[rfile]) : partial[rfile][k] = src[rfile].ver =>
                      k \in 1..Len(partial'[rfile]) /\ partial'[rfile][k] = src[rfile].ver
                BY <1>4, <2>2, <2>3, <7>1 DEF c
              <8> QED
                BY <1>1, <8>1, <8>2 DEF Written
            <7> QED
              BY <6>2, <7>2
        <5>2. CASE e # epoch
          BY <1>1, <3>1, <4>1, <5>2 DEF OnTheWay
        <5> QED
          BY <5>1, <5>2
      <4> QED
        BY <1>0, <1>9, <4>1, <4>2, SeenStaysKept
    <3> QED
      BY <1>0, <1>6, <2>4, <3>2, <3>3, DiskStepDelivers DEF DiskStaysSound
<1>8. CASE w.target # "partial"
  <2>1. partial' = partial
    BY <1>1, <1>8
  <2>2. PartialsAreSound' /\ \A g \in Files : Written(g)' = Written(g)
    BY <1>0, <1>1, <2>1 DEF Parts, PartialsAreSound, Written
  <2>3. WritersAreSound'
    BY <1>0, <1>1, <1>6, <1>9, WritersStaySound DEF Parts
  <2>4. SeenIsKept'
    <3>2. rpc \in {"recv", "finalizing"} => epoch \in Epochs /\ rfile \in Files
      BY DEF Given, IInv, ReceiverIsSomewhere
    <3>3. rpc = "recv" \/ (rpc = "finalizing" /\ ~writers[epoch].finished) => e # epoch
      BY <1>0, <1>8 DEF WriterHoldsItsFile, Parts, SeenIsKept, w
    <3>4. e # epoch /\ rpc \in {"recv", "finalizing"} => OnTheWay' = OnTheWay
      BY <1>1, <3>2 DEF OnTheWay
    <3>5. rpc = "recv" \/ (rpc = "finalizing" /\ ~writers'[epoch].finished) =>
            Written(rfile) \cup Indices(OnTheWay) \subseteq Written(rfile)' \cup Indices(OnTheWay')
      <4> SUFFICES ASSUME rpc = "recv" \/ (rpc = "finalizing" /\ ~writers'[epoch].finished)
                   PROVE  Written(rfile) \subseteq Written(rfile)' /\ OnTheWay' = OnTheWay
        OBVIOUS
      <4>1. e # epoch /\ OnTheWay' = OnTheWay /\ rfile \in Files
        BY <1>9, <3>2, <3>3, <3>4
      <4> QED
        BY <1>1, <2>1, <4>1 DEF Written
    <3> QED
      BY <1>0, <1>9, <3>2, <3>5, SeenStaysKept
  <2> QED
    BY <1>0, <1>6, <2>2, <2>3, <2>4, DiskStepDelivers DEF DiskStaysSound
<1> QED
  BY <1>7, <1>8


LEMMA RenamedFields ==
  ASSUME NEW w \in Writer, NEW f
  PROVE  LET r == Renamed(w, f)
         IN  /\ r \in Writer /\ r.file = w.file /\ r.fin = w.fin /\ r.open = w.open
             /\ r.todo = w.todo /\ r.queue = w.queue /\ r.finished = w.finished
BY DEF Renamed, Writer

(* A file is complete when it is renamed.                                   *)
LEMMA FinalizedIsWhole ==
  ASSUME Given, NEW e \in Epochs, writers[e].fin, ~writers[e].finished,
         writers[e].todo = <<>>, writers[e].queue = <<>>
  PROVE  /\ e = epoch /\ rpc = "finalizing"
         /\ writers[e].file \in Files /\ partial[writers[e].file] = Whole(writers[e].file)
<1> DEFINE f == writers[e].file
           c == partial[f]
<1>0. Typed /\ Parts /\ SourceTyped /\ WriterHoldsItsFile(e)
  BY GivenParts DEF Given, IInv, Typed
<1>1. /\ e = epoch /\ rpc = "finalizing" /\ f = rfile /\ f \in Files
      /\ ~writers[e].finished /\ writers[e].target = "partial"
      /\ writers[e].todo = <<>> /\ writers[e].queue = <<>>
  BY <1>0 DEF WriterHoldsItsFile, Parts, SeenIsKept
<1>2. c # NoFile /\ c \in Content /\ Len(c) \in Nat /\ src[f].len \in Nat /\ Len(c) <= src[f].len
  <2>1. c # NoFile /\ c \in Content /\ Len(c) <= src[f].len
    BY <1>0, <1>1 DEF WriterHoldsItsFile, Parts, PartialsAreSound, Typed, DiskTyped
  <2> QED
    BY <1>0, <1>1, <2>1, WholeIsAFile, LenProperties DEF Content
<1>3. 1..src[f].len \subseteq Written(f)
  <2>1. Indices(OnTheWay) = {}
    <3>1. OnTheWay = {}
      BY <1>1, EmptyQueue DEF OnTheWay
    <3> QED
      BY <3>1 DEF Indices
  <2> QED
    BY <1>0, <1>1, <2>1 DEF Parts, SeenIsKept
<1>4. Len(c) = src[f].len /\ \A k \in 1..src[f].len : c[k] = src[f].ver
  BY <1>2, <1>3 DEF Written
<1>5. c \in [1..Len(c) -> Versions \cup {Hole}]
  BY <1>2, LenProperties DEF Content
<1> QED
  BY <1>1, <1>4, <1>5 DEF Whole

LEMMA WriterFinalizeDelivers ==
  ASSUME Given, NEW e \in Epochs, WriterFinalize(e)
  PROVE  Delivering'
<1> DEFINE w == writers[e]
           f == w.file
<1>0. Typed /\ Parts /\ OnlyTheDisk /\ SourceTyped
  BY GivenParts, Footprints DEF WriterStep, Typed
<1>1. e = epoch /\ rpc = "finalizing" /\ f \in Files /\ partial[f] = Whole(f)
  BY FinalizedIsWhole DEF WriterFinalize
<1>2. /\ final' = [final EXCEPT ![f] = partial[f]] /\ partial' = [partial EXCEPT ![f] = NoFile]
      /\ UNCHANGED <<src, rpc, rfile, epoch>>
  BY <1>0 DEF WriterFinalize, OnlyTheDisk
<1>3. /\ final'[f] = Whole(f) /\ partial'[f] = NoFile /\ Whole(f) # NoFile
      /\ \A g \in Files \ {f} : final'[g] = final[g] /\ partial'[g] = partial[g]
  BY <1>0, <1>1, <1>2, WholeIsAFile DEF Typed, DiskTyped
<1>4. \A x \in Epochs :
        /\ writers'[x].todo = writers[x].todo /\ writers'[x].queue = writers[x].queue
        /\ writers'[x].file = writers[x].file /\ writers'[x].fin = writers[x].fin
        /\ writers'[x].open = writers[x].open
        /\ IF x = e THEN writers'[x].finished ELSE writers'[x].finished = writers[x].finished
  <2> TAKE x \in Epochs
  <2> DEFINE r == Renamed(writers[x], f)
             h == IF w.ordered /\ Len(w.hashed) = w.size THEN w.hashed ELSE partial[w.file]
  <2>1. writers[x] \in Writer
    BY <1>0 DEF Typed, DiskTyped
  <2>2. /\ r \in Writer /\ r.file = writers[x].file /\ r.fin = writers[x].fin /\ r.open = writers[x].open
        /\ r.todo = writers[x].todo /\ r.queue = writers[x].queue /\ r.finished = writers[x].finished
    BY <2>1, RenamedFields
  <2>3. writers'[x] = IF x # e THEN r ELSE [r EXCEPT !.finished = TRUE, !.hash = h]
    BY DEF WriterFinalize
  <2> HIDE DEF r, h
  <2> QED
    BY <2>2, <2>3 DEF Writer
<1> HIDE DEF w
<1>5. FinalsAreWhole' /\ \A g \in Files : final[g] # NoFile => final'[g] # NoFile
  <2> HIDE DEF f
  <2>1. \A g \in Files : final'[g] # NoFile => final'[g] = Whole(g)
    BY <1>0, <1>3 DEF Parts, FinalsAreWhole
  <2>2. \A g : Whole(g)' = Whole(g)
    BY <1>2 DEF Whole
  <2>3. \A g \in Files : final[g] # NoFile => final'[g] # NoFile
    BY <1>3
  <2> QED
    BY <2>1, <2>2, <2>3 DEF FinalsAreWhole
<1>6. PartialsAreSound'
  BY <1>0, <1>2, <1>3 DEF Parts, PartialsAreSound
<1>7. WritersAreSound'
  <2> SUFFICES ASSUME NEW x \in Epochs
               PROVE  /\ \A y \in Range(writers'[x].todo) \cup Flat(writers'[x].queue) :
                           FrameOf(y, writers[x].file)
                      /\ writers'[x].finished => writers[x].file \in Files /\ final'[writers[x].file] # NoFile
    BY <1>2, <1>4 DEF WritersAreSound, FrameOf
  <2>1. \A y \in Range(writers'[x].todo) \cup Flat(writers'[x].queue) : FrameOf(y, writers[x].file)
    BY <1>0, <1>4 DEF Parts, WritersAreSound
  <2>2. CASE x = e
    BY <1>1, <1>3, <2>1, <2>2 DEF w
  <2>3. CASE x # e
    BY <1>0, <1>4, <1>5, <2>1, <2>3 DEF Parts, WritersAreSound
  <2> QED
    BY <2>2, <2>3
<1>8. SeenIsKept'
  BY <1>0, <1>1, <1>4, SeenStaysKept
<1> QED
  BY <1>0, <1>5, <1>6, <1>7, <1>8, DiskStepDelivers DEF DiskStaysSound

(* A writer of a connection that is gone ends.                              *)
LEMMA WriterEndsAlone ==
  ASSUME Given, OnlyTheDisk, NEW e \in Epochs, ~writers[e].open,
         writers' = [writers EXCEPT ![e] = NoWriter],
         DiskStaysSound, \A f \in Files : Written(f) \subseteq Written(f)'
  PROVE  Delivering'
<1>0. Typed /\ Parts /\ WriterHoldsItsFile(e) /\ UNCHANGED <<src, rpc, rfile, epoch>>
  BY GivenParts DEF Given, IInv, OnlyTheDisk
<1>1. rpc \in {"recv", "finalizing"} => e # epoch
  BY <1>0 DEF WriterHoldsItsFile, Parts, SeenIsKept
<1>2. writers'[e] = NoWriter /\ \A x \in Epochs \ {e} : writers'[x] = writers[x]
  BY <1>0 DEF Typed, DiskTyped
<1>3. WritersAreSound'
  BY <1>0, <1>2, NoWriterIsSound DEF Parts, WritersAreSound, FrameOf, DiskStaysSound
<1>4. SeenIsKept'
  <2>1. rpc \in {"recv", "finalizing"} => epoch \in Epochs /\ rfile \in Files
    BY DEF Given, IInv, ReceiverIsSomewhere
  <2>2. rpc \in {"recv", "finalizing"} => writers'[epoch] = writers[epoch]
    BY <1>1, <1>2, <2>1
  <2>3. rpc \in {"recv", "finalizing"} => OnTheWay' = OnTheWay /\ Written(rfile) \subseteq Written(rfile)'
    <3> SUFFICES ASSUME rpc \in {"recv", "finalizing"}
                 PROVE  OnTheWay' = OnTheWay /\ Written(rfile) \subseteq Written(rfile)'
      OBVIOUS
    <3>1. OnTheWay' = OnTheWay
      BY <1>0, <2>2 DEF OnTheWay
    <3>2. PICK f \in Files : f = rfile
      BY <2>1
    <3>3. Written(f) \subseteq Written(f)'
      OBVIOUS
    <3>4. Written(rfile)' = Written(f)' /\ Written(rfile) = Written(f)
      BY <1>0, <3>2 DEF Written
    <3> QED
      BY <3>1, <3>3, <3>4
  <2> QED
    BY <2>2, <2>3, SeenStaysKept
<1> QED
  BY <1>3, <1>4, DiskStepDelivers

LEMMA WriterAbandonsDelivers ==
  ASSUME Given, NEW e \in Epochs, WriterAbandons(e)
  PROVE  Delivering'
<1>1. OnlyTheDisk /\ UNCHANGED <<src, partial, final>>
  BY GivenParts, Footprints DEF WriterStep, WriterAbandons
<1>2. DiskStaysSound /\ \A f \in Files : Written(f) \subseteq Written(f)'
  BY <1>1, UntouchedDiskStaysSound DEF Written
<1> QED
  BY <1>1, <1>2, WriterEndsAlone DEF WriterAbandons

LEMMA WriterStepDelivers ==
  ASSUME Given, NEW e \in Epochs, WriterStep(e)
  PROVE  Delivering'
BY WriterRecvDelivers, WriterWriteDelivers, WriterFinalizeDelivers, WriterAbandonsDelivers DEF WriterStep


-----------------------------------------------------------------------------
(* What a failing disk leaves of the invariant.                             *)

(* A torn chunk leaves the others, and itself where it was there already.   *)
LEMMA TornAt ==
  ASSUME NEW c \in Content, NEW i \in Nat, i >= 1, NEW v, NEW n \in Nat, i <= n, Len(c) <= n
  PROVE  LET d == Torn(c, i, v)
         IN  /\ Len(d) <= n
             /\ \A k \in 1..Len(c) : c[k] = v => k \in 1..Len(d) /\ d[k] = v
             /\ \A k \in 1..Len(d) : d[k] = Hole \/ (k \in 1..Len(c) /\ d[k] = c[k])
<1>1. CASE i <= Len(c) /\ c[i] = v
  BY <1>1 DEF Torn
<1>2. CASE ~(i <= Len(c) /\ c[i] = v)
  <2> DEFINE d == WriteAt(c, i, Hole)
  <2>1. Torn(c, i, v) = d
    BY <1>2 DEF Torn
  <2>2. /\ Len(d) <= n
        /\ \A k \in 1..Len(c) : k \in 1..Len(d) /\ (k # i => d[k] = c[k])
        /\ \A k \in 1..Len(d) : d[k] = Hole \/ (k \in 1..Len(c) /\ d[k] = c[k])
    BY WrittenAt
  <2>3. \A k \in 1..Len(c) : c[k] = v => k # i
    BY <1>2
  <2> HIDE DEF d
  <2> QED
    BY <2>1, <2>2, <2>3
<1> QED
  BY <1>1, <1>2

(* What becomes of the files when a disk fails under a writer: a .partial   *)
(* keeps the chunks it has, a file of that name stays whole, and one that   *)
(* was renamed before the failure is complete.                              *)
LEMMA FailingDisk ==
  ASSUME Given, NEW e \in Epochs, ~writers[e].finished, LeavesFile(writers[e])
  PROVE  /\ DiskStaysSound
         /\ ~writers[e].fin => \A f \in Files : Written(f) \subseteq Written(f)'
         /\ \/ final' = final
            \/ \E f \in Files : final'[f] = Whole(f) /\ \A g \in Files \ {f} : final'[g] = final[g]
<1> DEFINE w == writers[e]
           f == w.file
           x == Head(w.todo)
           i == x[1]
           v == x[2]
<1>0. /\ Typed /\ Parts /\ SourceTyped /\ WriterHoldsItsFile(e) /\ UNCHANGED src
      /\ w \in Writer /\ w.todo \in Frames
  BY GivenParts, WriterFields DEF Given, IInv, Typed, DiskTyped
<1>1. CASE UNCHANGED <<partial, final>>
  BY <1>0, <1>1, UntouchedDiskStaysSound DEF Written
<1>2. CASE /\ w.todo # <<>>
           /\ partial' = IF w.target = "partial" THEN [partial EXCEPT ![f] = Torn(@, i, v)] ELSE partial
           /\ final'   = IF w.target = "final"   THEN [final   EXCEPT ![f] = Torn(@, i, v)] ELSE final
  <2>1. x \in Range(w.todo) /\ x \in Frame
    BY <1>0, <1>2, RangeOfTail, QueuesTyped DEF Frames
  <2>2. i \in Nat /\ i >= 1 /\ i <= src[f].len /\ v = src[f].ver
    BY <1>0, <2>1, NumbersTyped DEF Parts, WritersAreSound, FrameOf
  <2> HIDE DEF x, i, v
  <2>3. CASE w.target = "partial"
    <3> DEFINE c == partial[f]
               d == Torn(c, i, v)
               n == src[f].len
    <3>1. f \in Files /\ n \in Nat /\ c \in Content /\ Len(c) <= n
          /\ \A k \in 1..Len(c) : c[k] \in {Hole, src[f].ver}
      BY <1>0, <2>3 DEF Parts, PartialsAreSound, WriterHoldsItsFile, Typed, DiskTyped, SourceTyped, Source, Lens
    <3>2. final' = final /\ partial'[f] = d /\ \A g \in Files \ {f} : partial'[g] = partial[g]
      BY <1>0, <1>2, <2>3, <3>1 DEF Typed, DiskTyped
    <3>3. partial[f] # NoFile
      BY <1>0, <2>3 DEF WriterHoldsItsFile
    <3> HIDE DEF c, d, n
    <3>4. /\ Len(d) <= n
          /\ \A k \in 1..Len(c) : c[k] = v => k \in 1..Len(d) /\ d[k] = v
          /\ \A k \in 1..Len(d) : d[k] = Hole \/ (k \in 1..Len(c) /\ d[k] = c[k])
      BY <2>2, <3>1, TornAt DEF d, n
    <3>5. PartialsAreSound'
      <4>1. Len(d) <= src[f].len /\ \A k \in 1..Len(d) : d[k] \in {Hole, src[f].ver}
        BY <3>1, <3>4 DEF n
      <4>2. \A g \in Files \ {f} : partial[g] # NoFile =>
              Len(partial[g]) <= src[g].len /\ \A k \in 1..Len(partial[g]) : partial[g][k] \in {Hole, src[g].ver}
        BY <1>0 DEF Parts, PartialsAreSound
      <4> QED
        BY <1>0, <3>2, <4>1, <4>2 DEF PartialsAreSound
    <3>6. FinalsAreWhole'
      BY <1>0, <3>2 DEF Parts, FinalsAreWhole, Whole
    <3>7. \A g \in Files : Written(g) \subseteq Written(g)'
      BY <1>0, <2>2, <3>2, <3>4 DEF Written, c
    <3> QED
      BY <3>2, <3>5, <3>6, <3>7 DEF DiskStaysSound
  <2>4. CASE w.target # "partial"
    <3>1. final' = final
      <4>1. CASE w.target = "final"
        <5>1. final[f] = Whole(f) /\ f \in Files
          BY <1>0, <4>1 DEF Parts, FinalsAreWhole, WriterHoldsItsFile
        <5>2. Torn(Whole(f), i, v) = Whole(f)
          BY <1>0, <2>2, <5>1, WholeIsAFile DEF Torn
        <5> QED
          BY <1>0, <1>2, <4>1, <5>1, <5>2 DEF Typed, DiskTyped
      <4> QED
        BY <1>2, <4>1
    <3>2. partial' = partial
      BY <1>2, <2>4
    <3> QED
      BY <1>0, <3>1, <3>2, UntouchedDiskStaysSound DEF Written
  <2> QED
    BY <2>3, <2>4
<1>3. CASE /\ w.fin /\ w.todo = <<>> /\ w.queue = <<>>
           /\ final'   = [final   EXCEPT ![f] = partial[f]]
           /\ partial' = [partial EXCEPT ![f] = NoFile]
  <2>1. f \in Files /\ partial[f] = Whole(f)
    BY <1>3, FinalizedIsWhole
  <2>2. /\ final'[f] = Whole(f) /\ partial'[f] = NoFile /\ Whole(f) # NoFile
        /\ \A g \in Files \ {f} : final'[g] = final[g] /\ partial'[g] = partial[g]
    BY <1>0, <1>3, <2>1, WholeIsAFile DEF Typed, DiskTyped
  <2> HIDE DEF f, w
  <2>3. FinalsAreWhole'
    <3>1. \A g \in Files : final'[g] # NoFile => final'[g] = Whole(g)
      BY <1>0, <2>2 DEF Parts, FinalsAreWhole
    <3>2. \A g : Whole(g)' = Whole(g)
      BY <1>0 DEF Whole
    <3> QED
      BY <3>1, <3>2 DEF FinalsAreWhole
  <2>4. PartialsAreSound'
    BY <1>0, <2>2 DEF Parts, PartialsAreSound
  <2>5. \A g \in Files : final[g] # NoFile => final'[g] # NoFile
    BY <2>2
  <2>6. \E g \in Files : final'[g] = Whole(g) /\ \A h \in Files \ {g} : final'[h] = final[h]
    BY <2>1, <2>2
  <2> QED
    BY <1>3, <2>3, <2>4, <2>5, <2>6 DEF DiskStaysSound, w
<1> QED
  BY <1>1, <1>2, <1>3 DEF LeavesFile

LEMMA DiskFailsDelivers ==
  ASSUME Given, NEW e \in Epochs, DiskFails(e)
  PROVE  Delivering'
<1>0. WriterHoldsItsFile(e)
  BY DEF Given, IInv
<1>1. /\ DiskStaysSound
      /\ ~writers[e].fin => \A f \in Files : Written(f) \subseteq Written(f)'
  BY FailingDisk DEF DiskFails
<1>2. UNCHANGED <<src, spc, stateVars, fileVars, verified, edits>>
  BY DEF DiskFails
<1>3. CASE Exit
  BY <1>1, <1>2, <1>3, ExitDelivers
<1>4. CASE /\ ~writers[e].open
           /\ writers' = [writers EXCEPT ![e] = NoWriter]
           /\ UNCHANGED <<netVars, recvVars>>
  <2>1. OnlyTheDisk
    BY <1>2, <1>4 DEF OnlyTheDisk, stateVars, fileVars, netVars, recvVars
  <2>2. ~writers[e].fin
    BY <1>0, <1>4 DEF WriterHoldsItsFile
  <2> QED
    BY <1>1, <1>4, <2>1, <2>2, WriterEndsAlone
<1> QED
  BY <1>3, <1>4 DEF DiskFails

-----------------------------------------------------------------------------
(* The invariant holds from the start, and as long as nobody edits.         *)

LEMMA InitDelivers == Init => Delivering
<1> SUFFICES ASSUME Init PROVE Delivering
  OBVIOUS
<1>1. Range(<<>>) = {} /\ Flat(<<>>) = {} /\ Answered(<<>>) = {}
  BY EmptyQueue DEF Answered
<1>2. ~FreshState.scanned /\ FreshState.done = {} /\ NothingClaimed(FreshState, {})
  BY FreshStateTyped, StateUpdates DEF NothingClaimed
<1>3. NoStateFile.st = FreshState
  BY DEF NoStateFile
<1>4. SenderKnows
  BY <1>2, <1>3 DEF Init, SenderKnows, SizesAreTrue, KnowsSource, NoClaims, RetriesAreFresh, CurrentIsFirst,
     BatchIsOfFile, Active, Talking, InFile, Session
<1>5. TheyAgree
  BY <1>1 DEF Init, TheyAgree, OffersAreTrue, SumsAreOfCurrent, SessionIsOpen, DoneAgrees, PassedIsDone,
     AnswersAreInOrder, Active, Talking, Session, AtFile
<1>6. NothingLost
  BY DEF Init, NothingLost, FlightIsOfCurrent, FlightIsSound, FlightIsRising, SeenIsBehind, Active, Talking,
     InFile, Session, AtFile
<1>7. WritersAreSound
  BY NoWriterIsSound DEF Init, WritersAreSound
<1>8. DiskIsSound
  BY <1>2, <1>3, <1>7 DEF Init, DiskIsSound, PartialsAreSound, FinalsAreWhole, SeenIsKept, DoneIsDelivered
<1> QED
  BY <1>4, <1>5, <1>6, <1>8 DEF Delivering

LEMMA StutterDelivers == Delivering /\ UNCHANGED vars => Delivering'
<1> SUFFICES ASSUME Delivering, UNCHANGED vars PROVE Delivering'
  OBVIOUS
<1>1. /\ UNCHANGED <<src, spc, st, saved, err, cur, pos, slen, sum, batch, verified, up, toR, toS, unis>>
      /\ UNCHANGED <<rpc, info, rfile, seen, rstream, buf, epoch, writers, partial, final>>
  BY DEF vars, stateVars, fileVars, netVars, recvVars, diskVars
<1>2. SenderKnows'
  BY <1>1 DEF Delivering, SenderKnows, SizesAreTrue, KnowsSource, Lengths, NoClaims, NothingClaimed,
     RetriesAreFresh, CurrentIsFirst, FirstPending, BatchIsOfFile, FrameOf
<1>3. TheyAgree'
  BY <1>1 DEF Delivering, TheyAgree, OffersAreTrue, Offered, Lengths, SumsAreOfCurrent, SessionIsOpen,
     DoneAgrees, Ahead, PassedIsDone, AnswersAreInOrder, Passed
<1>4. NothingLost'
  BY <1>1 DEF Delivering, NothingLost, FlightIsOfCurrent, FirstPending, FlightIsSound, FrameOf,
     FlightIsRising, SeenIsBehind, InFlight
<1>5. DiskIsSound'
  <2>1. PartialsAreSound' /\ FinalsAreWhole' /\ DoneIsDelivered'
    BY <1>1 DEF Delivering, DiskIsSound, PartialsAreSound, FinalsAreWhole, Whole, DoneIsDelivered
  <2>2. WritersAreSound'
    BY <1>1 DEF Delivering, DiskIsSound, WritersAreSound, FrameOf
  <2>3. SeenIsKept'
    BY <1>1 DEF Delivering, DiskIsSound, SeenIsKept, FrameOf, OnTheWay, Written
  <2> QED
    BY <2>1, <2>2, <2>3 DEF DiskIsSound
<1> QED
  BY <1>2, <1>3, <1>4, <1>5 DEF Delivering

LEMMA EditsStay ==
  ASSUME [Next]_vars, ~EditSource
  PROVE  UNCHANGED <<src, edits>>
<1>1. CASE SenderStep
  <2>1. Reconnect => UNCHANGED <<src, edits>>
    BY DEF Reconnect, envVars
  <2> QED
    BY <1>1, <2>1, Footprints
<1>2. CASE ReceiverStep \/ \E e \in Epochs : WriterStep(e)
  BY <1>2, Footprints DEF OnlyTheDisk
<1>3. CASE Environment
  BY <1>3 DEF Environment, LaunchSend, LaunchResume, Interrupt, Drop, AcceptFails, ReceiverCrash,
     RestartReceiver, DiskFails, receiverKeeps, envVars
<1>4. CASE UNCHANGED vars
  BY <1>4 DEF vars, envVars
<1> QED
  BY <1>1, <1>2, <1>3, <1>4 DEF Next, Finished

LEMMA EditsAreCounted ==
  ASSUME EnvTyped, [Next]_vars, edits' = 0
  PROVE  edits = 0 /\ ~EditSource /\ src' = src
<1>1. ~EditSource
  BY DEF EditSource, EnvTyped
<1> QED
  BY <1>1, EditsStay

LEMMA StepDelivers ==
  ASSUME IInv, IInv', Delivering, KeepState, [Next]_vars, edits' = 0
  PROVE  Delivering'
<1>1. EnvTyped
  BY TypeOKInParts DEF IInv
<1>2. Given /\ ~EditSource
  BY <1>1, EditsAreCounted DEF Given
<1>3. CASE SenderStep
  BY <1>2, <1>3, SenderStepDelivers, ConnectingSteps
<1>4. CASE ReceiverStep
  BY <1>2, <1>4, ReceiverStepDelivers
<1>5. ASSUME NEW e \in Epochs, WriterStep(e) PROVE Delivering'
  BY <1>2, <1>5, WriterStepDelivers
<1>6. CASE Environment
  BY <1>2, <1>6, ConnectingSteps, LosingStepsDeliver, DiskFailsDelivers DEF Environment
<1>7. CASE UNCHANGED vars
  BY <1>7, StutterDelivers
<1> QED
  BY <1>3, <1>4, <1>5, <1>6, <1>7 DEF Next, Finished

-----------------------------------------------------------------------------
(* What the invariant is for.                                               *)

(* With a state file, and until somebody edits the source, the transfer is  *)
(* in a state from which nothing it still does can go wrong.                *)
THEOREM DeliveryInvariant ==
  ASSUME KeepState
  PROVE  Spec => [](edits = 0 => Delivering)
<1>1. Init => (edits = 0 => Delivering)
  BY InitDelivers
<1>2. IInv /\ IInv' /\ (edits = 0 => Delivering) /\ [Next]_vars => (edits = 0 => Delivering)'
  <2> SUFFICES ASSUME IInv, IInv', edits = 0 => Delivering, [Next]_vars, edits' = 0
               PROVE  Delivering'
    OBVIOUS
  <2>1. edits = 0
    BY EditsAreCounted, TypeOKInParts DEF IInv
  <2> QED
    BY <2>1, StepDelivers
<1> QED
  BY <1>1, <1>2, Invariant, PTL DEF Spec

(* Whatever is lost, retried or restarted, no file gets its final name with *)
(* a chunk missing, doubled or of another file: the detached writers and    *)
(* the retries of send_path never mix.                                      *)
THEOREM FinalFilesCorrect ==
  ASSUME KeepState
  PROVE  Spec => []FinalFilesAreWhole
<1>1. (edits = 0 => Delivering) => FinalFilesAreWhole
  BY DEF Delivering, DiskIsSound, FinalsAreWhole, Whole, FinalFilesAreWhole
<1> QED
  BY <1>1, DeliveryInvariant, PTL

(* The files a resume skips, by the state in memory or the one on disk, are *)
(* at the receiver exactly as they were hashed.                             *)
THEOREM DoneFilesCorrect ==
  ASSUME KeepState
  PROVE  Spec => [](edits = 0 => DoneFilesAreDelivered)
<1>1. (edits = 0 => Delivering) => (edits = 0 => DoneFilesAreDelivered)
  BY DEF Delivering, DiskIsSound, DoneIsDelivered, DoneFilesAreDelivered
<1> QED
  BY <1>1, DeliveryInvariant, PTL

(* When send_path returns Ok the receiver holds every file under its final  *)
(* name, exactly as it was hashed.                                          *)
THEOREM SuccessCorrect ==
  ASSUME KeepState
  PROVE  Spec => [](edits = 0 => SuccessMeansDelivered)
<1>1. (edits = 0 => Delivering) => (edits = 0 => SuccessMeansDelivered)
  BY DEF Delivering, DiskIsSound, DoneIsDelivered, SuccessMeansDelivered
<1> QED
  BY <1>1, DeliveryInvariant, PTL

-----------------------------------------------------------------------------
(* The transfer implements its promise.                                     *)

Held == {f \in Files : final[f] = [i \in 1..src[f].len |-> src[f].ver]}

LEMMA SenderStepReports ==
  ASSUME Given, SenderStep, ~Reconnect
  PROVE  Outcome' = Outcome \/ Promise!Succeed \/ Promise!GiveUp
<1>0. Typed /\ Parts /\ UNCHANGED <<src, final>>
  BY GivenParts, Footprints
<1>1. Held' = Held
  BY <1>0 DEF Held
<1>2. CASE SendComplete /\ up
  <2>1. spc = "next" /\ spc' = "ok" /\ NextFile(st) = 0
    BY <1>2 DEF SendComplete
  <2>2. Files \subseteq st.done
    BY <1>0, <2>1, NextFileIsPending DEF Typed, StateTyped, State, Files
  <2>3. Held = Files
    BY <1>0, <2>2 DEF Held, Parts, DoneIsDelivered, Whole
  <2> QED
    BY <1>1, <2>1, <2>3 DEF Promise!Succeed, Outcome, Held
<1>3. CASE spc' = "failed" /\ spc \notin Stopped
  BY <1>1, <1>3 DEF Promise!GiveUp, Outcome, Held, Stopped
<1>4. CASE spc' \notin Stopped /\ spc \notin Stopped
  BY <1>4 DEF Outcome, Stopped
<1>5. CASE UNCHANGED spc
  BY <1>5 DEF Outcome
<1>6. \/ SendComplete /\ up
      \/ spc' = "failed" /\ spc \notin Stopped
      \/ spc' \notin Stopped /\ spc \notin Stopped
      \/ UNCHANGED spc
  BY DEF SenderStep, SendInfo, RecvReady, OpenFile, SendComplete, ReadChunk, FlushBatch, BatchAcked,
     SendChecksum, RecvChecksum, HandleError, StateWritten, ReconnectFails, SenderExits, Raise,
     AfterError, Stopped
<1> QED
  BY <1>2, <1>3, <1>4, <1>5, <1>6

(* Only finalize gives a file its final name.                               *)
LEMMA WriterKeepsNames ==
  ASSUME Typed, NEW e \in Epochs, WriterHoldsItsFile(e), WriterStep(e), ~WriterFinalize(e)
  PROVE  \A f \in Files : final'[f] = NoFile <=> final[f] = NoFile
<1>1. CASE final' = final
  BY <1>1
<1>2. CASE WriterWrite(e) /\ writers[e].target = "final"
  <2> DEFINE g == writers[e].file
             x == Head(writers[e].todo)
  <2>1. x \in Frame
    BY <1>2, WriterFields, QueuesTyped DEF WriterWrite, Typed, DiskTyped
  <2>2. g \in Files /\ final[g] \in Content
    BY <1>2 DEF WriterHoldsItsFile, Typed, DiskTyped
  <2>3. WriteAt(final[g], x[1], x[2]) \in Content
    BY <2>1, <2>2, WriteAtTyped DEF Frame
  <2>4. final' = [final EXCEPT ![g] = WriteAt(@, x[1], x[2])]
    BY <1>2 DEF WriterWrite
  <2> HIDE DEF x, g
  <2> QED
    BY <2>2, <2>3, <2>4, NoFileIsNoContent DEF Typed, DiskTyped
<1> QED
  BY <1>1, <1>2 DEF WriterStep, WriterRecv, WriterWrite, WriterAbandons

(* A step that gives one file its name delivers it, or one already there.   *)
LEMMA NamingDelivers ==
  ASSUME Given, Typed, Outcome' = Outcome, NEW f \in Files,
         final'[f] = Whole(f), \A g \in Files \ {f} : final'[g] = final[g]
  PROVE  [Promise!Next]_(Promise!vars)
<1>1. Held' = Held \cup {f}
  BY DEF Given, Held, Whole
<1>2. CASE f \in Held
  BY <1>1, <1>2 DEF Promise!vars, Held
<1>3. CASE f \notin Held
  <2>1. Promise!Deliver(f)
    BY <1>1, <1>3 DEF Promise!Deliver, Held
  <2> QED
    BY <2>1 DEF Promise!Next
<1> QED
  BY <1>2, <1>3

LEMMA StepKeepsPromise ==
  ASSUME IInv, IInv', Delivering, Delivering', KeepState, [Next]_vars, src' = src
  PROVE  [Promise!Next]_(Promise!vars)
<1>0. Given /\ Typed /\ Parts /\ SourceTyped
  BY GivenParts DEF Given, Typed
<1>1. CASE UNCHANGED <<final, Outcome>>
  BY <1>1 DEF Promise!vars
<1>2. CASE SenderStep /\ ~Reconnect
  <2>1. UNCHANGED final
    BY <1>2, Footprints
  <2> QED
    BY <1>0, <1>1, <1>2, <2>1, SenderStepReports DEF Promise!Next
<1>3. CASE Reconnect \/ LaunchSend \/ LaunchResume
  <2>1. UNCHANGED final /\ spc' = "start" /\ (spc = "backoff" \/ spc \in Stopped)
    BY <1>3 DEF Reconnect, LaunchSend, LaunchResume, diskVars
  <2>2. Outcome' = "running"
    BY <2>1 DEF Outcome
  <2> QED
    BY <1>1, <2>1, <2>2 DEF Promise!Begin, Promise!Next
<1>4. CASE ReceiverStep
  <2>1. UNCHANGED <<final, spc>>
    BY <1>4 DEF ReceiverStep, RecvInfo, SkipFile, StartFile, LastFileDone, AcceptUni, RecvFrame, FlushRest,
         SendFinalize, SendHash, CompareHash, RecvComplete, RecvUnexpected, RecvDisconnected,
         PeerDisconnected, Fatal, receiverKeeps, diskVars
  <2> QED
    BY <1>1, <2>1 DEF Outcome
<1>5. ASSUME NEW e \in Epochs, WriterStep(e) PROVE [Promise!Next]_(Promise!vars)
  <2>1. Outcome' = Outcome
    BY <1>5, Footprints DEF Outcome, OnlyTheDisk
  <2>2. CASE WriterFinalize(e)
    <3>1. PICK f \in Files :
            f = writers[e].file /\ partial[f] = Whole(f) /\ final' = [final EXCEPT ![f] = partial[f]]
      BY <1>0, <2>2, FinalizedIsWhole DEF WriterFinalize
    <3>2. final'[f] = Whole(f) /\ \A g \in Files \ {f} : final'[g] = final[g]
      BY <1>0, <3>1 DEF Typed, DiskTyped
    <3> QED
      BY <1>0, <2>1, <3>2, NamingDelivers
  <2>3. CASE ~WriterFinalize(e)
    <3>1. \A f \in Files : final'[f] = NoFile <=> final[f] = NoFile
      BY <1>0, <1>5, <2>3, WriterKeepsNames DEF IInv
    <3>3. \A f \in Files : final'[f] = final[f]
      <4> TAKE f \in Files
      <4>1. final[f] # NoFile => final[f] = Whole(f)
        BY <1>0 DEF Parts, FinalsAreWhole
      <4>2. final'[f] # NoFile => final'[f] = Whole(f)
        BY DEF Delivering, DiskIsSound, FinalsAreWhole, Whole
      <4> QED
        BY <3>1, <4>1, <4>2
    <3>4. Held' = Held
      BY <3>3 DEF Held
    <3> QED
      BY <2>1, <3>4 DEF Promise!vars, Held
  <2> QED
    BY <2>2, <2>3
<1>6. CASE Interrupt
  <2>1. UNCHANGED final /\ spc' = "interrupted" /\ spc \notin Stopped
    BY <1>6 DEF Interrupt, diskVars
  <2> QED
    BY <2>1 DEF Promise!GiveUp, Promise!Next, Outcome, Stopped
<1>7. CASE Drop \/ AcceptFails \/ ReceiverCrash \/ RestartReceiver
  <2>1. UNCHANGED <<final, spc>>
    BY <1>7 DEF Drop, AcceptFails, ReceiverCrash, RestartReceiver, Fatal, receiverKeeps, diskVars
  <2> QED
    BY <1>1, <2>1 DEF Outcome
<1>8. CASE EditSource
  <2>1. UNCHANGED <<final, spc>>
    BY <1>8 DEF EditSource, diskVars
  <2> QED
    BY <1>1, <2>1 DEF Outcome
<1>9. CASE UNCHANGED vars
  <2>1. UNCHANGED <<final, spc>>
    BY <1>9 DEF vars, diskVars
  <2> QED
    BY <1>1, <2>1 DEF Outcome
<1>10. ASSUME NEW e \in Epochs, DiskFails(e) PROVE [Promise!Next]_(Promise!vars)
  <2>1. Outcome' = Outcome
    BY <1>10 DEF DiskFails, Outcome
  <2>2. \/ final' = final
        \/ \E f \in Files : final'[f] = Whole(f) /\ \A g \in Files \ {f} : final'[g] = final[g]
    BY <1>0, <1>10, FailingDisk DEF DiskFails
  <2>3. CASE final' = final
    BY <1>1, <2>1, <2>3
  <2>4. CASE \E f \in Files : final'[f] = Whole(f) /\ \A g \in Files \ {f} : final'[g] = final[g]
    <3>1. PICK f \in Files : final'[f] = Whole(f) /\ \A g \in Files \ {f} : final'[g] = final[g]
      BY <2>4
    <3> QED
      BY <1>0, <2>1, <3>1, NamingDelivers
  <2> QED
    BY <2>2, <2>3, <2>4
<1> QED
  BY <1>2, <1>3, <1>4, <1>5, <1>6, <1>7, <1>8, <1>9, <1>10 DEF Next, Environment, Finished

(* Seen from outside, chunks, connections, retries and crashes do not show: *)
(* files arrive whole and stay, and a sender that reports success has       *)
(* delivered them all.                                                      *)
THEOREM TransferDelivers ==
  ASSUME KeepState, MaxEdits = 0
  PROVE  Spec => Delivers
<1>1. Init => Promise!Init
  <2> SUFFICES ASSUME Init PROVE Promise!Init
    OBVIOUS
  <2>1. SourceTyped
    BY InitInvariant, TypeOKInParts DEF IInv
  <2>2. Held = {}
    BY <2>1, WholeIsAFile DEF Init, Held, Whole
  <2> QED
    BY <2>2 DEF Promise!Init, Init, Outcome, Held
<1>2. Init => edits = 0
  BY DEF Init
<1>3. edits = 0 /\ [Next]_vars => (edits = 0)' /\ src' = src
  <2> SUFFICES ASSUME edits = 0, [Next]_vars PROVE (edits = 0)' /\ src' = src
    OBVIOUS
  <2>1. ~EditSource
    BY DEF EditSource
  <2> QED
    BY <2>1, EditsStay
<1>4. IInv /\ IInv' /\ edits = 0 /\ (edits = 0 => Delivering) /\ (edits = 0 => Delivering)'
        /\ [Next]_vars => [Promise!Next]_(Promise!vars)
  BY <1>3, StepKeepsPromise
<1>5. Spec => [](edits = 0)
  BY <1>2, <1>3, PTL DEF Spec
<1>6. Spec => [](edits = 0 => Delivering)
  BY DeliveryInvariant
<1>7. Spec => Promise!Init /\ [][Promise!Next]_(Promise!vars)
  BY <1>1, <1>4, <1>5, <1>6, Invariant, PTL DEF Spec
<1> QED
  BY <1>7 DEF Delivers, Promise!Spec
=============================================================================
