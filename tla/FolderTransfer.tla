---------------------------- MODULE FolderTransfer ----------------------------
(***************************************************************************)
(* The folder transfer of hyx-core: `send_path` with its retry loop and    *)
(* state file on one side, the CLI's receive loop with its detached disk   *)
(* writer on the other, one QUIC connection between them.                  *)
(*                                                                         *)
(* A file is a sequence of chunks and a chunk is the version of the source *)
(* it was read from, so a SHA-256 is the sequence of versions it was taken *)
(* over (the hash is assumed injective).  Chunks are numbered from 1.      *)
(***************************************************************************)
EXTENDS Naturals, Sequences, FiniteSets

CONSTANTS
  NumFiles,     (* number of files in the folder                            *)
  MaxLen,       (* longest file, in chunks                                  *)
  Versions,     (* versions of the content of a source file                 *)
  Hole,         (* a chunk nobody wrote, or of which only a part was written *)
  NoFile,       (* absence of a file on the receiver's disk                 *)
  InitSources,  (* the source folders a behaviour may start from            *)
  BatchChunks,  (* chunks per uni-stream   (BATCH_MAX_BYTES)                *)
  FlushChunks,  (* chunks per disk batch   (FLUSH_BATCH_BYTES)              *)
  QueueCap,     (* capacity of the channel to write_loop                    *)
  MaxAttempts,  (* ReconnectConfig::max_attempts, 0 = unlimited             *)
  KeepState,    (* TRUE iff send_path is given a state file                 *)
  PathKeyed,    (* TRUE iff the state file is named after the source path   *)
  Decisions,    (* answers the receiver's accept policy may give            *)
  MaxConns, MaxFaults, MaxEdits, MaxLaunches, MaxRestarts  (* bounds only    *)

Files  == 1..NumFiles
Chunks == 1..MaxLen
Lens   == 0..MaxLen
Source == [len : Lens, ver : Versions]

ASSUME ConstantsAssumption ==
  /\ NumFiles \in Nat \ {0}
  /\ MaxLen \in Nat
  /\ Hole \notin Versions
  /\ NoFile \notin Seq(Versions \cup {Hole})
  /\ InitSources \subseteq [Files -> Source]
  /\ BatchChunks \in Nat \ {0}
  /\ FlushChunks \in Nat \ {0}
  /\ QueueCap \in Nat \ {0}
  /\ MaxAttempts \in Nat
  /\ KeepState \in BOOLEAN
  /\ PathKeyed \in BOOLEAN
  /\ Decisions \subseteq {"Accept", "Reject"}
  /\ {MaxConns, MaxFaults, MaxEdits, MaxLaunches, MaxRestarts} \subseteq Nat

VARIABLES
  (* the sender: the send_path loop and the session it runs                 *)
  src,          (* the source files                                         *)
  spc,          (* where the sender is                                      *)
  st,           (* the FolderTransferState in memory                        *)
  saved,        (* the state file                                           *)
  attempt,      (* retries done                                             *)
  err,          (* the error being handled                                  *)
  resuming,     (* is_resuming                                              *)
  cur, pos, slen, sum, batch,  (* send_file: file, next chunk, length when
                                  opened, running hash, unflushed frames    *)
  verified,     (* history: what was hashed of the files marked complete    *)
  (* the connection                                                         *)
  up, toR, toS, unis,
  (* the receiver: the receive loop and receive_folder                      *)
  rpc, info, rfile, seen, rstream, buf, epoch,
  (* the receiver's disk and its write_loop tasks, one per connection       *)
  writers, partial, final,
  (* how often the environment has acted                                    *)
  faults, edits, launches, restarts

stateVars  == <<st, saved, attempt, err, resuming>>
fileVars   == <<cur, pos, slen, sum, batch>>
netVars    == <<up, toR, toS, unis>>
recvVars   == <<rpc, info, rfile, seen, rstream, buf, epoch>>
diskVars   == <<writers, partial, final>>
envVars    == <<faults, edits, launches, restarts>>
vars == <<src, spc, stateVars, fileVars, verified, netVars, recvVars, diskVars, envVars>>

-----------------------------------------------------------------------------
(* The data that travels.                                                   *)

State == [scanned : BOOLEAN, size : [Files -> Lens], done : SUBSET Files,
          chunks : [Files -> SUBSET Chunks]]

FreshState == [scanned |-> FALSE, size |-> [f \in Files |-> 0], done |-> {},
               chunks |-> [f \in Files |-> {}]]

(* The state file is absent, complete, or torn by a crash in fs::write.     *)
StateFile == [kind : {"none", "torn", "ok"}, st : State]
NoStateFile == [kind |-> "none", st |-> FreshState]

(* Mutant: an off-by-one in the range of files.                             *)
NextFileMissesLast(s) ==
  IF 1..(NumFiles - 1) \subseteq s.done THEN 0
  ELSE CHOOSE f \in 1..(NumFiles - 1) \ s.done : \A g \in 1..(NumFiles - 1) \ s.done : f <= g

NextFile(s) ==
  IF Files \subseteq s.done THEN 0
  ELSE CHOOSE f \in Files \ s.done : \A g \in Files \ s.done : f <= g

ClearBitmaps(s) == [s EXCEPT !.chunks = [f \in Files |-> {}]]

(* TransferInfo: the manifest, the files to skip, the ResumePoint           *)
(* (claimFile = 0 when there is none).                                      *)
Manifest == [size : [Files -> Lens], done : SUBSET Files,
             claimFile : 0..NumFiles, claimed : SUBSET Chunks]

ManifestOf(s) ==
  LET f == NextFile(s)
      claimed == IF f = 0 THEN {} ELSE s.chunks[f]
  IN [size |-> s.size, done |-> s.done,
      claimFile |-> IF claimed = {} THEN 0 ELSE f, claimed |-> claimed]

NoManifest == ManifestOf(FreshState)

Content == Seq(Versions \cup {Hole})
Frame   == Chunks \X Versions
Info(m)          == [type |-> "TransferInfo", info |-> m]
Checksum(f, s)   == [type |-> "FileChecksum", file |-> f, sum |-> s]
Plain(t)         == [type |-> t]

(* Chunks are written at their offset; what lies before is a hole.          *)
WriteAt(content, i, v) ==
  [k \in 1..(IF Len(content) < i THEN i ELSE Len(content)) |->
     IF k = i THEN v ELSE IF k <= Len(content) THEN content[k] ELSE Hole]

Truncate(content, n) == IF Len(content) > n THEN SubSeq(content, 1, n) ELSE content

-----------------------------------------------------------------------------
(* The connection.  A drop loses what is still in flight: a suffix of each  *)
(* control channel, cutting a message in two or not, and the stream the     *)
(* sender still waits to see acknowledged.  What was delivered stays        *)
(* readable on the other side.                                              *)

Cut(q) == {SubSeq(q, 1, n) : n \in 0..Len(q)}
            \cup {Append(SubSeq(q, 1, n), Plain("Truncated")) : n \in 0..(Len(q) - 1)}

CutStreams == IF spc = "flushing" /\ unis # <<>>
              THEN {unis, SubSeq(unis, 1, Len(unis) - 1)} ELSE {unis}

Drop ==
  /\ up
  /\ faults < MaxFaults
  /\ faults' = faults + 1
  /\ up' = FALSE
  /\ toR' \in Cut(toR)
  /\ toS' \in Cut(toS)
  /\ unis' \in CutStreams
  /\ UNCHANGED <<src, spc, stateVars, fileVars, verified, recvVars, diskVars, edits, launches, restarts>>

(* A process that ends closes its end of the connection.                    *)
SenderCloses ==
  /\ up' = FALSE
  /\ toR' \in IF up THEN Cut(toR) ELSE {toR}
  /\ unis' \in IF up THEN CutStreams ELSE {unis}
  /\ toS' = <<>>

Connect ==
  /\ rpc = "accept"
  /\ epoch < MaxConns
  /\ up' = TRUE
  /\ toR' = <<>> /\ toS' = <<>> /\ unis' = <<>>
  /\ rpc' = "info"
  /\ epoch' = epoch + 1
  /\ UNCHANGED <<info, rfile, seen, rstream, buf>>

-----------------------------------------------------------------------------
(* The sender.                                                              *)

Stopped == {"idle", "ok", "failed", "interrupted"}

(* `hyx send`, or on a phone a send of the same path: the latter finds the  *)
(* state file of an earlier run next to the source.                         *)
LaunchSend ==
  /\ spc \in Stopped /\ ~up
  /\ launches < MaxLaunches
  /\ launches' = launches + 1
  /\ st' = IF PathKeyed /\ saved.kind = "ok" THEN saved.st ELSE FreshState
  /\ saved' = IF PathKeyed THEN saved ELSE NoStateFile
  /\ attempt' = 0
  /\ spc' = "start"
  /\ Connect
  /\ UNCHANGED <<src, err, resuming, fileVars, verified, diskVars, faults, edits, restarts>>

(* `hyx resume <id>`: needs a state file it can parse.                      *)
LaunchResume ==
  /\ spc \in Stopped /\ ~up
  /\ ~PathKeyed
  /\ saved.kind = "ok"
  /\ launches < MaxLaunches
  /\ launches' = launches + 1
  /\ st' = saved.st
  /\ attempt' = 0
  /\ spc' = "start"
  /\ Connect
  /\ UNCHANGED <<src, saved, err, resuming, fileVars, verified, diskVars, faults, edits, restarts>>

Raise(kind) == /\ err' = kind
               /\ spc' = "error"

(* Scan on the first attempt, then offer the manifest.                      *)
SendInfo ==
  /\ spc = "start"
  /\ st' = IF st.scanned THEN st
           ELSE [FreshState EXCEPT !.scanned = TRUE, !.size = [f \in Files |-> src[f].len]]
  /\ resuming' = (ManifestOf(st').claimFile # 0)
  /\ \/ /\ up
        /\ toR' = Append(toR, Info(ManifestOf(st')))
        /\ spc' = "awaitReady"
        /\ UNCHANGED err
     \/ /\ ~up
        /\ Raise("recoverable")
        /\ UNCHANGED toR
  /\ UNCHANGED <<src, saved, attempt, fileVars, verified, up, toS, unis, recvVars, diskVars, envVars>>

(* The answer to the manifest.  On a resume the sizes of all files are      *)
(* checked first.  A connection lost here counts as a cancellation.         *)
RecvReady ==
  /\ spc = "awaitReady"
  /\ \/ /\ toS # <<>> /\ toS' = Tail(toS)
        /\ IF /\ Head(toS).type = "Ready"
              /\ resuming => \A f \in Files : src[f].len = st.size[f]
           THEN spc' = "next" /\ UNCHANGED err
           ELSE Raise("fatal")
     \/ /\ toS = <<>> /\ ~up
        /\ Raise("fatal")
        /\ UNCHANGED toS
  /\ UNCHANGED <<src, st, saved, attempt, resuming, fileVars, verified, up, toR, unis, recvVars, diskVars, envVars>>

(* Open the next file that is not complete: its length is read again.       *)
OpenFile ==
  /\ spc = "next"
  /\ NextFile(st) # 0
  /\ cur' = NextFile(st)
  /\ slen' = src[cur'].len
  /\ pos' = 1 /\ sum' = <<>> /\ batch' = <<>>
  /\ spc' = "send"
  /\ UNCHANGED <<src, stateVars, verified, netVars, recvVars, diskVars, envVars>>

SendComplete ==
  /\ spc = "next"
  /\ NextFile(st) = 0
  /\ \/ /\ up
        /\ toR' = Append(toR, Plain("Complete"))
        /\ spc' = "ok"
        /\ saved' = NoStateFile
        /\ UNCHANGED err
     \/ /\ ~up
        /\ Raise("recoverable")
        /\ UNCHANGED <<toR, saved>>
  /\ UNCHANGED <<src, st, attempt, resuming, fileVars, verified, up, toS, unis, recvVars, diskVars, envVars>>

(* Read one chunk into the running hash, and into the batch unless it is    *)
(* claimed complete.  A file that has shrunk gives an I/O error, which is   *)
(* an Error::Network.                                                       *)
ReadChunk ==
  /\ spc = "send"
  /\ pos <= slen
  /\ pos \in st.chunks[cur] \/ Len(batch) < BatchChunks
  /\ \/ /\ pos <= src[cur].len
        /\ sum' = Append(sum, src[cur].ver)
        /\ batch' = IF pos \in st.chunks[cur] THEN batch ELSE Append(batch, <<pos, src[cur].ver>>)
        /\ pos' = pos + 1
        /\ UNCHANGED <<spc, err>>
     \/ /\ pos > src[cur].len
        /\ Raise("recoverable")
        /\ UNCHANGED <<sum, batch, pos>>
  /\ UNCHANGED <<src, st, saved, attempt, resuming, cur, slen, verified, netVars, recvVars, diskVars, envVars>>

(* flush_batch: one uni-stream, then wait until the peer has it all.        *)
FlushBatch ==
  /\ spc = "send"
  /\ batch # <<>>
  /\ pos > slen \/ (Len(batch) = BatchChunks /\ pos \notin st.chunks[cur])
  /\ \/ up /\ unis' = Append(unis, batch) /\ spc' = "flushing" /\ UNCHANGED err
     \/ ~up /\ Raise("recoverable") /\ UNCHANGED unis
  /\ UNCHANGED <<src, st, saved, attempt, resuming, fileVars, verified, up, toR, toS, recvVars, diskVars, envVars>>

(* Mutant: chunk indices are not converted to the numbering from 1.         *)
BatchAckedOffByOne ==
  /\ spc = "flushing" /\ up
  /\ st' = [st EXCEPT !.chunks[cur] = @ \cup {batch[k][1] - 1 : k \in 1..Len(batch)}]
  /\ batch' = <<>> /\ spc' = "send"
  /\ UNCHANGED <<src, saved, attempt, err, resuming, cur, pos, slen, sum, verified, netVars, recvVars, diskVars, envVars>>

(* stopped() returns: only now are the chunks of the batch marked complete. *)
BatchAcked ==
  /\ spc = "flushing"
  /\ \/ /\ up
        /\ st' = [st EXCEPT !.chunks[cur] = @ \cup {batch[k][1] : k \in 1..Len(batch)}]
        /\ batch' = <<>>
        /\ spc' = "send"
        /\ UNCHANGED err
     \/ /\ ~up
        /\ Raise("recoverable")
        /\ UNCHANGED <<st, batch>>
  /\ UNCHANGED <<src, saved, attempt, resuming, cur, pos, slen, sum, verified, netVars, recvVars, diskVars, envVars>>

(* Mutant: the file counts as complete when its checksum is sent.           *)
SendChecksumMarksDone ==
  /\ spc = "send" /\ pos > slen /\ batch = <<>> /\ up
  /\ toR' = Append(toR, Checksum(cur, sum)) /\ spc' = "awaitSum"
  /\ st' = [st EXCEPT !.done = @ \cup {cur}]
  /\ verified' = [verified EXCEPT ![cur] = sum]
  /\ UNCHANGED <<src, saved, attempt, err, resuming, fileVars, up, toS, unis, recvVars, diskVars, envVars>>

SendChecksum ==
  /\ spc = "send"
  /\ pos > slen /\ batch = <<>>
  /\ \/ up /\ toR' = Append(toR, Checksum(cur, sum)) /\ spc' = "awaitSum" /\ UNCHANGED err
     \/ ~up /\ Raise("recoverable") /\ UNCHANGED toR
  /\ UNCHANGED <<src, st, saved, attempt, resuming, fileVars, verified, up, toS, unis, recvVars, diskVars, envVars>>

(* Mutant: a connection lost before the receiver's checksum is forgiven.    *)
RecvChecksumForgives ==
  /\ spc = "awaitSum" /\ (toS # <<>> \/ ~up)
  /\ toS' = IF toS = <<>> THEN toS ELSE Tail(toS)
  /\ st' = [st EXCEPT !.done = @ \cup {cur}]
  /\ verified' = [verified EXCEPT ![cur] = sum]
  /\ spc' = "next"
  /\ UNCHANGED <<src, saved, attempt, err, resuming, fileVars, up, toR, unis, recvVars, diskVars, envVars>>

(* The receiver's checksum decides whether the file is complete.            *)
RecvChecksum ==
  /\ spc = "awaitSum"
  /\ \/ /\ toS # <<>> /\ toS' = Tail(toS)
        /\ \/ /\ Head(toS).type = "FileChecksum" /\ Head(toS).sum = sum
              /\ st' = [st EXCEPT !.done = @ \cup {cur}]
              /\ verified' = [verified EXCEPT ![cur] = sum]
              /\ spc' = "next"
              /\ UNCHANGED err
           \/ /\ Head(toS).type = "FileChecksum" => Head(toS).sum # sum
              /\ Raise("fatal")
              /\ UNCHANGED <<st, verified>>
     \/ /\ toS = <<>> /\ ~up
        /\ Raise("recoverable")
        /\ UNCHANGED <<toS, st, verified>>
  /\ UNCHANGED <<src, saved, attempt, resuming, fileVars, up, toR, unis, recvVars, diskVars, envVars>>

ShouldRetry == MaxAttempts = 0 \/ attempt + 1 < MaxAttempts
AfterError  == IF err = "recoverable" /\ ShouldRetry THEN "backoff" ELSE "failed"

(* The error arms of send_path.  With a state file the bitmaps are cleared  *)
(* and the file rewritten in place (fs::write truncates it first); without  *)
(* one the state is retried as it is.                                       *)
HandleError ==
  /\ spc = "error"
  /\ IF KeepState
     THEN /\ st' = ClearBitmaps(st)
          /\ saved' = [kind |-> "torn", st |-> FreshState]
          /\ spc' = "saving"
     ELSE /\ spc' = AfterError
          /\ UNCHANGED <<st, saved>>
  /\ UNCHANGED <<src, attempt, err, resuming, fileVars, verified, netVars, recvVars, diskVars, envVars>>

StateWritten ==
  /\ spc = "saving"
  /\ saved' = [kind |-> "ok", st |-> st]
  /\ spc' = AfterError
  /\ UNCHANGED <<src, st, attempt, err, resuming, fileVars, verified, netVars, recvVars, diskVars, envVars>>

(* After the backoff the sender reconnects; whether or not that works the   *)
(* loop goes round, on the old connection if it must.                       *)
Reconnect ==
  /\ spc = "backoff"
  /\ attempt' = attempt + 1
  /\ spc' = "start"
  /\ ~up /\ Connect
  /\ UNCHANGED <<src, st, saved, err, resuming, fileVars, verified, diskVars, envVars>>

(* Mutant: a reconnection that fails is not counted.                        *)
ReconnectFailsUncounted ==
  /\ spc = "backoff" /\ spc' = "start"
  /\ UNCHANGED <<src, stateVars, fileVars, verified, netVars, recvVars, diskVars, envVars>>

ReconnectFails ==
  /\ spc = "backoff"
  /\ attempt' = attempt + 1
  /\ spc' = "start"
  /\ UNCHANGED <<src, st, saved, err, resuming, fileVars, verified, netVars, recvVars, diskVars, envVars>>

(* send_path has returned: the process ends and its connection closes.      *)
SenderExits ==
  /\ spc \in {"ok", "failed"} /\ up
  /\ SenderCloses
  /\ UNCHANGED <<src, spc, stateVars, fileVars, verified, recvVars, diskVars, envVars>>

(* Ctrl+C or a crash, at any moment of the run.                             *)
Interrupt ==
  /\ spc \notin Stopped
  /\ launches < MaxLaunches
  /\ spc' = "interrupted"
  /\ SenderCloses
  /\ UNCHANGED <<src, stateVars, fileVars, verified, recvVars, diskVars, envVars>>

(* Somebody edits a source file.                                            *)
EditSource ==
  /\ edits < MaxEdits
  /\ edits' = edits + 1
  /\ \E f \in Files, s \in Source : s # src[f] /\ src' = [src EXCEPT ![f] = s]
  /\ UNCHANGED <<spc, stateVars, fileVars, verified, netVars, recvVars, diskVars, faults, launches, restarts>>

-----------------------------------------------------------------------------
(* The receiver's disk.  A writer holds its file open: `target` says whether *)
(* the file it writes is still named .partial, has been renamed to the final *)
(* name, or has been replaced since.                                         *)

NoWriter == [file |-> 0, size |-> 0, target |-> "gone", open |-> FALSE, fin |-> FALSE,
             todo |-> <<>>, queue |-> <<>>, hashed |-> <<>>, ordered |-> FALSE,
             finished |-> FALSE, hash |-> <<>>]

Writer == [file : 0..NumFiles, size : Lens, target : {"partial", "final", "gone"},
           open : BOOLEAN, fin : BOOLEAN, todo : Seq(Frame), queue : Seq(Seq(Frame)),
           hashed : Seq(Versions), ordered : BOOLEAN, finished : BOOLEAN, hash : Content]

Epochs == 1..MaxConns

(* ChunkWriter::new: keep what an earlier session left, cut to size.        *)
OpenWriter(f) ==
  /\ writers' = [writers EXCEPT ![epoch] =
       [NoWriter EXCEPT !.file = f, !.size = info.size[f], !.target = "partial",
                        !.open = TRUE, !.ordered = TRUE]]
  /\ partial' = [partial EXCEPT ![f] =
       IF @ = NoFile THEN <<>> ELSE Truncate(@, info.size[f])]

(* write_loop takes the next batch off the channel ...                      *)
WriterRecv(e) ==
  LET w == writers[e] IN
  /\ w.todo = <<>> /\ w.queue # <<>>
  /\ writers' = [writers EXCEPT ![e].todo = Head(w.queue), ![e].queue = Tail(w.queue)]
  /\ UNCHANGED <<src, spc, stateVars, fileVars, verified, netVars, recvVars, partial, final, envVars>>

(* ... and writes its frames, hashing them as long as they come in order.   *)
WriterWrite(e) ==
  LET w == writers[e]
      i == Head(w.todo)[1]
      v == Head(w.todo)[2]
      next == Len(w.hashed) + 1
  IN
  /\ w.todo # <<>>
  /\ writers' = [writers EXCEPT ![e] =
       [w EXCEPT !.todo = Tail(@),
                 !.hashed = IF w.ordered /\ i = next THEN Append(@, v) ELSE @,
                 !.ordered = @ /\ i <= next]]
  /\ partial' = IF w.target = "partial" THEN [partial EXCEPT ![w.file] = WriteAt(@, i, v)] ELSE partial
  /\ final'   = IF w.target = "final"   THEN [final   EXCEPT ![w.file] = WriteAt(@, i, v)] ELSE final
  /\ UNCHANGED <<src, spc, stateVars, fileVars, verified, netVars, recvVars, envVars>>

Renamed(w, f) ==
  IF w.file # f THEN w
  ELSE [w EXCEPT !.target = IF @ = "partial" THEN "final" ELSE "gone"]

(* finalize: rename first, then the hash: the running one if every chunk    *)
(* came in order, else that of the file read back.                          *)
WriterFinalize(e) ==
  LET w == writers[e] IN
  /\ w.fin /\ ~w.finished /\ w.todo = <<>> /\ w.queue = <<>>
  /\ final'   = [final   EXCEPT ![w.file] = partial[w.file]]
  /\ partial' = [partial EXCEPT ![w.file] = NoFile]
  /\ writers' = [x \in Epochs |->
       IF x # e THEN Renamed(writers[x], w.file)
       ELSE [Renamed(w, w.file) EXCEPT
               !.finished = TRUE,
               !.hash = IF w.ordered /\ Len(w.hashed) = w.size THEN w.hashed ELSE partial[w.file]]]
  /\ UNCHANGED <<src, spc, stateVars, fileVars, verified, netVars, recvVars, envVars>>

(* Mutant: an abandoned .partial is renamed into place.                     *)
WriterAbandonsPromotes(e) ==
  LET w == writers[e] IN
  /\ w.file # 0 /\ ~w.open /\ w.todo = <<>> /\ w.queue = <<>>
  /\ writers' = [x \in Epochs |-> IF x = e THEN NoWriter ELSE Renamed(writers[x], w.file)]
  /\ final'   = [final   EXCEPT ![w.file] = partial[w.file]]
  /\ partial' = [partial EXCEPT ![w.file] = NoFile]
  /\ UNCHANGED <<src, spc, stateVars, fileVars, verified, netVars, recvVars, envVars>>

(* The channel closed without Finalize: the .partial stays for a resume.    *)
WriterAbandons(e) ==
  LET w == writers[e] IN
  /\ w.file # 0 /\ ~w.open /\ w.todo = <<>> /\ w.queue = <<>>
  /\ writers' = [writers EXCEPT ![e] = NoWriter]
  /\ UNCHANGED <<src, spc, stateVars, fileVars, verified, netVars, recvVars, partial, final, envVars>>

-----------------------------------------------------------------------------
(* The receiver.                                                            *)

(* The process exits: its writer tasks die with it, its connection closes.  *)
Exit ==
  /\ rpc' = "dead"
  /\ writers' = [e \in Epochs |-> NoWriter]
  /\ up' = FALSE
  /\ toS' \in IF up THEN Cut(toS) ELSE {toS}
  /\ toR' = <<>> /\ unis' = <<>>
  /\ UNCHANGED <<info, rfile, seen, rstream, buf, epoch>>

Fatal == Exit /\ UNCHANGED <<partial, final>>

receiverKeeps == <<src, spc, stateVars, fileVars, verified, envVars>>

(* Error::Disconnected or Error::Quic: accept the next connection.  An      *)
(* unfinished writer loses its channel, not its queue; a finished one is    *)
(* gone.                                                                    *)
PeerDisconnected ==
  /\ rpc' = "accept"
  /\ writers' = [writers EXCEPT ![epoch] = IF rpc = "recv" THEN [@ EXCEPT !.open = FALSE] ELSE NoWriter]
  /\ UNCHANGED <<info, rfile, seen, rstream, buf, epoch, netVars, partial, final>>

(* A reply on a lost connection fails with an io::Error, so Error::Network, *)
(* which is not one of the errors the loop survives.                        *)
RecvInfo ==
  /\ rpc = "info"
  /\ toR # <<>> /\ Head(toR).type = "TransferInfo"
  /\ \E d \in Decisions :
       \/ /\ up
          /\ toR' = Tail(toR)
          /\ info' = IF d = "Accept" THEN Head(toR).info ELSE info
          /\ rfile' = IF d = "Accept" THEN 1 ELSE rfile
          /\ rpc' = IF d = "Accept" THEN "file" ELSE "info"
          /\ toS' = Append(toS, Plain(IF d = "Accept" THEN "Ready" ELSE "Cancel"))
          /\ UNCHANGED <<up, unis, seen, rstream, buf, epoch, diskVars>>
       \/ ~up /\ Fatal
  /\ UNCHANGED receiverKeeps

(* A file the sender calls complete must be here, in its final or .partial  *)
(* form, and have the right size.                                           *)
Present(f) ==
  IF final[f] # NoFile THEN Len(final[f]) = info.size[f]
  ELSE partial[f] # NoFile /\ Len(partial[f]) = info.size[f]

SkipFile ==
  /\ rpc = "file" /\ rfile \in info.done
  /\ \/ /\ Present(rfile)
        /\ rfile' = rfile + 1
        /\ UNCHANGED <<rpc, info, seen, rstream, buf, epoch, netVars, diskVars>>
     \/ ~Present(rfile) /\ Fatal
  /\ UNCHANGED receiverKeeps

StartFile ==
  /\ rpc = "file" /\ rfile <= NumFiles /\ rfile \notin info.done
  /\ OpenWriter(rfile)
  /\ rpc' = "recv"
  /\ seen' = {} /\ rstream' = <<>> /\ buf' = <<>>
  /\ UNCHANGED <<info, rfile, epoch, netVars, final>>
  /\ UNCHANGED receiverKeeps

LastFileDone ==
  /\ rpc = "file" /\ rfile > NumFiles
  /\ rpc' = "complete"
  /\ UNCHANGED <<info, rfile, seen, rstream, buf, epoch, netVars, diskVars>>
  /\ UNCHANGED receiverKeeps

(* streams_to_receive: the chunks the sender does not claim are here.       *)
ToReceive ==
  info.size[rfile] -
    (IF info.claimFile = rfile THEN Cardinality(info.claimed \cap 1..info.size[rfile]) ELSE 0)

AcceptUni ==
  /\ rpc = "recv" /\ rstream = <<>> /\ Cardinality(seen) < ToReceive
  /\ \/ /\ unis # <<>>
        /\ rstream' = Head(unis)
        /\ unis' = Tail(unis)
        /\ UNCHANGED <<up, toR, toS, rpc, info, rfile, seen, buf, epoch, diskVars>>
     \/ /\ unis = <<>> /\ ~up
        /\ PeerDisconnected
  /\ UNCHANGED receiverKeeps

HandToWriter(frames) == writers' = [writers EXCEPT ![epoch].queue = Append(@, frames)]
QueueHasRoom == Len(writers[epoch].queue) < QueueCap

(* One frame of the stream: reject an index out of range, ignore a          *)
(* duplicate, else buffer it and hand a full buffer to the writer.          *)
RecvFrame ==
  /\ rpc = "recv" /\ rstream # <<>>
  /\ LET i == Head(rstream)[1]
         frames == Append(buf, Head(rstream))
     IN \/ i > info.size[rfile] /\ Fatal
        \/ /\ i <= info.size[rfile]
           /\ rstream' = Tail(rstream)
           /\ seen' = seen \cup {i}
           /\ \/ i \in seen /\ UNCHANGED <<buf, writers>>
              \/ /\ i \notin seen /\ Len(frames) < FlushChunks
                 /\ buf' = frames
                 /\ UNCHANGED writers
              \/ /\ i \notin seen /\ Len(frames) >= FlushChunks
                 /\ QueueHasRoom
                 /\ HandToWriter(frames)
                 /\ buf' = <<>>
           /\ UNCHANGED <<rpc, info, rfile, epoch, netVars, partial, final>>
  /\ UNCHANGED receiverKeeps

AllReceived == rpc = "recv" /\ rstream = <<>> /\ Cardinality(seen) >= ToReceive

FlushRest ==
  /\ AllReceived /\ buf # <<>> /\ QueueHasRoom
  /\ HandToWriter(buf)
  /\ buf' = <<>>
  /\ UNCHANGED <<rpc, info, rfile, seen, rstream, epoch, netVars, partial, final>>
  /\ UNCHANGED receiverKeeps

SendFinalize ==
  /\ AllReceived /\ buf = <<>> /\ QueueHasRoom
  /\ writers' = [writers EXCEPT ![epoch].fin = TRUE]
  /\ rpc' = "finalizing"
  /\ UNCHANGED <<info, rfile, seen, rstream, buf, epoch, netVars, partial, final>>
  /\ UNCHANGED receiverKeeps

(* done_rx yields the hash; ours goes out before the sender's is read.      *)
SendHash ==
  /\ rpc = "finalizing"
  /\ writers[epoch].finished
  /\ \/ /\ up
        /\ toS' = Append(toS, Checksum(rfile, writers[epoch].hash))
        /\ rpc' = "awaitSum"
        /\ UNCHANGED <<up, toR, unis, info, rfile, seen, rstream, buf, epoch, diskVars>>
     \/ ~up /\ Fatal
  /\ UNCHANGED receiverKeeps

CompareHash ==
  /\ rpc = "awaitSum"
  /\ toR # <<>> /\ Head(toR).type = "FileChecksum"
  /\ \/ /\ Head(toR).file = rfile /\ Head(toR).sum = writers[epoch].hash
        /\ toR' = Tail(toR)
        /\ writers' = [writers EXCEPT ![epoch] = NoWriter]
        /\ rfile' = rfile + 1
        /\ rpc' = "file"
        /\ UNCHANGED <<up, toS, unis, info, seen, rstream, buf, epoch, partial, final>>
     \/ (Head(toR).file # rfile \/ Head(toR).sum # writers[epoch].hash) /\ Fatal
  /\ UNCHANGED receiverKeeps

(* Completed: the loop waits for another transfer on the same connection.   *)
RecvComplete ==
  /\ rpc = "complete"
  /\ toR # <<>> /\ Head(toR).type = "Complete"
  /\ toR' = Tail(toR)
  /\ rpc' = "info"
  /\ UNCHANGED <<up, toS, unis, info, rfile, seen, rstream, buf, epoch, diskVars>>
  /\ UNCHANGED receiverKeeps

Expected == CASE rpc = "info" -> "TransferInfo"
              [] rpc = "awaitSum" -> "FileChecksum"
              [] rpc = "complete" -> "Complete"

(* Any other message, or half a one, is a protocol error.                   *)
RecvUnexpected ==
  /\ rpc \in {"info", "awaitSum", "complete"}
  /\ toR # <<>> /\ Head(toR).type # Expected
  /\ Fatal
  /\ UNCHANGED receiverKeeps

RecvDisconnected ==
  /\ rpc \in {"info", "awaitSum", "complete"}
  /\ toR = <<>> /\ ~up
  /\ PeerDisconnected
  /\ UNCHANGED receiverKeeps

(* A connection that fails while it is being accepted or in the handshake   *)
(* ends the receiver as well.                                               *)
AcceptFails ==
  /\ rpc = "accept" /\ faults < MaxFaults
  /\ faults' = faults + 1
  /\ Fatal
  /\ UNCHANGED <<src, spc, stateVars, fileVars, verified, edits, launches, restarts>>

(* A write that fails half way leaves a chunk that is neither; where the     *)
(* same bytes were before, it makes no difference.                          *)
Torn(content, i, v) ==
  IF i <= Len(content) /\ content[i] = v THEN content ELSE WriteAt(content, i, Hole)

(* What a writer whose disk fails leaves: its file as it is, a torn chunk in *)
(* it, or a file that was renamed but cannot be read back for its hash.     *)
LeavesFile(w) ==
  \/ UNCHANGED <<partial, final>>
  \/ /\ w.todo # <<>>
     /\ LET i == Head(w.todo)[1]
            v == Head(w.todo)[2]
        IN  /\ partial' = IF w.target = "partial" THEN [partial EXCEPT ![w.file] = Torn(@, i, v)] ELSE partial
            /\ final'   = IF w.target = "final"   THEN [final   EXCEPT ![w.file] = Torn(@, i, v)] ELSE final
  \/ /\ w.fin /\ w.todo = <<>> /\ w.queue = <<>>
     /\ ~(w.ordered /\ Len(w.hashed) = w.size)
     /\ final'   = [final   EXCEPT ![w.file] = partial[w.file]]
     /\ partial' = [partial EXCEPT ![w.file] = NoFile]

(* The next step needs the writer: it hands it frames or waits for its hash. *)
NeedsWriter ==
  \/ rpc = "finalizing"
  \/ AllReceived
  \/ /\ rpc = "recv" /\ rstream # <<>>
     /\ Head(rstream)[1] \notin seen /\ Len(buf) + 1 >= FlushChunks

(* The disk fails under a writer, and what it had queued is lost.  If the   *)
(* connection is gone nobody learns of it.  Else the receiver does where it *)
(* needs the writer next, which is the same as failing there: until then a  *)
(* writer that has ended is like one that is slow.  (A file that cannot be  *)
(* opened ends the receiver like ReceiverCrash.)                            *)
DiskFails(e) ==
  /\ faults < MaxFaults
  /\ faults' = faults + 1
  /\ writers[e].file # 0 /\ ~writers[e].finished
  /\ LeavesFile(writers[e])
  /\ \/ /\ ~writers[e].open
        /\ writers' = [writers EXCEPT ![e] = NoWriter]
        /\ UNCHANGED <<netVars, recvVars>>
     \/ /\ writers[e].open
        /\ NeedsWriter
        /\ Exit
  /\ UNCHANGED <<src, spc, stateVars, fileVars, verified, edits, launches, restarts>>

(* The user stops the receiver, or the machine crashes.                     *)
ReceiverCrash ==
  /\ rpc # "dead" /\ restarts < MaxRestarts
  /\ Fatal
  /\ UNCHANGED receiverKeeps

RestartReceiver ==
  /\ rpc = "dead" /\ restarts < MaxRestarts
  /\ restarts' = restarts + 1
  /\ rpc' = "accept"
  /\ UNCHANGED <<src, spc, stateVars, fileVars, verified, netVars, info, rfile, seen, rstream,
                 buf, epoch, diskVars, faults, edits, launches>>

-----------------------------------------------------------------------------
Init ==
  /\ src \in InitSources
  /\ spc = "idle" /\ st = FreshState /\ saved = NoStateFile
  /\ attempt = 0 /\ err = "none" /\ resuming = FALSE
  /\ cur = 1 /\ pos = 1 /\ slen = 0 /\ sum = <<>> /\ batch = <<>>
  /\ verified = [f \in Files |-> <<>>]
  /\ up = FALSE /\ toR = <<>> /\ toS = <<>> /\ unis = <<>>
  /\ rpc = "accept" /\ info = NoManifest /\ rfile = 1
  /\ seen = {} /\ rstream = <<>> /\ buf = <<>> /\ epoch = 0
  /\ writers = [e \in Epochs |-> NoWriter]
  /\ partial = [f \in Files |-> NoFile]
  /\ final = [f \in Files |-> NoFile]
  /\ faults = 0 /\ edits = 0 /\ launches = 0 /\ restarts = 0

SenderStep ==
  \/ SendInfo \/ RecvReady \/ OpenFile \/ SendComplete
  \/ ReadChunk \/ FlushBatch \/ BatchAcked \/ SendChecksum \/ RecvChecksum
  \/ HandleError \/ StateWritten \/ Reconnect \/ ReconnectFails \/ SenderExits

ReceiverStep ==
  \/ RecvInfo \/ SkipFile \/ StartFile \/ LastFileDone
  \/ AcceptUni \/ RecvFrame \/ FlushRest \/ SendFinalize
  \/ SendHash \/ CompareHash \/ RecvComplete \/ RecvUnexpected \/ RecvDisconnected

WriterStep(e) ==
  WriterRecv(e) \/ WriterWrite(e) \/ WriterFinalize(e) \/ WriterAbandons(e)

Environment ==
  \/ LaunchSend \/ LaunchResume \/ Interrupt \/ EditSource
  \/ Drop \/ AcceptFails \/ ReceiverCrash \/ RestartReceiver
  \/ \E e \in Epochs : DiskFails(e)

(* Both processes are done with each other and nothing is left to write.    *)
Finished ==
  /\ spc \in Stopped /\ ~up
  /\ rpc \in {"accept", "dead"}
  /\ \A e \in Epochs : writers[e] = NoWriter
  /\ UNCHANGED vars

Next ==
  \/ SenderStep
  \/ ReceiverStep
  \/ \E e \in Epochs : WriterStep(e)
  \/ Environment
  \/ Finished

Spec == Init /\ [][Next]_vars

(* tokio runs every task that can run.  Nothing is assumed of the user, the *)
(* network or the editor of the files.                                      *)
Fairness ==
  /\ WF_vars(SenderStep)
  /\ WF_vars(ReceiverStep)
  /\ \A e \in Epochs : WF_vars(WriterStep(e))

FairSpec == Spec /\ Fairness

-----------------------------------------------------------------------------
(* Properties.                                                              *)

Message ==
  [type : {"TransferInfo"}, info : Manifest]
    \cup [type : {"FileChecksum"}, file : Files, sum : Content]
    \cup [type : {"Ready", "Cancel", "Complete", "Truncated"}]

TypeOK ==
  /\ src \in [Files -> Source]
  /\ spc \in {"start", "awaitReady", "next", "send", "flushing", "awaitSum",
              "error", "saving", "backoff"} \cup Stopped
  /\ st \in State
  /\ saved \in StateFile
  /\ attempt \in Nat
  /\ err \in {"none", "recoverable", "fatal"}
  /\ resuming \in BOOLEAN
  /\ cur \in Files
  /\ pos \in 1..(MaxLen + 1)
  /\ slen \in Lens
  /\ sum \in Seq(Versions)
  /\ batch \in Seq(Frame)
  /\ verified \in [Files -> Seq(Versions)]
  /\ up \in BOOLEAN
  /\ toR \in Seq(Message)
  /\ toS \in Seq(Message)
  /\ unis \in Seq(Seq(Frame))
  /\ rpc \in {"accept", "info", "file", "recv", "finalizing", "awaitSum", "complete", "dead"}
  /\ info \in Manifest
  /\ rfile \in 1..(NumFiles + 1)
  /\ seen \in SUBSET Chunks
  /\ rstream \in Seq(Frame)
  /\ buf \in Seq(Frame)
  /\ epoch \in 0..MaxConns
  /\ writers \in [Epochs -> Writer]
  /\ partial \in [Files -> Content \cup {NoFile}]
  /\ final \in [Files -> Content \cup {NoFile}]
  /\ {faults, edits, launches, restarts} \subseteq Nat

(* When send_path returns Ok, the receiver holds, under its final name,     *)
(* exactly the bytes the sender hashed of every file it offered.            *)
SuccessMeansDelivered ==
  spc = "ok" => \A f \in Files : final[f] = verified[f]

(* The completed_files a resume will have skipped, in memory or in the      *)
(* state file, are whole at the receiver: skipping them loses nothing.      *)
DoneFilesAreDelivered ==
  \A f \in st.done \cup saved.st.done : final[f] = verified[f]

(* A writer about to finalize finds its .partial where it left it: finalize *)
(* renames a file that is there, and no writer an earlier connection left   *)
(* behind has taken it away.                                                *)
RenameFindsThePartial ==
  \A e \in Epochs : writers[e].fin /\ ~writers[e].finished =>
    writers[e].target = "partial" /\ partial[writers[e].file] # NoFile

(* No file is given its final name with a chunk missing or another file's   *)
(* content: while nobody edits the source, a final file is the source file. *)
FinalFilesAreWhole ==
  edits = 0 => \A f \in Files :
    final[f] # NoFile => final[f] = [i \in 1..src[f].len |-> src[f].ver]

(* A run of send_path comes to an end: no step of either side leaves the    *)
(* two waiting for each other.  And if no connection is lost, no disk       *)
(* fails, nobody interrupts it and the receiver accepts, it ends well: the  *)
(* two sides count the same chunks and files.                               *)
SendTerminates ==
  spc = "start" ~> spc \in Stopped /\ (spc \in {"ok", "interrupted"} \/ faults > 0)

(* The transfer delivers: Delivery is what remains of it when chunks,       *)
(* connections and retries are left out.  (While nobody edits the source.)  *)
Outcome == CASE spc = "idle" -> "none"
             [] spc = "ok" -> "ok"
             [] spc \in {"failed", "interrupted"} -> "failed"
             [] OTHER -> "running"

Promise == INSTANCE Delivery WITH
  delivered <- {f \in Files : final[f] = [i \in 1..src[f].len |-> src[f].ver]},
  outcome   <- Outcome

Delivers == Promise!Spec

-----------------------------------------------------------------------------
(* What README.md says of the program and TLC refutes.                      *)

(* README.md:16: integrity comes from both sides hashing what they send and *)
(* receive and comparing, so a file that compared equal is the data hashed. *)
ComparedFilesAreIntact ==
  \A f \in st.done : final[f] = verified[f]
=============================================================================
