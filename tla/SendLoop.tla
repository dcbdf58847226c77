------------------------------- MODULE SendLoop -------------------------------
(* The sender's loop over the chunks of a folder: FileTransferSession::        *)
(* send_file (core/src/transfer_file.rs) with its adaptive compressor          *)
(* (compression.rs), its bandwidth limiter (bandwidth.rs), its batches, and    *)
(* the progress of the whole send (progress.rs).  FolderTransfer has the       *)
(* protocol around it.                                                         *)
(*                                                                             *)
(* Sizes are counted in units, and time in the time one unit takes at the      *)
(* limit: the bucket gains one token a tick.                                   *)
EXTENDS Integers, Sequences, FiniteSets, SequencesExt

CONSTANTS
  Sizes,        (* the sizes of the chunks of each file: a sequence of sequences *)
  Grow,         (* what compression may at most add to a chunk                 *)
  Sample,       (* chunks sampled (3); 0: always compress                      *)
  Gain,         (* the least gain, in hundredths of the compressed size (105)  *)
  Burst,        (* the capacity of the bucket: 2 seconds                       *)
  BatchMax,     (* BATCH_MAX_BYTES                                             *)
  MaxLag,       (* ticks a step takes, or a sleep oversleeps: a bound only     *)
  MaxAttempts   (* attempts of send_path                                       *)

ASSUME ConstantsAreSane ==
  /\ {Grow, Sample, Gain, Burst, BatchMax, MaxLag} \subseteq Nat
  /\ MaxAttempts \in Nat \ {0}
  /\ Sizes \in Seq(Seq(Nat \ {0}))

VARIABLES
  pc, attempt, file, chunk,
  now, tokens, last, wakeAt,       (* the clock and the bucket of this file    *)
  decided, enabled, sampled, orig, comp,     (* the compressor of this file    *)
  frame,        (* the chunk in hand: its size on the wire, whether compressed *)
  batch, pending,                  (* bytes buffered, and their chunks         *)
  done,         (* chunks of the file whose completion was called back         *)
  files,        (* files complete                                              *)
  shown, total, (* the progress                                                *)
  opened, passed,        (* history: when the bucket was made, what it passed  *)
  wire                   (* history: chunks of the file on the wire            *)
clock == <<now, tokens, last, wakeAt, opened, passed>>
packer == <<decided, enabled, sampled, orig, comp, frame>>
buffer == <<batch, pending, done, wire>>
bar == <<shown, total>>
vars == <<pc, attempt, file, chunk, clock, packer, buffer, files, bar>>

Files == DOMAIN Sizes
Chunks(f) == DOMAIN Sizes[f]
Units(f, cs) == UNION {{<<f, c>>} \X (1..Sizes[f][c]) : c \in cs}
AllUnits(fs) == UNION {Units(f, Chunks(f)) : f \in fs}
Total(f, cs) == Cardinality(Units(f, cs))
Whole(fs) == Cardinality(AllUnits(fs))
Lags == 0..MaxLag
Frame == [chunk : Nat, size : Nat, packed : BOOLEAN]
NoFrame == [chunk |-> 0, size |-> 0, packed |-> FALSE]

Init ==
  /\ pc = "begin" /\ attempt = 1 /\ file = 0 /\ chunk = 0
  /\ now = 0 /\ tokens = 0 /\ last = 0 /\ wakeAt = 0 /\ opened = 0 /\ passed = 0
  /\ decided = FALSE /\ enabled = FALSE /\ sampled = 0 /\ orig = 0 /\ comp = 0
  /\ frame = NoFrame
  /\ batch = 0 /\ pending = <<>> /\ done = {} /\ wire = {}
  /\ files = {} /\ shown = 0 /\ total = 0

(* FolderTransferSession::send: the bar starts from the files that earlier     *)
(* attempts completed, which an earlier attempt of this send has counted too.  *)
Begin ==
  /\ pc = "begin"
  /\ total' = Whole(Files) /\ shown' = shown + Whole(files)
  /\ pc' = "open"
  /\ UNCHANGED <<attempt, file, chunk, clock, packer, buffer, files>>

-------------------------------------------------------------------------------
(* A file session: its own limiter, compressor and batch. *)

(* BandwidthLimiter::new: the bucket starts full.                              *)
NewBucket ==
  tokens' = Burst /\ last' = now /\ opened' = now /\ passed' = 0

(* AdaptiveCompressor::new: with nothing to sample it is decided.              *)
NewCompressor ==
  decided' = (Sample = 0) /\ enabled' = TRUE /\ sampled' = 0 /\ orig' = 0 /\ comp' = 0

(* A retry that goes through the state file has no chunks of the file any      *)
(* more; one without knows those whose completion was called back.             *)
Open(f) ==
  /\ pc = "open" /\ f \in Files \ files /\ \A g \in Files \ files : f <= g
  /\ file' = f /\ chunk' = 1 /\ pc' = "chunk"
  /\ NewBucket /\ NewCompressor
  /\ frame' = NoFrame
  /\ batch' = 0 /\ pending' = <<>>
  /\ done' \in (IF f = file THEN {done, {}} ELSE {{}}) /\ wire' = done'
  /\ UNCHANGED <<attempt, now, wakeAt, files, bar>>

Finish ==
  /\ pc = "open" /\ files = Files
  /\ pc' = "done"
  /\ UNCHANGED <<attempt, file, chunk, clock, packer, buffer, files, bar>>

Skip ==
  /\ pc = "chunk" /\ chunk \in done
  /\ chunk' = chunk + 1
  /\ UNCHANGED <<pc, attempt, file, clock, packer, buffer, files, bar>>

Enough(n) == n >= Sample

(* original / compressed is below the threshold. *)
Poor(o, c) == 100 * o < Gain * c

(* AdaptiveCompressor::compress, which takes its time. *)
Compress ==
  /\ pc = "chunk" /\ chunk \in Chunks(file) \ done
  /\ \E d \in Lags : now' = now + d
  /\ LET size == Sizes[file][chunk] IN
     IF decided /\ ~enabled
       THEN /\ frame' = [chunk |-> chunk, size |-> size, packed |-> FALSE]
            /\ UNCHANGED <<decided, enabled, sampled, orig, comp>>
       ELSE \E c \in 1..(size + Grow) :
              /\ frame' = [chunk |-> chunk, size |-> c, packed |-> TRUE]
              /\ IF decided THEN UNCHANGED <<decided, enabled, sampled, orig, comp>>
                 ELSE /\ sampled' = sampled + 1 /\ orig' = orig + size /\ comp' = comp + c
                      /\ decided' = Enough(sampled')
                      /\ enabled' = ~(Enough(sampled') /\ Poor(orig', comp'))
  /\ pc' = "limit"
  /\ UNCHANGED <<attempt, file, chunk, tokens, last, wakeAt, opened, passed, buffer, files, bar>>

(* Mutants: a bucket without a bottom; a refill that is counted again. *)
Uncapped(t) == tokens + (t - last)
Unstamped(t) == last

Refilled(t) == IF tokens + (t - last) < Burst THEN tokens + (t - last) ELSE Burst
Stamped(t) == t

(* wait_for_tokens: the chunk passes, or sleeps for all that is missing, be    *)
(* it more than the bucket holds.                                              *)
Pass ==
  /\ pc = "limit" /\ Refilled(now) >= frame.size
  /\ tokens' = Refilled(now) - frame.size /\ last' = Stamped(now)
  /\ passed' = passed + frame.size
  /\ pc' = "append"
  /\ UNCHANGED <<attempt, file, chunk, now, wakeAt, opened, packer, buffer, files, bar>>

Sleep ==
  /\ pc = "limit" /\ Refilled(now) < frame.size
  /\ tokens' = Refilled(now) /\ last' = Stamped(now)
  /\ wakeAt' = now + (frame.size - Refilled(now))
  /\ pc' = "asleep"
  /\ UNCHANGED <<attempt, file, chunk, now, opened, passed, packer, buffer, files, bar>>

Wake ==
  /\ pc = "asleep"
  /\ \E d \in Lags : now' = wakeAt + d
  /\ tokens' = Refilled(now') - frame.size /\ last' = Stamped(now')
  /\ passed' = passed + frame.size
  /\ pc' = "append"
  /\ UNCHANGED <<attempt, file, chunk, wakeAt, opened, packer, buffer, files, bar>>

-------------------------------------------------------------------------------
(* Mutant: the chunk in hand is called back with the batch before it. *)
FlushedAndNext == ToSet(pending) \cup {chunk}

(* flush_batch, and the callbacks it allows. *)
Flushed == ToSet(pending)
Confirmed == ToSet(pending)

(* Mutant: the bar counts what a chunk weighs on the wire. *)
CountedOnTheWire(c) == frame.size

Counted(c) == Sizes[file][c]

Flush == wire' = wire \cup Flushed /\ done' = done \cup Confirmed

(* A batch that the chunk would overfill is flushed first. *)
AppendFrame ==
  /\ pc = "append"
  /\ IF batch + frame.size > BatchMax
       THEN Flush /\ batch' = frame.size /\ pending' = <<chunk>>
       ELSE batch' = batch + frame.size /\ pending' = Append(pending, chunk) /\ UNCHANGED <<done, wire>>
  /\ shown' = shown + Counted(chunk)
  /\ chunk' = chunk + 1 /\ pc' = "chunk"
  /\ UNCHANGED <<attempt, file, clock, packer, files, total>>

EndOfFile ==
  /\ pc = "chunk" /\ chunk \notin Chunks(file) \cup done
  /\ Flush
  /\ batch' = 0 /\ pending' = <<>>
  /\ pc' = "exchange"
  /\ UNCHANGED <<attempt, file, chunk, clock, packer, files, bar>>

(* The checksums agree: mark_file_complete. *)
FileComplete ==
  /\ pc = "exchange"
  /\ files' = files \cup {file} /\ pc' = "open"
  /\ UNCHANGED <<attempt, file, chunk, clock, packer, buffer, bar>>

(* The connection is lost at a flush or in the exchange.  A batch that was not *)
(* flushed is gone.  send_path tries again while it may.                       *)
Lost ==
  /\ \/ pc = "append" /\ batch + frame.size > BatchMax
     \/ pc = "chunk" /\ chunk \notin Chunks(file) \cup done
     \/ pc = "exchange"
  /\ IF attempt < MaxAttempts
       THEN attempt' = attempt + 1 /\ pc' = "begin"
       ELSE pc' = "failed" /\ UNCHANGED attempt
  /\ UNCHANGED <<file, chunk, clock, packer, buffer, files, bar>>

Next ==
  \/ Begin \/ (\E f \in Files : Open(f)) \/ Finish
  \/ Skip \/ Compress \/ Pass \/ Sleep \/ Wake
  \/ AppendFrame \/ EndOfFile \/ FileComplete \/ Lost

Spec == Init /\ [][Next]_vars

-------------------------------------------------------------------------------
(* Properties. *)

Busy == pc \in {"chunk", "limit", "asleep", "append", "exchange"}

TypeOK ==
  /\ pc \in {"begin", "open", "chunk", "limit", "asleep", "append", "exchange", "done", "failed"}
  /\ attempt \in 1..MaxAttempts /\ file \in Files \cup {0} /\ chunk \in Nat
  /\ {now, last, wakeAt, opened, passed} \subseteq Nat /\ tokens \in Int
  /\ tokens <= Burst /\ last <= now /\ opened <= now
  /\ {decided, enabled} \subseteq BOOLEAN /\ {sampled, orig, comp} \subseteq Nat
  /\ frame \in Frame
  /\ batch \in Nat /\ pending \in Seq(Nat) /\ done \subseteq Nat /\ wire \subseteq Nat
  /\ files \subseteq Files /\ {shown, total} \subseteq Nat

(* What the limiter of a file lets pass in any time is a burst and the rate,   *)
(* whatever the chunks weigh, however late it wakes, though it lends a chunk   *)
(* that is larger than its bucket what is missing.                             *)
RateIsKept == passed <= Burst + (now - opened)

(* A chunk is called back as complete only when its batch is on the wire, or a *)
(* resume would leave out a chunk that was never sent; and when the checksums  *)
(* are exchanged every chunk of the file was on the wire, those of earlier     *)
(* attempts included.                                                          *)
CompleteMeansSent ==
  /\ done \subseteq wire
  /\ pc = "exchange" => done = Chunks(file)

(* The bar counts what is on the wire at least once, and exactly once while no *)
(* attempt was repeated; a send that is done has it full.                      *)
ProgressCovers ==
  /\ Busy => shown >= Whole(files) + Total(file, wire)
  /\ Busy /\ attempt = 1 => shown = Whole(files) + Total(file, Chunks(file) \cap 1..(chunk - 1))
  /\ pc = "done" => shown >= total /\ total = Whole(Files)
===============================================================================
