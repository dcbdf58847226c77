---------------------------- MODULE FolderDelivery ----------------------------
(***************************************************************************)
(* The invariant of the proof that the folder transfer delivers, with what *)
(* is needed to speak of it: queues as sets, what a lost connection loses. *)
(* FolderTransferProofs shows that every step keeps it.                    *)
(***************************************************************************)
EXTENDS FolderTransfer, Functions

-----------------------------------------------------------------------------
(* Sequences as sets: what is in a queue, and in which order.               *)

(* The frames of a sequence of streams or batches.                          *)
Flat(u) == UNION {Range(s) : s \in Range(u)}

Before(x, y) == x[1] < y[1]

(* The frames of a stream, and those of the streams, come in the order of   *)
(* their chunks, none twice.                                                *)
Rising(q) == \A k, l \in 1..Len(q) : k < l => Before(q[k], q[l])

RisingStreams(u) ==
  /\ \A k \in 1..Len(u) : Rising(u[k])
  /\ \A k, l \in 1..Len(u) : k < l =>
       \A x \in Range(u[k]), y \in Range(u[l]) : Before(x, y)

IsSum(m) == m.type = "FileChecksum"

(* The files for which there is a checksum in the channel.                  *)
Answered(q) == {m.file : m \in {x \in Range(q) : IsSum(x)}}

(* The checksums in the channel are those of the first files not in d, in   *)
(* order, without a gap.                                                    *)
InOrder(q, d) ==
  \A k \in 1..Len(q) : IsSum(q[k]) =>
    /\ q[k].file \notin d
    /\ \A g \in Files : g < q[k].file =>
         g \in d \/ \E j \in 1..(k - 1) : IsSum(q[j]) /\ q[j].file = g
    /\ \A j \in 1..(k - 1) : IsSum(q[j]) => q[j].file < q[k].file

-----------------------------------------------------------------------------
(* What a connection that is lost, or closed by a process that ends, leaves *)
(* of its queues.                                                           *)

Truncated == Plain("Truncated")

Less(q, r) ==
  /\ Len(r) <= Len(q)
  /\ Range(r) \subseteq Range(q) \cup {Truncated}
  /\ \A d \in SUBSET Files : InOrder(q, d) => InOrder(r, d)

LessStreams(u, v) ==
  /\ Range(v) \subseteq Range(u)
  /\ RisingStreams(u) => RisingStreams(v)

(* The connection is gone and some of what was in flight with it.           *)
Loses ==
  /\ up' = FALSE
  /\ Less(toR, toR') /\ Less(toS, toS')
  /\ LessStreams(unis, unis')

-----------------------------------------------------------------------------
(* The inductive invariant.  It is about a source nobody has edited.        *)

Whole(f) == [i \in 1..src[f].len |-> src[f].ver]
Lengths  == [f \in Files |-> src[f].len]

(* A frame of the file, with the content the file has.                      *)
FrameOf(x, f) == x[1] <= src[f].len /\ x[2] = src[f].ver

(* Where the two sides are: the sender in the exchange that follows its     *)
(* manifest, in a file; the receiver past the manifest, in a file.          *)
Talking == {"next", "send", "flushing", "awaitSum"}
Active  == Talking \cup {"awaitReady"}
InFile  == {"send", "flushing", "awaitSum"}
Session == {"file", "recv", "finalizing", "awaitSum", "complete"}
AtFile  == {"recv", "finalizing", "awaitSum"}

(* The sizes the two sides go by are those of the source.                   *)
KnowsSource(s) == IF s.scanned THEN s.size = Lengths ELSE s.done = {}

SizesAreTrue ==
  /\ KnowsSource(st) /\ KnowsSource(saved.st)
  /\ spc \in Active => st.scanned
  /\ spc \in InFile => slen = src[cur].len
  /\ rpc \in Session => info.size = Lengths

(* No manifest claims a chunk: every error clears the bitmaps.              *)
NothingClaimed(s, d) == \A f \in Files : f \notin d => s.chunks[f] = {}

NoClaims ==
  /\ NothingClaimed(saved.st, {})
  /\ spc \in {"start", "awaitReady", "saving", "backoff"} => NothingClaimed(st, {})
  /\ spc = "next" => NothingClaimed(st, st.done)
  /\ spc \in InFile => NothingClaimed(st, st.done \cup {cur})
  /\ rpc \in Session => info.claimFile = 0

(* The sender starts over on a new connection, or fails again: without      *)
(* edits only the loss of the connection is retried.                        *)
RetriesAreFresh ==
  /\ spc \in {"error", "saving"} /\ err = "recoverable" => ~up
  /\ spc = "backoff" => ~up
  /\ spc = "start" /\ up => rpc = "info" /\ toR = <<>> /\ toS = <<>> /\ unis = <<>>
  /\ rpc \in {"accept", "dead"} => ~up

(* A manifest on its way is alone, and says what the sender knows.          *)
Offered(m) ==
  /\ Len(toR) = 1 /\ toS = <<>> /\ rpc = "info" /\ spc \notin Talking
  /\ m.info.size = Lengths /\ m.info.claimFile = 0 /\ m.info.done = st.done

OffersAreTrue == \A m \in Range(toR) : m.type = "TransferInfo" => Offered(m)

(* The sender's checksums on their way are of files it is done with, or of  *)
(* the one it waits for.                                                    *)
SumsAreOfCurrent ==
  /\ spc \in Active => \A m \in Range(toR) : IsSum(m) =>
       \/ \A g \in Files : g <= m.file => g \in st.done
       \/ spc = "awaitSum" /\ m.file = cur
  /\ spc \in Active => \A m \in Range(toR) : m.type # "Complete"

(* A sender that has its answer talks to a receiver in the session.         *)
SessionIsOpen ==
  /\ rpc = "info" => unis = <<>>
  /\ spc \in Talking /\ up => rpc \in Session
  /\ spc = "awaitReady" /\ up /\ (\E m \in Range(toS) : m.type = "Ready") => rpc \in Session

(* The receiver skips what the sender is done with, and nothing else.       *)
Ahead(g) == g > rfile \/ (g = rfile /\ rpc # "awaitSum")

DoneAgrees ==
  /\ rpc \in Session => \A g \in Files : Ahead(g) => (g \in st.done <=> g \in info.done)
  /\ rpc \in AtFile => rfile \notin info.done
  /\ rpc = "complete" => rfile > NumFiles

(* The sender sends the first file that is not done; the receiver has only  *)
(* passed files that are, or whose checksum the sender waits for.           *)
FirstPending(f) == f \notin st.done /\ \A g \in Files : g < f => g \in st.done

CurrentIsFirst == spc \in InFile => FirstPending(cur)

PassedIsDone ==
  spc \in Active /\ rpc \in Session =>
    \A g \in Files : g < rfile => g \in st.done \/ (spc = "awaitSum" /\ g = cur)

(* The receiver's checksums: of files it has finalized, in the order in     *)
(* which the sender waits for them.                                         *)
Passed(g) == g < rfile \/ (g = rfile /\ rpc = "awaitSum")

AnswersAreInOrder ==
  /\ \A g \in Answered(toS) : final[g] # NoFile /\ (rpc \in Session => Passed(g))
  /\ spc \in Active => InOrder(toS, st.done)
  /\ up /\ spc \in Active /\ rpc \in Session =>
       \A g \in Files : Passed(g) => g \in st.done \cup Answered(toS)

(* The frames in flight: of the file the sender is at, which the receiver   *)
(* has not finished, each chunk once and in order.                          *)
InFlight == Flat(unis) \cup (IF rpc = "recv" THEN Range(rstream) ELSE {})

FlightIsOfCurrent ==
  rpc \in Session /\ InFlight # {} =>
    FirstPending(cur) /\ rfile <= cur /\ rpc # "finalizing" /\ (rpc = "awaitSum" => rfile < cur)

FlightIsSound ==
  rpc \in Session => \A x \in InFlight :
    FrameOf(x, cur) /\ x[1] < pos /\ (spc = "send" => \A y \in Range(batch) : Before(x, y))

FlightIsRising ==
  rpc \in Session =>
    /\ RisingStreams(unis)
    /\ \A s \in Range(unis) : s # <<>>
    /\ rpc = "recv" => Rising(rstream) /\ \A x \in Range(rstream), y \in Flat(unis) : Before(x, y)

(* What the receiver has seen of the current file comes before all that.    *)
SeenIsBehind ==
  /\ rpc \in AtFile /\ rfile = cur => \A i \in seen :
       /\ \A x \in InFlight : i < x[1]
       /\ spc \in {"send", "flushing"} => i < pos
       /\ spc = "send" => \A x \in Range(batch) : i < x[1]
  /\ spc \in Active /\ rpc \in AtFile /\ rfile \notin st.done /\ ~(spc \in InFile /\ rfile = cur) => seen = {}
  /\ spc \in {"awaitReady", "next"} /\ rpc \in Session => InFlight = {}

(* The batch and the running hash are of the file that is open.             *)
BatchIsOfFile ==
  spc \in InFile =>
    /\ pos <= slen + 1 /\ (spc = "awaitSum" => pos = slen + 1)
    /\ Rising(batch) /\ \A x \in Range(batch) : FrameOf(x, cur) /\ x[1] < pos
    /\ Len(sum) = pos - 1 /\ \A k \in 1..Len(sum) : sum[k] = src[cur].ver

(* The disk holds chunks of the source where they belong, or holes; a file  *)
(* under its final name has no holes.                                       *)
PartialsAreSound ==
  \A f \in Files : partial[f] # NoFile =>
    /\ Len(partial[f]) <= src[f].len
    /\ \A k \in 1..Len(partial[f]) : partial[f][k] \in {Hole, src[f].ver}

FinalsAreWhole == \A f \in Files : final[f] # NoFile => final[f] = Whole(f)

WritersAreSound ==
  \A e \in Epochs :
    /\ \A x \in Range(writers[e].todo) \cup Flat(writers[e].queue) : FrameOf(x, writers[e].file)
    /\ writers[e].finished => writers[e].file \in Files /\ final[writers[e].file] # NoFile

(* What the receiver has seen of a file is on its disk or on the way there. *)
Written(f) == {k \in 1..Len(partial[f]) : partial[f][k] = src[f].ver}
Indices(s) == {x[1] : x \in s}
OnTheWay == Range(writers[epoch].todo) \cup Flat(writers[epoch].queue)

SeenIsKept ==
  /\ rpc = "recv" => /\ \A x \in Range(buf) : FrameOf(x, rfile)
                     /\ seen \subseteq 1..src[rfile].len
                     /\ seen \subseteq Written(rfile) \cup Indices(OnTheWay \cup Range(buf))
  /\ rpc \in {"recv", "finalizing"} => writers[epoch].file = rfile
  /\ rpc = "finalizing" => writers[epoch].fin /\ writers[epoch].open
  /\ rpc \in {"finalizing", "awaitSum"} => seen = 1..src[rfile].len
  /\ rpc = "finalizing" /\ ~writers[epoch].finished =>
       seen \subseteq Written(rfile) \cup Indices(OnTheWay)

(* What counts as done is delivered.                                        *)
DoneIsDelivered ==
  /\ \A f \in st.done \cup saved.st.done : final[f] = Whole(f) /\ verified[f] = Whole(f)
  /\ spc = "ok" => Files \subseteq st.done

SenderKnows == SizesAreTrue /\ NoClaims /\ RetriesAreFresh /\ CurrentIsFirst /\ BatchIsOfFile
TheyAgree   == /\ OffersAreTrue /\ SumsAreOfCurrent /\ SessionIsOpen /\ DoneAgrees
               /\ PassedIsDone /\ AnswersAreInOrder
NothingLost == FlightIsOfCurrent /\ FlightIsSound /\ FlightIsRising /\ SeenIsBehind
DiskIsSound == /\ PartialsAreSound /\ FinalsAreWhole /\ WritersAreSound /\ SeenIsKept
               /\ DoneIsDelivered

Delivering == SenderKnows /\ TheyAgree /\ NothingLost /\ DiskIsSound

===============================================================================
