--------------------------- MODULE MCFolderTransfer ---------------------------
(* Instances of FolderTransfer for TLC. *)
EXTENDS FolderTransfer
CONSTANTS v1, v2

MCVersions == {v1}
TwoVersions == {v1, v2}

(* Two files, the first of more than one batch; one with an empty file; one   *)
(* file alone.                                                               *)
TwoFiles  == {<<[len |-> 2, ver |-> v1], [len |-> 1, ver |-> v1]>>}
WithEmpty == {<<[len |-> 3, ver |-> v1], [len |-> 0, ver |-> v1]>>}
OneFile   == {<<[len |-> 2, ver |-> v1]>>}

(* Assumption of the run `edits`: a writer whose connection was lost has      *)
(* drained its queue before the next connection.  The code never waits for   *)
(* it; the backoff of a second or more only makes it likely.                 *)
WritersDrainFirst == epoch' # epoch => \A e \in Epochs : writers[e] = NoWriter
=============================================================================
