----------------------------- MODULE Downloader -----------------------------
(***************************************************************************)
(* scripts/download.py against the canister: it asks for one chunk after   *)
(* the other (file_download_chunk, download_prompt_cache_chunk) and writes *)
(* them to a local file, until the canister says it is done.               *)
(*                                                                         *)
(* Every chunk is a query of its own, and everything in Upload may happen  *)
(* to the file between two of them: it grows by an upload that is going    *)
(* on, is begun anew, overwritten by a run, or removed.                    *)
(*                                                                         *)
(* The script makes one request at a time and keeps only what it received: *)
(* a request and its answer are one step.                                  *)
(***************************************************************************)
EXTENDS Upload, SequencesExt

CONSTANTS
  Sizes,          \* values of --chunksize
  MaxChunkSize    \* MAX_CHUNK_SIZE

ASSUME SizesAssumption == Sizes \subseteq Nat /\ MaxChunkSize \in Nat

VARIABLES
  state,     \* "idle", "asking", "done" or "failed"
  size,      \* --chunksize
  got,       \* the local file; its length is the script's offset
  extended   \* history: since the script asked first, the file only grew

download == <<state, size, got, extended>>
dvars == <<uvars, download>>

DInit ==
  /\ UInit
  /\ state = "idle" /\ size = 0 /\ got = <<>> /\ extended = FALSE

-----------------------------------------------------------------------------
(* The canister *)

\* The bytes read from an offset: as many as there are.
ChunkAt(o, n) == SubSeq(bytes, o + 1, IF o + n < Len(bytes) THEN o + n ELSE Len(bytes))

\* A file that is not there, or too large a chunk
DownloadRefused(n) == bytes = NoFile \/ n > MaxChunkSize

\* Mutants: done only when the chunk ends where the file does; one byte too early.
IsDoneExactly(o, n) == o + n = Len(bytes)
IsDoneEarly(o, n) == o + n + 1 >= Len(bytes)

\* Whether an answer says it is the last one; the file is measured anew for each.
IsDone(o, n) == o + n >= Len(bytes)

-----------------------------------------------------------------------------
(* The script *)

Run(n) ==
  /\ state = "idle"
  /\ state' = "asking" /\ size' = n /\ got' = <<>>
  /\ extended' = TRUE
  /\ UNCHANGED uvars

Receive ==
  /\ state = "asking" /\ ~DownloadRefused(size)
  /\ got' = got \o ChunkAt(Len(got), size)
  /\ state' = IF IsDone(Len(got), size) THEN "done" ELSE "asking"
  /\ UNCHANGED <<uvars, size, extended>>

\* It gives up at the first error, its own or the canister's.
GiveUp ==
  /\ state = "asking"
  /\ state' = "failed"
  /\ UNCHANGED <<uvars, size, got, extended>>

Ask == Receive \/ (DownloadRefused(size) /\ GiveUp)

-----------------------------------------------------------------------------
(* The file meanwhile *)

Grew == bytes # NoFile /\ bytes' # NoFile /\ IsPrefix(bytes, bytes')

Meanwhile ==
  /\ UNext
  /\ extended' = (extended /\ (bytes' = bytes \/ Grew))
  /\ UNCHANGED <<state, size, got>>

DNext ==
  \/ \E n \in Sizes : Run(n)
  \/ Ask \/ GiveUp
  \/ Meanwhile

\* The script goes on.
DSpec == DInit /\ [][DNext]_dvars /\ WF_dvars(Ask)

-----------------------------------------------------------------------------
(* Properties *)

\* What the script calls a success is the file as it is then, neither torn nor
\* cut short, if the file only grew since the script began: also the chunks
\* that an upload added in the meantime are there.  If the file was uploaded in
\* order, the local copy is what its record describes.
DownloadIsIntact ==
  [][Receive /\ state' = "done" /\ extended =>
       /\ got' = bytes
       /\ whole => meta = [size |-> Len(got'), sha |-> got']]_dvars

\* The script ends, whatever is done to the file, if it asks for something.
DownloadEnds == state = "asking" /\ size > 0 ~> state # "asking"
=============================================================================
