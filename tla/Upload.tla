------------------------------- MODULE Upload -------------------------------
(***************************************************************************)
(* The upload of one file by chunks (file_upload_chunk_, behind            *)
(* file_upload_chunk and upload_prompt_cache_chunk), and what else touches *)
(* the file, its metadata record, or the upload session.                   *)
(*                                                                         *)
(* Three things about a file live in three places: its bytes in the file   *)
(* system, a record (size and SHA-256) in the metadata file, and an upload *)
(* session in memory that holds the running SHA-256 and the offset of the  *)
(* last chunk.  Nothing keeps them together: the record is computed from   *)
(* the chunks that went by, never from the bytes.                          *)
(*                                                                         *)
(* A chunk is one unit of bytes, and offsets count units.  A digest is the *)
(* sequence of chunks it was fed.  Opening a file for writing without      *)
(* trunc keeps its bytes, as test_promptcache.py sees on the canister.     *)
(***************************************************************************)
EXTENDS Naturals, Sequences

CONSTANTS
  Chunks,      \* contents of a chunk
  MaxOffset,   \* offsets are 0..MaxOffset
  MaxDigest,   \* bound: chunks fed to one digest
  Hole,        \* bytes between the end of a file and a later write
  NoFile, NoMeta, NoSession, Overflow

ASSUME MaxOffsetAssumption == MaxOffset \in Nat /\ MaxDigest \in Nat
ASSUME HoleAssumption == Hole \notin Chunks
ASSUME OverflowAssumption == Overflow \notin Nat
ASSUME NoFileIsNoSequence ==
  /\ NoFile \notin Seq(Chunks \cup {Hole})
  /\ NoSession \notin [first : BOOLEAN, previous : Nat \cup {Overflow}, sha : Seq(Chunks)]
  /\ NoMeta \notin [size : Nat, sha : Seq(Chunks)]

VARIABLES
  bytes,     \* the file
  meta,      \* its record in uploaded_files_metadata.dat
  session,   \* its entry in upload_sessions
  reply,     \* the answer to the last chunk
  whole      \* history: the chunks since the last offset 0 followed one another,
             \* in one life of the canister, and nothing else wrote the file

uvars == <<bytes, meta, session, reply, whole>>

Offsets == 0 .. MaxOffset
Digest == Seq(Chunks)
Meta == [size : Nat, sha : Digest]
Err == [ok |-> FALSE, size |-> 0, sha |-> <<>>]
OkReply(m) == [ok |-> TRUE, size |-> m.size, sha |-> m.sha]

UTypeOK ==
  /\ bytes \in Seq(Chunks \cup {Hole}) \cup {NoFile}
  /\ meta \in Meta \cup {NoMeta}
  /\ session \in [first : BOOLEAN, previous : Nat \cup {Overflow}, sha : Digest]
                   \cup {NoSession}
  /\ reply \in [ok : BOOLEAN, size : Nat, sha : Digest]
  /\ whole \in BOOLEAN

UInit ==
  /\ bytes = NoFile /\ meta = NoMeta /\ session = NoSession
  /\ reply = Err /\ whole = FALSE

-----------------------------------------------------------------------------
(* file_upload_chunk_ *)

\* Mutant: offset 0 does not start the digest anew.
SessionAtKeeping(o) ==
  IF session = NoSession THEN [first |-> o = 0, previous |-> 0, sha |-> <<>>]
  ELSE [session EXCEPT !.first = (o = 0)]

\* The session a chunk finds: offset 0 starts it anew; an entry that was not
\* there is zero-initialised.
SessionAt(o) ==
  IF o = 0 THEN [first |-> TRUE, previous |-> 0, sha |-> <<>>]
  ELSE IF session = NoSession THEN [first |-> FALSE, previous |-> 0, sha |-> <<>>]
  ELSE session

\* Mutant: every chunk truncates the file.
OpenedTruncating(o) == <<>>

\* Opening the file creates it; offset 0 truncates it.
Opened(o) == IF o = 0 \/ bytes = NoFile THEN <<>> ELSE bytes

AlreadyHandled(o) == ~SessionAt(o).first /\ o = SessionAt(o).previous

WriteAt(s, o, v) ==
  [i \in 1 .. (IF Len(s) > o THEN Len(s) ELSE o + 1) |->
     IF i = o + 1 THEN v ELSE IF i <= Len(s) THEN s[i] ELSE Hole]

\* A chunk over 2 MB is refused first.
ChunkTooLarge ==
  /\ reply' = Err
  /\ UNCHANGED <<bytes, meta, session, whole>>

\* The file cannot be opened: the session was touched already.
OpenFails(o) ==
  /\ session' = SessionAt(o)
  /\ reply' = Err
  /\ whole' = (whole /\ o # 0 /\ session # NoSession)
  /\ UNCHANGED <<bytes, meta>>

\* A retry is answered with the record as it stands.
RetriedChunk(o) ==
  /\ AlreadyHandled(o)
  /\ session' = SessionAt(o)
  /\ bytes' = Opened(o)
  /\ reply' = IF meta = NoMeta THEN Err ELSE OkReply(meta)
  /\ whole' = (whole /\ session # NoSession)
  /\ UNCHANGED meta

\* Mutant: the offset of the last chunk is not remembered.
NewChunkForgetting(o, v) ==
  LET sha == Append(SessionAt(o).sha, v)
  IN  /\ bytes' = WriteAt(Opened(o), o, v)
      /\ session' = [first |-> TRUE, previous |-> 0, sha |-> sha]
      /\ meta' = [size |-> o + 1, sha |-> sha]
      /\ reply' = OkReply(meta')
      /\ whole' = (o = 0 \/ (whole /\ session # NoSession /\ o = Len(bytes)))

NewChunk(o, v) ==
  LET sha == Append(SessionAt(o).sha, v)
  IN  /\ ~AlreadyHandled(o)
      /\ bytes' = WriteAt(Opened(o), o, v)
      /\ session' = [first |-> FALSE, previous |-> o, sha |-> sha]
      /\ meta' = [size |-> o + 1, sha |-> sha]
      /\ reply' = OkReply(meta')
      /\ whole' = (o = 0 \/ (whole /\ session # NoSession /\ o = Len(bytes)))

\* offset + size overflows 64 bits: the check comes after the write, which the
\* file system refuses, and after the session has taken the offset.  Sent
\* again, the chunk counts as handled.
OverflowingChunk ==
  LET s == SessionAt(MaxOffset + 1)
      retried == ~s.first /\ s.previous = Overflow
  IN  /\ bytes' = Opened(MaxOffset + 1)
      /\ session' = IF retried THEN s ELSE [s EXCEPT !.first = FALSE,
                                                     !.previous = Overflow]
      /\ reply' = IF retried /\ meta # NoMeta THEN OkReply(meta) ELSE Err
      /\ whole' = (whole /\ session # NoSession)
      /\ UNCHANGED meta

Chunk(o, v) ==
  RetriedChunk(o) \/ (Len(SessionAt(o).sha) < MaxDigest /\ NewChunk(o, v))

-----------------------------------------------------------------------------
(* Everything else *)

\* filesystem_remove and remove_prompt_cache leave the record and the session.
RemoveFile ==
  /\ bytes # NoFile
  /\ bytes' = NoFile /\ whole' = FALSE
  /\ UNCHANGED <<meta, session, reply>>

\* Mutant: the record is blanked, not erased.
CleanupFileBlanking ==
  /\ bytes # NoFile
  /\ bytes' = NoFile /\ meta' = [size |-> 0, sha |-> NoMeta] /\ whole' = FALSE
  /\ UNCHANGED <<session, reply>>

\* The cache cleanup deletes a file and its record, not the session.
CleanupFile ==
  /\ bytes # NoFile
  /\ bytes' = NoFile /\ meta' = NoMeta /\ whole' = FALSE
  /\ UNCHANGED <<session, reply>>

\* A run saves its session in the file, or a cache is copied over it.
OverwriteFile(s) ==
  /\ bytes' = s /\ whole' = FALSE
  /\ UNCHANGED <<meta, session, reply>>

\* An upgrade forgets the sessions; the record is on disk.
UpgradeUpload ==
  /\ session' = NoSession
  /\ UNCHANGED <<bytes, meta, reply, whole>>

-----------------------------------------------------------------------------

UNext ==
  \/ \E o \in Offsets, v \in Chunks : Chunk(o, v)
  \/ ChunkTooLarge \/ OverflowingChunk
  \/ \E o \in Offsets : OpenFails(o)
  \/ RemoveFile \/ CleanupFile \/ \E v \in Chunks : OverwriteFile(<<v>>)
  \/ UpgradeUpload

USpec == UInit /\ [][UNext]_uvars

-----------------------------------------------------------------------------
(* Properties *)

\* The record tells the size and the digest of the bytes in the file, as long
\* as its chunks came in order: through retries, refused chunks, an upload
\* begun anew, and upgrades between two uploads.
MetaIsContent ==
  whole => bytes # NoFile /\ meta = [size |-> Len(bytes), sha |-> bytes]

\* The running digest is of the chunks written since offset 0, so that the next
\* chunk in order extends it.
DigestIsContent == whole /\ session # NoSession => session.sha = bytes
=============================================================================
