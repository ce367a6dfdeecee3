---------------------------- MODULE UploadProofs ----------------------------
(***************************************************************************)
(* For every set of chunks and every bound: the types of Upload, and that  *)
(* the record and the running digest of a file uploaded in order are those *)
(* of its bytes.                                                           *)
(***************************************************************************)
EXTENDS Upload, SequenceTheorems, TLAPS

IInv == UTypeOK /\ MetaIsContent /\ DigestIsContent

\* A write at the end of the bytes is an append; any write leaves a sequence of
\* chunks and holes.
LEMMA WriteLemma ==
  ASSUME NEW s \in Seq(Chunks \cup {Hole}), NEW o \in Nat, NEW v \in Chunks
  PROVE  /\ WriteAt(s, o, v) \in Seq(Chunks \cup {Hole})
         /\ o = Len(s) => WriteAt(s, o, v) = Append(s, v)
<1> DEFINE n == IF Len(s) > o THEN Len(s) ELSE o + 1
<1>1. n \in Nat
  OBVIOUS
<1>2. ASSUME NEW i \in 1 .. n
      PROVE (IF i = o + 1 THEN v ELSE IF i <= Len(s) THEN s[i] ELSE Hole)
               \in Chunks \cup {Hole}
  OBVIOUS
<1>3. WriteAt(s, o, v) \in Seq(Chunks \cup {Hole})
  BY <1>1, <1>2 DEF WriteAt
<1>4. ASSUME o = Len(s)
      PROVE  WriteAt(s, o, v) = Append(s, v)
  <2> DEFINE t == Append(s, v)
             S == Chunks \cup {Hole}
  <2>0. s \in Seq(S) /\ v \in S
    OBVIOUS
  <2>1. /\ t \in Seq(S) /\ Len(t) = Len(s) + 1 /\ t[Len(s) + 1] = v
        /\ \A i \in 1 .. Len(s) : t[i] = s[i]
    <3> HIDE DEF S
    <3> QED
      BY <2>0
  <2>2. \A i \in 1 .. Len(s) : t[i] = s[i]
    BY <2>1
  <2>3. n = Len(s) + 1
    BY <1>4
  <2>4. Len(WriteAt(s, o, v)) = Len(s) + 1
    BY <1>1, <2>3 DEF WriteAt
  <2>5. ASSUME NEW i \in 1 .. Len(s) + 1
        PROVE  WriteAt(s, o, v)[i] = t[i]
    BY <1>4, <2>1, <2>2, <2>3 DEF WriteAt
  <2> HIDE DEF t, S, n
  <2> QED
    BY <1>3, <2>1, <2>4, <2>5, SeqEqual DEF S, t
<1> QED
  BY <1>3, <1>4

\* The session a chunk finds has the type of a session, and is the one in memory
\* unless there is none or the offset is 0.
LEMMA SessionLemma ==
  ASSUME UTypeOK, NEW o \in Nat
  PROVE  /\ SessionAt(o) \in [first : BOOLEAN, previous : Nat \cup {Overflow},
                              sha : Digest]
         /\ o = 0 => SessionAt(o).sha = <<>> /\ SessionAt(o).first = TRUE
         /\ o # 0 /\ session # NoSession => SessionAt(o) = session
         /\ Opened(o) \in Seq(Chunks \cup {Hole})
  BY DEF UTypeOK, SessionAt, Opened, Digest

\* Initially nothing is uploaded.
LEMMA InitLemma == UInit => IInv
<1> SUFFICES ASSUME UInit PROVE IInv
  OBVIOUS
<1>1. Err \in [ok : BOOLEAN, size : Nat, sha : Digest]
  BY DEF Err, Digest
<1>2. UTypeOK
  BY <1>1 DEF UInit, UTypeOK
<1>3. MetaIsContent /\ DigestIsContent
  BY DEF UInit, MetaIsContent, DigestIsContent
<1> QED
  BY <1>2, <1>3 DEF IInv

\* A retried chunk leaves the bytes, the record and the digest alone.
LEMMA RetryLemma ==
  ASSUME IInv, NEW o \in Offsets, RetriedChunk(o)
  PROVE  IInv'
<1> o \in Nat
  BY MaxOffsetAssumption DEF Offsets
<1> USE DEF IInv
<1>1. o # 0
  BY SessionLemma DEF RetriedChunk, AlreadyHandled
<1>2. UTypeOK'
  BY SessionLemma DEF RetriedChunk, UTypeOK, OkReply, Err, Meta, Digest
<1>3. whole' => whole /\ session # NoSession /\ session' = session /\ bytes' = bytes
                  /\ meta' = meta
  BY <1>1, SessionLemma DEF RetriedChunk, Opened, MetaIsContent, UTypeOK
<1> QED
  BY <1>2, <1>3 DEF MetaIsContent, DigestIsContent

\* A new chunk at the end of the bytes extends the bytes and the digest alike.
LEMMA NewLemma ==
  ASSUME IInv, NEW o \in Offsets, NEW v \in Chunks, NewChunk(o, v)
  PROVE  IInv'
<1> DEFINE sha == Append(SessionAt(o).sha, v)
<1> o \in Nat
  BY MaxOffsetAssumption DEF Offsets
<1>1. UTypeOK
  BY DEF IInv
<1>2. /\ SessionAt(o).sha \in Digest /\ Opened(o) \in Seq(Chunks \cup {Hole})
  BY <1>1, SessionLemma
<1>3. sha \in Digest
  BY <1>2 DEF Digest
<1>4. UTypeOK'
  <2>1. bytes' \in Seq(Chunks \cup {Hole})
    BY <1>2, WriteLemma DEF NewChunk
  <2>2. session' \in [first : BOOLEAN, previous : Nat \cup {Overflow}, sha : Digest]
    BY <1>3 DEF NewChunk
  <2>3. meta' \in Meta
    BY <1>3 DEF NewChunk, Meta
  <2>4. reply' \in [ok : BOOLEAN, size : Nat, sha : Digest]
    BY <2>3 DEF NewChunk, OkReply, Meta
  <2>5. whole' \in BOOLEAN
    BY <1>1 DEF NewChunk, UTypeOK
  <2> QED
    BY <2>1, <2>2, <2>3, <2>4, <2>5 DEF UTypeOK
<1>5. ASSUME whole'
      PROVE  bytes' = sha /\ meta'.size = Len(bytes')
  <2>1. CASE o = 0
    <3>1. Opened(o) = <<>> /\ SessionAt(o).sha = <<>>
      BY <2>1, <1>1, SessionLemma DEF Opened
    <3>2. <<>> \in Seq(Chunks \cup {Hole}) /\ Len(<<>>) = 0
      OBVIOUS
    <3>3. WriteAt(<<>>, 0, v) = Append(<<>>, v)
      BY <3>2, WriteLemma
    <3>4. bytes' = Append(<<>>, v) /\ sha = Append(<<>>, v)
      BY <3>1, <3>3, <2>1 DEF NewChunk
    <3>5. Len(Append(<<>>, v)) = 1
      OBVIOUS
    <3> QED
      BY <3>4, <3>5, <2>1 DEF NewChunk
  <2>2. CASE o # 0
    <3>1. whole /\ session # NoSession /\ o = Len(bytes)
      BY <2>2, <1>5 DEF NewChunk
    <3>2. bytes # NoFile /\ bytes \in Seq(Chunks \cup {Hole}) /\ session.sha = bytes
      BY <3>1, <1>1 DEF IInv, MetaIsContent, DigestIsContent, UTypeOK
    <3>3. Opened(o) = bytes /\ SessionAt(o).sha = bytes
      BY <3>1, <3>2, <2>2, <1>1, SessionLemma DEF Opened
    <3>4. WriteAt(bytes, o, v) = Append(bytes, v)
      BY <3>1, <3>2, WriteLemma
    <3>5. bytes' = Append(bytes, v) /\ sha = Append(bytes, v)
      BY <3>3, <3>4 DEF NewChunk
    <3>6. Len(bytes') = o + 1
      BY <3>1, <3>2, <3>5
    <3> QED
      BY <3>5, <3>6 DEF NewChunk
  <2> QED
    BY <2>1, <2>2
<1>6. MetaIsContent' /\ DigestIsContent'
  <2>1. meta' = [size |-> o + 1, sha |-> sha] /\ session'.sha = sha
    BY DEF NewChunk
  <2>2. bytes' \in Seq(Chunks \cup {Hole})
    BY <1>2, WriteLemma DEF NewChunk
  <2>3. bytes' # NoFile
    BY <2>2, NoFileIsNoSequence
  <2> QED
    BY <1>5, <2>1, <2>3 DEF MetaIsContent, DigestIsContent
<1> QED
  BY <1>4, <1>6 DEF IInv

\* Everything else leaves what the invariant speaks of alone, or says that the
\* file is not whole.
LEMMA OtherLemma ==
  ASSUME IInv,
         \/ ChunkTooLarge \/ OverflowingChunk
         \/ \E o \in Offsets : OpenFails(o)
         \/ RemoveFile \/ CleanupFile \/ \E v \in Chunks : OverwriteFile(<<v>>)
         \/ UpgradeUpload \/ UNCHANGED uvars
  PROVE  IInv'
<1>1. UTypeOK
  BY DEF IInv
<1>2. CASE ChunkTooLarge
  BY <1>2 DEF IInv, ChunkTooLarge, UTypeOK, MetaIsContent, DigestIsContent, Err, Digest
<1>3. CASE OverflowingChunk
  <2>1. MaxOffset + 1 \in Nat /\ MaxOffset + 1 # 0
    BY MaxOffsetAssumption
  <2>2. UTypeOK'
    BY <1>1, <1>3, <2>1, SessionLemma
       DEF OverflowingChunk, UTypeOK, OkReply, Err, Meta, Digest
  <2>3. CASE ~whole'
    BY <2>2, <2>3 DEF IInv, MetaIsContent, DigestIsContent
  <2>4. CASE whole'
    <3>1. whole /\ session # NoSession /\ meta' = meta
      BY <1>3, <2>4 DEF OverflowingChunk
    <3>2. bytes' = bytes
      BY <1>3, <3>1, <2>1 DEF OverflowingChunk, Opened, IInv, MetaIsContent
    <3>3. session'.sha = session.sha
      BY <1>1, <1>3, <3>1, <2>1, SessionLemma DEF OverflowingChunk, UTypeOK
    <3> QED
      BY <2>2, <3>1, <3>2, <3>3 DEF IInv, MetaIsContent, DigestIsContent
  <2> QED
    BY <2>3, <2>4
<1>4. CASE \E o \in Offsets : OpenFails(o)
  <2>1. PICK o \in Offsets : OpenFails(o)
    BY <1>4
  <2>2. o \in Nat
    BY MaxOffsetAssumption DEF Offsets
  <2>3. UTypeOK'
    BY <1>1, <2>1, <2>2, SessionLemma DEF OpenFails, UTypeOK, Err, Digest
  <2>4. whole' => whole /\ session' = session /\ bytes' = bytes /\ meta' = meta
                    /\ session # NoSession
    BY <1>1, <2>1, <2>2, SessionLemma DEF OpenFails
  <2> QED
    BY <2>3, <2>4 DEF IInv, MetaIsContent, DigestIsContent
<1>5. CASE RemoveFile \/ CleanupFile
  BY <1>5 DEF IInv, RemoveFile, CleanupFile, UTypeOK, MetaIsContent, DigestIsContent
<1>6. CASE \E v \in Chunks : OverwriteFile(<<v>>)
  <2>1. PICK v \in Chunks : OverwriteFile(<<v>>)
    BY <1>6
  <2>2. <<v>> \in Seq(Chunks \cup {Hole})
    OBVIOUS
  <2> QED
    BY <1>1, <2>1, <2>2 DEF IInv, OverwriteFile, UTypeOK, MetaIsContent, DigestIsContent
<1>7. CASE UpgradeUpload
  BY <1>7 DEF IInv, UpgradeUpload, UTypeOK, MetaIsContent, DigestIsContent
<1>8. CASE UNCHANGED uvars
  BY <1>8 DEF IInv, uvars, UTypeOK, MetaIsContent, DigestIsContent
<1> QED
  BY <1>2, <1>3, <1>4, <1>5, <1>6, <1>7, <1>8

\* Every step keeps the invariant.
LEMMA NextLemma == IInv /\ [UNext]_uvars => IInv'
<1> SUFFICES ASSUME IInv, [UNext]_uvars PROVE IInv'
  OBVIOUS
<1>1. CASE \E o \in Offsets, v \in Chunks : Chunk(o, v)
  BY <1>1, RetryLemma, NewLemma DEF Chunk
<1>2. CASE ~ \E o \in Offsets, v \in Chunks : Chunk(o, v)
  BY <1>2, OtherLemma DEF UNext
<1> QED
  BY <1>1, <1>2

\* Type correctness of the upload.
THEOREM UploadTypeCorrect == USpec => []UTypeOK
<1>1. IInv => UTypeOK
  BY DEF IInv
<1> QED
  BY <1>1, InitLemma, NextLemma, PTL DEF USpec

\* The record of a file uploaded in order is that of its bytes, and its digest
\* is ready for the next chunk, whatever retries, failures, other uploads and
\* upgrades came between.
THEOREM RecordIsTrue == USpec => [](MetaIsContent /\ DigestIsContent)
<1>1. IInv => MetaIsContent /\ DigestIsContent
  BY DEF IInv
<1> QED
  BY <1>1, InitLemma, NextLemma, PTL DEF USpec
=============================================================================
