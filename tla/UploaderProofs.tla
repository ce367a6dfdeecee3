--------------------------- MODULE UploaderProofs ---------------------------
(***************************************************************************)
(* Proofs about the upload script, for any local file, any number of       *)
(* retries and of late attempts.                                           *)
(*                                                                         *)
(* The script compares a digest of the chunks that were executed with that *)
(* of its file; what the digest was fed is also in the file, at the offset *)
(* it came with (Kept).  If no two inner chunks are equal, a digest that   *)
(* is that of the file was fed every chunk.  Without late attempts the     *)
(* file is a beginning of the local one (InOrder), and without an upgrade  *)
(* every answer is that of the file (Steady).                              *)
(***************************************************************************)
EXTENDS Uploader, UploadProofs

\* Chunk n of the local file is in its place in a file.
Written(b, n) == n \in 1 .. Len(b) /\ b[n] = Local[n]

\* Every chunk a digest was fed is in its place.
AllWritten(b, sha) ==
  \A k \in 1 .. Len(sha) :
     \E n \in 1 .. Len(Local) : sha[k] = Local[n] /\ Written(b, n)

-----------------------------------------------------------------------------
(* The invariant *)

\* Where the script is in its file.
Progress ==
  /\ step \in {"send", "wait"} => index < Len(Local)
  /\ step \in {"compare", "verify"} => index = Len(Local)

\* A file begins with its first chunk.
Began ==
  bytes = NoFile =>
    /\ session = NoSession /\ meta = NoMeta /\ index = 0
    /\ step = "wait" => ~executed
    /\ \A i \in Indices : late[i] > 0 => i = 0

\* What was fed is kept.
Kept ==
  /\ bytes # NoFile => Len(bytes) <= Len(Local) /\ Written(bytes, 1)
  /\ session # NoSession =>
       ~session.first /\ session.previous \in 0 .. Len(bytes) - 1 /\ AllWritten(bytes, session.sha)
  /\ meta # NoMeta => Written(bytes, meta.size) /\ AllWritten(bytes, meta.sha)

\* The chunks came in the order in which they were sent.
InOrder ==
  bytes # NoFile =>
    /\ \A n \in 1 .. Len(bytes) : Written(bytes, n)
    /\ Len(bytes) \in {index, index + 1}
    /\ step = "wait" /\ executed => Len(bytes) = index + 1

\* The session and the record follow the file.
Steady ==
  /\ bytes # NoFile =>
       whole /\ session # NoSession /\ session.previous = Len(bytes) - 1
  /\ step = "wait" /\ executed => reply = OkReply(meta)
  /\ step = "compare" => Matches(last)

UpInv ==
  /\ IInv /\ ScriptTypeOK /\ Progress
  /\ ~removed => Began /\ Kept
  /\ ~removed /\ ~overtaken => InOrder
  /\ ~removed /\ ~overtaken /\ ~upgraded => Steady

-----------------------------------------------------------------------------
(* Lemmas *)

LEMMA LocalIs ==
  /\ Len(Local) \in Nat \ {0}
  /\ \A n \in 1 .. Len(Local) : Local[n] \in Chunks
  /\ \A i \in Indices : /\ i \in Nat /\ i \in Offsets /\ i + 1 \in 1 .. Len(Local)
                        /\ Local[i + 1] \in Chunks
<1>1. Len(Local) \in Nat \ {0} /\ Len(Local) <= MaxOffset + 1 /\ MaxOffset \in Nat
  BY LocalAssumption, MaxOffsetAssumption
<1>2. \A n \in 1 .. Len(Local) : Local[n] \in Chunks
  BY LocalAssumption, ElementOfSeq
<1>3. ASSUME NEW i \in Indices
      PROVE  i \in Nat /\ i \in Offsets /\ i + 1 \in 1 .. Len(Local)
  BY <1>1 DEF Indices, Offsets
<1> QED BY <1>1, <1>2, <1>3

\* What a write leaves in the file.
LEMMA WriteIs ==
  ASSUME NEW s \in Seq(Chunks \cup {Hole}), NEW o \in Nat, NEW v \in Chunks
  PROVE  LET t == WriteAt(s, o, v)
         IN  /\ Len(t) = IF Len(s) > o THEN Len(s) ELSE o + 1
             /\ t[o + 1] = v
             /\ \A i \in 1 .. Len(s) : i # o + 1 => t[i] = s[i]
<1> DEFINE n == IF Len(s) > o THEN Len(s) ELSE o + 1
<1>1. n \in Nat /\ o + 1 \in 1 .. n /\ \A i \in 1 .. Len(s) : i \in 1 .. n
  OBVIOUS
<1>2. WriteAt(s, o, v) = [i \in 1 .. n |->
         IF i = o + 1 THEN v ELSE IF i <= Len(s) THEN s[i] ELSE Hole]
  BY DEF WriteAt
<1>3. Len(WriteAt(s, o, v)) = n
  BY <1>1, <1>2
<1> QED BY <1>1, <1>2, <1>3

\* A retried chunk changes nothing.
LEMMA RetriedIs ==
  ASSUME UTypeOK, NEW o \in Nat, RetriedChunk(o), bytes = NoFile => session = NoSession
  PROVE  /\ o # 0 /\ session # NoSession /\ session.previous = o
         /\ UNCHANGED <<bytes, session, meta>> /\ whole' = whole
         /\ reply' = IF meta = NoMeta THEN Err ELSE OkReply(meta)
<1>1. o # 0
  BY SessionLemma DEF RetriedChunk, AlreadyHandled
<1>2. session # NoSession
  BY <1>1 DEF RetriedChunk, AlreadyHandled, SessionAt
<1>3. bytes # NoFile /\ SessionAt(o) = session /\ Opened(o) = bytes
  BY <1>1, <1>2, SessionLemma DEF Opened
<1>4. whole \in BOOLEAN
  BY DEF UTypeOK
<1> QED BY <1>1, <1>2, <1>3, <1>4 DEF RetriedChunk, AlreadyHandled

\* A new chunk is in its place, and so is what was there before, but a first
\* chunk begins the file anew.
LEMMA NewChunkIs ==
  ASSUME UTypeOK, NEW o \in Indices, NewChunk(o, Local[o + 1]), bytes = NoFile => o = 0
  PROVE  /\ bytes' \in Seq(Chunks \cup {Hole}) /\ bytes' # NoFile
         /\ Len(bytes') = IF o # 0 /\ Len(bytes) > o THEN Len(bytes) ELSE o + 1
         /\ bytes'[o + 1] = Local[o + 1]
         /\ o # 0 => \A i \in 1 .. Len(bytes) : i # o + 1 => bytes'[i] = bytes[i]
         /\ session' = [first |-> FALSE, previous |-> o,
                        sha |-> Append(SessionAt(o).sha, Local[o + 1])]
         /\ meta' = [size |-> o + 1, sha |-> session'.sha] /\ reply' = OkReply(meta')
         /\ SessionAt(o).sha \in Seq(Chunks)
         /\ session' # NoSession /\ meta' # NoMeta
<1>1. /\ o \in Nat /\ Local[o + 1] \in Chunks
      /\ Opened(o) \in Seq(Chunks \cup {Hole}) /\ SessionAt(o).sha \in Seq(Chunks)
  BY LocalIs, SessionLemma DEF Digest
<1>2. /\ bytes' = WriteAt(Opened(o), o, Local[o + 1])
      /\ session' = [first |-> FALSE, previous |-> o,
                     sha |-> Append(SessionAt(o).sha, Local[o + 1])]
      /\ meta' = [size |-> o + 1, sha |-> session'.sha] /\ reply' = OkReply(meta')
  BY DEF NewChunk
<1>3. bytes' \in Seq(Chunks \cup {Hole}) /\ bytes' # NoFile
  BY <1>1, <1>2, WriteLemma, NoFileIsNoSequence
<1>4. /\ Len(bytes') = IF Len(Opened(o)) > o THEN Len(Opened(o)) ELSE o + 1
      /\ bytes'[o + 1] = Local[o + 1]
      /\ \A i \in 1 .. Len(Opened(o)) : i # o + 1 => bytes'[i] = Opened(o)[i]
  BY <1>1, <1>2, WriteIs
<1>5. o # 0 => Opened(o) = bytes
  BY DEF Opened
<1>6. o = 0 => Opened(o) = <<>>
  BY DEF Opened
<1>7. Append(SessionAt(o).sha, Local[o + 1]) \in Seq(Chunks)
  BY <1>1, AppendProperties
<1>8. session' # NoSession
  <2>1. session' \in [first : BOOLEAN, previous : Nat \cup {Overflow}, sha : Seq(Chunks)]
    BY <1>1, <1>2, <1>7
  <2> QED BY <2>1, NoFileIsNoSequence
<1>9. meta' # NoMeta
  <2>1. meta' \in [size : Nat, sha : Seq(Chunks)]
    BY <1>1, <1>2, <1>7
  <2> QED BY <2>1, NoFileIsNoSequence
<1>10. Len(bytes') = IF o # 0 /\ Len(bytes) > o THEN Len(bytes) ELSE o + 1
  <2>1. CASE o = 0
    BY <1>1, <1>4, <1>6, <2>1
  <2>2. CASE o # 0
    BY <1>4, <1>5, <2>2
  <2> QED BY <2>1, <2>2
<1>11. o # 0 => \A i \in 1 .. Len(bytes) : i # o + 1 => bytes'[i] = bytes[i]
  BY <1>4, <1>5
<1> QED BY <1>1, <1>2, <1>3, <1>4, <1>8, <1>9, <1>10, <1>11

\* A digest that is fed one more chunk.
LEMMA AllWrittenGrows ==
  ASSUME NEW sha \in Seq(Chunks), NEW o \in Indices,
         NEW b, AllWritten(b, sha), Written(b, o + 1)
  PROVE  AllWritten(b, Append(sha, Local[o + 1]))
<1>1. o + 1 \in 1 .. Len(Local) /\ Local[o + 1] \in Chunks /\ Len(sha) \in Nat
  BY LocalIs
<1>2. /\ Len(Append(sha, Local[o + 1])) = Len(sha) + 1
      /\ Append(sha, Local[o + 1])[Len(sha) + 1] = Local[o + 1]
      /\ \A k \in 1 .. Len(sha) : Append(sha, Local[o + 1])[k] = sha[k]
  BY <1>1, AppendProperties
<1>3. ASSUME NEW k \in 1 .. Len(sha) + 1
      PROVE  \E n \in 1 .. Len(Local) :
                Append(sha, Local[o + 1])[k] = Local[n] /\ Written(b, n)
  <2>1. CASE k = Len(sha) + 1
    BY <1>1, <1>2, <2>1
  <2>2. CASE k # Len(sha) + 1
    <3>1. k \in 1 .. Len(sha)
      BY <1>1, <2>2
    <3> QED BY <1>2, <3>1 DEF AllWritten
  <2> QED BY <2>1, <2>2
<1> QED BY <1>2, <1>3 DEF AllWritten, Written

\* An executed chunk is in the file, and what was there is kept.
LEMMA ChunkKeeps ==
  ASSUME UTypeOK, Began, Kept, NEW o \in Indices, bytes = NoFile => o = 0,
         Chunk(o, Local[o + 1])
  PROVE  Kept' /\ bytes' # NoFile
<1>1. o \in Nat /\ o + 1 \in 1 .. Len(Local) /\ Len(Local) \in Nat
  BY LocalIs
<1>2. CASE RetriedChunk(o)
  <2>1. session # NoSession /\ UNCHANGED <<bytes, session, meta>>
    BY <1>1, <1>2, RetriedIs DEF Began
  <2>2. bytes # NoFile
    BY <2>1 DEF Began
  <2>3. Kept'
    BY <2>1 DEF Kept, Written, AllWritten
  <2> QED BY <2>1, <2>2, <2>3
<1>3. CASE NewChunk(o, Local[o + 1])
  <2>1. /\ bytes' \in Seq(Chunks \cup {Hole}) /\ bytes' # NoFile
        /\ Len(bytes') = IF o # 0 /\ Len(bytes) > o THEN Len(bytes) ELSE o + 1
        /\ bytes'[o + 1] = Local[o + 1]
        /\ o # 0 => \A i \in 1 .. Len(bytes) : i # o + 1 => bytes'[i] = bytes[i]
        /\ session' = [first |-> FALSE, previous |-> o,
                       sha |-> Append(SessionAt(o).sha, Local[o + 1])]
        /\ meta' = [size |-> o + 1, sha |-> session'.sha]
        /\ SessionAt(o).sha \in Seq(Chunks)
        /\ session' # NoSession /\ meta' # NoMeta
    BY <1>3, NewChunkIs
  <2>2. /\ o # 0 => bytes # NoFile /\ Len(bytes) \in Nat /\ Len(bytes) <= Len(Local)
        /\ Len(bytes') \in Nat
    BY <2>1, LenProperties DEF Kept, UTypeOK
  <2>3. Written(bytes', o + 1) /\ Len(bytes') <= Len(Local) /\ o \in 0 .. Len(bytes') - 1
    BY <1>1, <2>1, <2>2 DEF Written
  <2>4. ASSUME o # 0, NEW n \in Nat, Written(bytes, n) PROVE Written(bytes', n)
    <3>1. n \in 1 .. Len(bytes) /\ bytes[n] = Local[n] /\ Len(bytes) <= Len(bytes')
      BY <1>1, <2>1, <2>2, <2>4 DEF Written
    <3>2. n \in 1 .. Len(bytes')
      BY <2>2, <2>4, <3>1
    <3>3. bytes'[n] = Local[n]
      BY <2>1, <2>4, <3>1
    <3> QED BY <3>2, <3>3 DEF Written
  <2>5. Written(bytes', 1)
    <3>1. CASE o = 0
      BY <2>3, <3>1
    <3>2. CASE o # 0
      BY <2>2, <2>4, <3>2 DEF Kept
    <3> QED BY <3>1, <3>2
  <2>6. AllWritten(bytes', SessionAt(o).sha)
    <3>1. CASE o = 0 \/ session = NoSession
      <4>1. SessionAt(o).sha = <<>>
        BY <3>1 DEF SessionAt
      <4> QED BY <4>1 DEF AllWritten
    <3>2. CASE o # 0 /\ session # NoSession
      <4>1. AllWritten(bytes, session.sha) /\ SessionAt(o).sha = session.sha
        BY <3>2 DEF Kept, SessionAt
      <4>2. \A n \in 1 .. Len(Local) : Written(bytes, n) => Written(bytes', n)
        BY <1>1, <2>4, <3>2
      <4>3. \A k \in 1 .. Len(session.sha) :
               \E n \in 1 .. Len(Local) : session.sha[k] = Local[n] /\ Written(bytes', n)
        BY <4>1, <4>2 DEF AllWritten
      <4> QED BY <4>1, <4>3 DEF AllWritten
    <3> QED BY <3>1, <3>2
  <2>7. AllWritten(bytes', Append(SessionAt(o).sha, Local[o + 1]))
    BY <2>1, <2>3, <2>6, AllWrittenGrows
  <2>8. session'.sha = Append(SessionAt(o).sha, Local[o + 1])
    BY <2>1
  <2>9. AllWritten(bytes', session'.sha) /\ AllWritten(bytes', meta'.sha)
    BY <2>1, <2>7, <2>8
  <2> QED BY <2>1, <2>3, <2>5, <2>9 DEF Kept
<1> QED BY <1>2, <1>3 DEF Chunk

\* While the chunks come in order, the one that is executed is the next or the
\* last one of the file.
LEMMA ChunkInOrder ==
  ASSUME UTypeOK, Began, Kept, InOrder, index \in Indices,
         Chunk(index, Local[index + 1])
  PROVE  /\ bytes' # NoFile /\ Len(bytes') = index + 1
         /\ \A n \in 1 .. Len(bytes') : Written(bytes', n)
<1>1. index \in Nat
  BY LocalIs
<1>2. bytes = NoFile => index = 0 /\ session = NoSession
  BY DEF Began
<1>3. bytes # NoFile => /\ Len(bytes) \in {index, index + 1}
                        /\ \A n \in 1 .. Len(bytes) : Written(bytes, n)
  BY DEF InOrder
<1>4. CASE RetriedChunk(index)
  <2>1. /\ index # 0 /\ session # NoSession /\ session.previous = index
        /\ bytes' = bytes
    BY <1>1, <1>2, <1>4, RetriedIs
  <2>2. bytes # NoFile /\ session.previous \in 0 .. Len(bytes) - 1
    BY <1>2, <2>1 DEF Kept
  <2>3. Len(bytes) = index + 1
    BY <1>1, <1>3, <2>1, <2>2
  <2> QED BY <1>3, <2>1, <2>2, <2>3
<1>5. CASE NewChunk(index, Local[index + 1])
  <2>1. /\ bytes' # NoFile
        /\ Len(bytes') = IF index # 0 /\ Len(bytes) > index THEN Len(bytes) ELSE index + 1
        /\ bytes'[index + 1] = Local[index + 1]
        /\ index # 0 => \A i \in 1 .. Len(bytes) : i # index + 1 => bytes'[i] = bytes[i]
    BY <1>2, <1>5, NewChunkIs
  <2>2. Len(bytes') = index + 1
    BY <1>1, <1>2, <1>3, <2>1
  <2>3. ASSUME NEW n \in 1 .. index + 1 PROVE bytes'[n] = Local[n]
    <3>1. CASE n = index + 1
      BY <2>1, <3>1
    <3>2. CASE n # index + 1
      <4>1. index # 0 /\ n \in 1 .. index
        BY <1>1, <3>2
      <4>2. n \in 1 .. Len(bytes)
        BY <1>1, <1>2, <1>3, <4>1
      <4>3. bytes'[n] = bytes[n] /\ Written(bytes, n)
        BY <1>2, <1>3, <2>1, <3>2, <4>1, <4>2
      <4> QED BY <4>3 DEF Written
    <3> QED BY <3>1, <3>2
  <2> QED BY <2>1, <2>2, <2>3 DEF Written
<1> QED BY <1>4, <1>5 DEF Chunk

\* The record of a whole file that has a session.
LEMMA RecordIs ==
  ASSUME IInv, whole, session # NoSession
  PROVE  /\ bytes # NoFile /\ meta # NoMeta
         /\ OkReply(meta) = [ok |-> TRUE, size |-> Len(bytes), sha |-> bytes]
<1>1. /\ bytes # NoFile /\ meta = [size |-> Len(bytes), sha |-> bytes]
      /\ bytes \in Seq(Chunks)
  BY DEF IInv, MetaIsContent, DigestIsContent, UTypeOK, Digest
<1>2. meta \in [size : Nat, sha : Seq(Chunks)]
  BY <1>1, LenProperties
<1> QED BY <1>1, <1>2, NoFileIsNoSequence DEF OkReply

\* Without an upgrade a chunk finds the session that the last one left, and is
\* answered with the record.
LEMMA ChunkSteady ==
  ASSUME IInv, Began, Kept, InOrder, Steady, index \in Indices,
         Chunk(index, Local[index + 1])
  PROVE  /\ whole' /\ session' # NoSession /\ session'.previous = index
         /\ reply' = OkReply(meta')
<1>1. index \in Nat /\ UTypeOK
  BY LocalIs DEF IInv
<1>2. bytes = NoFile => index = 0 /\ session = NoSession
  BY DEF Began
<1>3. bytes # NoFile => /\ Len(bytes) \in {index, index + 1}
                        /\ whole /\ session # NoSession
                        /\ session.previous = Len(bytes) - 1 /\ ~session.first
  BY DEF InOrder, Steady, Kept
<1>4. CASE RetriedChunk(index)
  <2>1. /\ session # NoSession /\ session.previous = index
        /\ UNCHANGED <<bytes, session, meta>> /\ whole' = whole
        /\ reply' = IF meta = NoMeta THEN Err ELSE OkReply(meta)
    BY <1>1, <1>2, <1>4, RetriedIs
  <2>2. whole /\ meta # NoMeta
    BY <1>2, <1>3, <2>1, RecordIs
  <2> QED BY <2>1, <2>2
<1>5. CASE NewChunk(index, Local[index + 1])
  <2>1. /\ session' = [first |-> FALSE, previous |-> index,
                       sha |-> Append(SessionAt(index).sha, Local[index + 1])]
        /\ reply' = OkReply(meta') /\ session' # NoSession
    BY <1>1, <1>2, <1>5, NewChunkIs
  <2>2. /\ ~AlreadyHandled(index)
        /\ whole' = (index = 0 \/ (whole /\ session # NoSession /\ index = Len(bytes)))
    BY <1>5 DEF NewChunk
  <2>3. ASSUME index # 0 PROVE whole /\ session # NoSession /\ index = Len(bytes)
    <3>1. bytes # NoFile /\ session # NoSession
      BY <1>2, <1>3, <2>3
    <3>2. SessionAt(index) = session
      BY <1>1, <2>3, <3>1, SessionLemma
    <3>3. session.previous # index
      BY <1>3, <2>2, <3>1, <3>2 DEF AlreadyHandled
    <3> QED BY <1>1, <1>3, <3>1, <3>3
  <2>4. whole'
    <3>1. CASE index = 0
      BY <2>2, <3>1
    <3>2. CASE index # 0
      BY <2>2, <2>3, <3>2
    <3> QED BY <3>1, <3>2
  <2> QED BY <2>1, <2>4
<1> QED BY <1>4, <1>5 DEF Chunk

\* A file of which every chunk is in place is the local one.
LEMMA CompleteIsLocal ==
  ASSUME UTypeOK, bytes # NoFile, Len(bytes) = Len(Local),
         \A n \in 1 .. Len(Local) : bytes[n] = Local[n]
  PROVE  bytes = Local
<1> DEFINE S == Chunks \cup {Hole}
<1>1. bytes \in Seq(S)
  BY DEF UTypeOK
<1>2. Local \in Seq(S)
  <2>1. Local \in Seq(Chunks)
    BY LocalAssumption
  <2> QED BY <2>1
<1> HIDE DEF S
<1> QED BY <1>1, <1>2, SeqEqual

-----------------------------------------------------------------------------
(* The invariant holds *)

LEMMA UpInitHolds == UpInit => UpInv
<1> SUFFICES ASSUME UpInit PROVE UpInv
  OBVIOUS
<1>1. IInv
  BY InitLemma DEF UpInit
<1>2. ScriptTypeOK
  <2>1. late \in [Indices -> 0 .. MaxLate] /\ attempt \in 1 .. MaxRetries
    BY RetriesAssumption DEF UpInit
  <2>2. index \in 0 .. Len(Local)
    BY LocalIs DEF UpInit
  <2> QED BY <2>1, <2>2 DEF UpInit, ScriptTypeOK
<1>3. Progress /\ Began /\ Kept /\ InOrder /\ Steady
  BY LocalIs
  DEF UpInit, UInit, Progress, Began, Kept, InOrder, Steady
<1> QED BY <1>1, <1>2, <1>3 DEF UpInv

\* The chunk the script waits for is one of the file.
LEMMA Waiting ==
  ASSUME UpInv, step \in {"send", "wait"}
  PROVE  index \in Indices /\ index + 1 \in 0 .. Len(Local)
<1>1. index \in 0 .. Len(Local) /\ index < Len(Local)
  BY DEF UpInv, ScriptTypeOK, Progress
<1> QED BY <1>1, LocalIs DEF Indices

\* To the canister, a step of the script or of the world is one of its own.
LEMMA CanisterKeeps ==
  ASSUME UpInv, [UpNext]_upvars
  PROVE  IInv'
<1>1. IInv
  BY DEF UpInv
<1>2. ASSUME NEW i \in Indices, Chunk(i, Local[i + 1]) PROVE UNext
  BY <1>2, LocalIs DEF UNext
<1>3. CASE Execute
  BY <1>1, <1>2, <1>3, Waiting, NextLemma DEF Execute
<1>4. CASE \E i \in Indices : ExecuteLate(i)
  BY <1>1, <1>2, <1>4, NextLemma DEF ExecuteLate
<1>5. CASE Removed \/ Upgraded
  <2>1. UNext
    BY <1>5 DEF Removed, Upgraded, UNext
  <2> QED BY <1>1, <2>1, NextLemma
<1>6. CASE Send \/ Receive \/ TimeOut \/ Compare \/ Verify \/ Ended \/ UNCHANGED upvars
  <2>1. UNCHANGED uvars
    BY <1>6 DEF Send, Receive, TimeOut, Compare, Verify, Ended, upvars
  <2> QED BY <1>1, <2>1, NextLemma
<1> QED BY <1>3, <1>4, <1>5, <1>6 DEF UpNext, Script

LEMMA SendKeeps ==
  ASSUME UpInv, IInv', Send
  PROVE  UpInv'
<1>1. /\ step = "send" /\ step' = "wait" /\ executed' = FALSE
      /\ UNCHANGED <<uvars, index, attempt, late, last, history>>
  BY DEF Send
<1>2. ScriptTypeOK' /\ Progress'
  BY <1>1 DEF UpInv, ScriptTypeOK, Progress, history
<1>3. Began => Began'
  BY <1>1 DEF Began, uvars
<1>4. Kept => Kept'
  BY <1>1 DEF Kept, Written, AllWritten, uvars
<1>5. InOrder => InOrder'
  BY <1>1 DEF InOrder, Written, uvars
<1>6. Steady => Steady'
  BY <1>1 DEF Steady, uvars
<1> QED BY <1>1, <1>2, <1>3, <1>4, <1>5, <1>6 DEF UpInv, history

LEMMA ExecuteKeeps ==
  ASSUME UpInv, IInv', Execute
  PROVE  UpInv'
<1>1. /\ step = "wait" /\ Chunk(index, Local[index + 1]) /\ executed' = TRUE
      /\ UNCHANGED <<step, index, attempt, late, last, history>>
  BY DEF Execute
<1>2. index \in Indices /\ UTypeOK
  BY <1>1, Waiting DEF UpInv, IInv
<1>3. ScriptTypeOK' /\ Progress'
  BY <1>1 DEF UpInv, ScriptTypeOK, Progress, history
<1>4. ASSUME ~removed PROVE Began' /\ Kept'
  <2>1. Began /\ Kept
    BY <1>4 DEF UpInv
  <2>2. Kept' /\ bytes' # NoFile
    BY <1>1, <1>2, <2>1, ChunkKeeps DEF Began
  <2> QED BY <2>2 DEF Began
<1>5. ASSUME ~removed, ~overtaken PROVE InOrder'
  <2>1. Began /\ Kept /\ InOrder
    BY <1>5 DEF UpInv
  <2>2. /\ Len(bytes') = index + 1
        /\ \A n \in 1 .. Len(bytes') : Written(bytes', n)
    BY <1>1, <1>2, <2>1, ChunkInOrder
  <2>3. Len(bytes)' = index' + 1 /\ \A n \in 1 .. Len(bytes)' : Written(bytes, n)'
    BY <1>1, <2>2 DEF Written
  <2> QED BY <2>3 DEF InOrder
<1>6. ASSUME ~removed, ~overtaken, ~upgraded PROVE Steady'
  <2>1. IInv /\ Began /\ Kept /\ InOrder /\ Steady
    BY <1>6 DEF UpInv
  <2>2. /\ whole' /\ session' # NoSession /\ session'.previous = index
        /\ reply' = OkReply(meta')
    BY <1>1, <1>2, <2>1, ChunkSteady
  <2>3. Len(bytes') = index + 1
    BY <1>1, <1>2, <2>1, ChunkInOrder
  <2>4. index = Len(bytes') - 1
    BY <1>2, <2>3, LocalIs
  <2>5. OkReply(meta)' = OkReply(meta')
    BY DEF OkReply
  <2> QED BY <1>1, <2>2, <2>4, <2>5 DEF Steady
<1> QED BY <1>1, <1>3, <1>4, <1>5, <1>6 DEF UpInv, history

LEMMA ReceiveKeeps ==
  ASSUME UpInv, IInv', Receive
  PROVE  UpInv'
<1>1. /\ step = "wait" /\ executed /\ last' = reply
      /\ UNCHANGED <<uvars, executed, late, history>>
      /\ \/ ~reply.ok /\ step' = "failed" /\ UNCHANGED <<index, attempt>>
         \/ /\ index' = index + 1 /\ attempt' = 1
            /\ step' = IF index + 1 = Len(Local) THEN "compare" ELSE "send"
  BY DEF Receive
<1>2. index \in Indices /\ index + 1 \in 0 .. Len(Local) /\ index \in Nat
      /\ Len(Local) \in Nat \ {0}
  BY <1>1, Waiting, LocalIs
<1>3. ScriptTypeOK' /\ Progress'
  <2>1. CASE step' = "failed" /\ UNCHANGED <<index, attempt>>
    BY <1>1, <2>1 DEF UpInv, ScriptTypeOK, Progress, history
  <2>2. CASE index' = index + 1 /\ attempt' = 1
               /\ step' = IF index + 1 = Len(Local) THEN "compare" ELSE "send"
    <3>1. ScriptTypeOK'
      BY <1>1, <1>2, <2>2, RetriesAssumption DEF UpInv, ScriptTypeOK, history
    <3>2. Progress'
      BY <1>2, <2>2 DEF Progress, Indices
    <3> QED BY <3>1, <3>2
  <2> QED BY <1>1, <2>1, <2>2
<1>4. ASSUME ~removed PROVE Began' /\ Kept' /\ bytes # NoFile
  <2>1. Began /\ Kept /\ bytes # NoFile
    BY <1>1, <1>4 DEF UpInv, Began
  <2> QED BY <1>1, <2>1 DEF Began, Kept, Written, AllWritten, uvars
<1>5. ASSUME ~removed, ~overtaken PROVE InOrder' /\ Len(bytes) = index + 1
  <2>1. /\ bytes # NoFile /\ Len(bytes) = index + 1
        /\ \A n \in 1 .. Len(bytes) : Written(bytes, n)
    BY <1>1, <1>4, <1>5 DEF UpInv, InOrder
  <2>2. Len(bytes') \in {index', index' + 1}
    BY <1>1, <2>1 DEF uvars
  <2>3. step' # "wait"
    BY <1>1
  <2> QED BY <1>1, <2>1, <2>2, <2>3 DEF InOrder, Written, uvars
<1>6. ASSUME ~removed, ~overtaken, ~upgraded PROVE Steady'
  <2>1. /\ IInv /\ whole /\ session # NoSession /\ session.previous = Len(bytes) - 1
        /\ reply = OkReply(meta)
    BY <1>1, <1>4, <1>6 DEF UpInv, Steady
  <2>2. /\ bytes # NoFile
        /\ reply = [ok |-> TRUE, size |-> Len(bytes), sha |-> bytes]
    BY <2>1, RecordIs
  <2>3. step' = "compare" => Matches(last')
    <3> SUFFICES ASSUME index + 1 = Len(Local) PROVE Matches(last')
      BY <1>1, <2>2
    <3>1. Len(bytes) = Len(Local) /\ \A n \in 1 .. Len(bytes) : bytes[n] = Local[n]
      BY <1>5, <1>6, <2>2 DEF UpInv, InOrder, Written
    <3>2. bytes = Local
      BY <2>1, <2>2, <3>1, CompleteIsLocal DEF IInv
    <3> QED BY <1>1, <2>2, <3>2 DEF Matches
  <2>4. Matches(last)' <=> Matches(last')
    BY DEF Matches
  <2>5. step' # "wait"
    BY <1>1
  <2> QED BY <1>1, <2>1, <2>3, <2>4, <2>5 DEF Steady, uvars
<1> QED BY <1>1, <1>3, <1>4, <1>5, <1>6 DEF UpInv, history

LEMMA TimeOutKeeps ==
  ASSUME UpInv, IInv', TimeOut
  PROVE  UpInv'
<1>1. /\ step = "wait" /\ UNCHANGED <<uvars, index, executed, last, history>>
      /\ \/ late' = late
         \/ ~executed /\ late[index] < MaxLate /\ late' = [late EXCEPT ![index] = @ + 1]
      /\ \/ attempt < MaxRetries /\ step' = "send" /\ attempt' = attempt + 1
         \/ step' = "failed" /\ UNCHANGED attempt
  BY DEF TimeOut
<1>2. index \in Indices /\ index \in Nat /\ index < Len(Local)
  BY <1>1, Waiting, LocalIs DEF UpInv, Progress
<1>3. ScriptTypeOK'
  <2>1. late' \in [Indices -> 0 .. MaxLate]
    <3>1. late \in [Indices -> 0 .. MaxLate] /\ MaxLate \in Nat
      BY RetriesAssumption DEF UpInv, ScriptTypeOK
    <3>2. late[index] < MaxLate => late[index] + 1 \in 0 .. MaxLate
      BY <1>2, <3>1
    <3> QED BY <1>1, <1>2, <3>1, <3>2
  <2>2. attempt' \in 1 .. MaxRetries
    BY <1>1, RetriesAssumption DEF UpInv, ScriptTypeOK
  <2> QED BY <1>1, <2>1, <2>2 DEF UpInv, ScriptTypeOK, history
<1>4. Progress'
  BY <1>1, <1>2 DEF Progress
<1>5. ASSUME ~removed PROVE Began' /\ Kept'
  <2>1. Began /\ Kept
    BY <1>5 DEF UpInv
  <2>2. Kept'
    BY <1>1, <2>1 DEF Kept, Written, AllWritten, uvars
  <2>3. ASSUME bytes = NoFile, NEW i \in Indices, late'[i] > 0 PROVE i = 0
    <3>1. CASE i = index
      BY <2>1, <2>3, <3>1 DEF Began
    <3>2. CASE i # index
      <4>1. late'[i] = late[i]
        BY <1>1, <3>2 DEF UpInv, ScriptTypeOK
      <4> QED BY <2>1, <2>3, <4>1 DEF Began
    <3> QED BY <3>1, <3>2
  <2>4. Began'
    BY <1>1, <2>1, <2>3 DEF Began, uvars
  <2> QED BY <2>2, <2>4
<1>6. ASSUME InOrder PROVE InOrder'
  BY <1>1, <1>6 DEF InOrder, Written, uvars
<1>7. ASSUME Steady PROVE Steady'
  BY <1>1, <1>7 DEF Steady, uvars
<1> QED BY <1>1, <1>3, <1>4, <1>5, <1>6, <1>7 DEF UpInv, history

\* The last two steps of the script leave the canister alone.
LEMMA ChecksKeep ==
  ASSUME UpInv, IInv', Compare \/ Verify
  PROVE  UpInv'
<1>1. /\ step \in {"compare", "verify"} /\ step' \in {"verify", "success", "failed"}
      /\ UNCHANGED <<uvars, index, attempt, executed, late, history>>
  BY DEF Compare, Verify
<1>2. ScriptTypeOK' /\ Progress'
  BY <1>1 DEF UpInv, ScriptTypeOK, Progress, history
<1>3. Began => Began'
  BY <1>1 DEF Began, uvars
<1>4. Kept => Kept'
  BY <1>1 DEF Kept, Written, AllWritten, uvars
<1>5. InOrder => InOrder'
  BY <1>1 DEF InOrder, Written, uvars
<1>6. Steady => Steady'
  BY <1>1 DEF Steady, uvars
<1> QED BY <1>1, <1>2, <1>3, <1>4, <1>5, <1>6 DEF UpInv, history

LEMMA LateKeeps ==
  ASSUME UpInv, IInv', NEW i \in Indices, ExecuteLate(i)
  PROVE  UpInv'
<1>1. /\ late[i] > 0 /\ Chunk(i, Local[i + 1])
      /\ late' = [late EXCEPT ![i] = @ - 1] /\ overtaken' = TRUE
      /\ UNCHANGED <<step, index, attempt, executed, last, removed, upgraded>>
  BY DEF ExecuteLate
<1>2. ScriptTypeOK'
  <2>1. late' \in [Indices -> 0 .. MaxLate]
    <3>1. late \in [Indices -> 0 .. MaxLate] /\ MaxLate \in Nat
      BY RetriesAssumption DEF UpInv, ScriptTypeOK
    <3>2. late[i] - 1 \in 0 .. MaxLate
      BY <1>1, <3>1
    <3> QED BY <1>1, <3>1, <3>2
  <2> QED BY <1>1, <2>1 DEF UpInv, ScriptTypeOK
<1>3. Progress'
  BY <1>1 DEF UpInv, Progress
<1>4. ASSUME ~removed PROVE Began' /\ Kept'
  <2>1. Began /\ Kept /\ UTypeOK
    BY <1>4 DEF UpInv, IInv
  <2>2. bytes = NoFile => i = 0
    BY <1>1, <2>1 DEF Began
  <2>3. Kept' /\ bytes' # NoFile
    BY <1>1, <2>1, <2>2, ChunkKeeps
  <2> QED BY <2>3 DEF Began
<1> QED BY <1>1, <1>2, <1>3, <1>4 DEF UpInv

LEMMA WorldKeeps ==
  ASSUME UpInv, IInv', Removed \/ Upgraded
  PROVE  UpInv'
<1>1. ScriptTypeOK' /\ Progress'
  BY DEF Removed, Upgraded, UpInv, ScriptTypeOK, Progress, script
<1>2. CASE Removed
  BY <1>1, <1>2 DEF Removed, UpInv
<1>3. CASE Upgraded
  <2>1. /\ session' = NoSession /\ upgraded' = TRUE
        /\ UNCHANGED <<bytes, meta, reply, whole, script, overtaken, removed>>
    BY <1>3 DEF Upgraded, UpgradeUpload
  <2>2. Began => Began'
    BY <2>1 DEF Began, script
  <2>3. Kept => Kept'
    BY <2>1 DEF Kept, Written, AllWritten
  <2>4. InOrder => InOrder'
    BY <2>1 DEF InOrder, Written, script
  <2> QED BY <1>1, <2>1, <2>2, <2>3, <2>4 DEF UpInv
<1> QED BY <1>2, <1>3

LEMMA UpNextKeeps == UpInv /\ [UpNext]_upvars => UpInv'
<1> SUFFICES ASSUME UpInv, [UpNext]_upvars PROVE UpInv'
  OBVIOUS
<1>1. IInv'
  BY CanisterKeeps
<1>2. CASE Script
  BY <1>1, <1>2, SendKeeps, ExecuteKeeps, ReceiveKeeps, TimeOutKeeps, ChecksKeep DEF Script
<1>3. CASE (\E i \in Indices : ExecuteLate(i)) \/ Removed \/ Upgraded
  BY <1>1, <1>3, LateKeeps, WorldKeeps
<1>4. CASE UNCHANGED upvars
  <2>1. UNCHANGED <<uvars, step, index, attempt, executed, late, last,
                    overtaken, removed, upgraded>>
    BY <1>4 DEF upvars, script, history
  <2>2. ScriptTypeOK' /\ Progress'
    BY <2>1 DEF UpInv, ScriptTypeOK, Progress
  <2>3. (Began => Began') /\ (Kept => Kept')
    BY <2>1 DEF Began, Kept, Written, AllWritten, uvars
  <2>4. (InOrder => InOrder') /\ (Steady => Steady')
    BY <2>1 DEF InOrder, Steady, Written, uvars
  <2> QED BY <1>1, <2>1, <2>2, <2>3, <2>4 DEF UpInv
<1> QED BY <1>2, <1>3, <1>4 DEF UpNext, Ended

-----------------------------------------------------------------------------
(* Theorems *)

\* The invariant of the script and the canister.
THEOREM UploaderInvariant == UpSpec => []UpInv
BY UpInitHolds, UpNextKeeps, PTL DEF UpSpec

\* A file that the script reports as uploaded is the local one: its digest was
\* fed every chunk, and what a digest was fed is in the file; or the chunks came
\* in order. The exceptions are those of the property: the file was removed in
\* between, or late attempts swapped chunks that are equal.
THEOREM SuccessesAreIntact == UpSpec => SuccessIsIntact
<1>1. ASSUME UpInv, Verify, step' = "success", ~removed,
             ~overtaken \/ InnerChunksDiffer
      PROVE  bytes = Local
  <2>1. /\ step = "verify" /\ Matches(Details) /\ index = Len(Local)
        /\ Len(Local) \in Nat \ {0} /\ Began /\ Kept /\ UTypeOK
    BY <1>1, LocalIs DEF Verify, UpInv, Progress, IInv
  <2>2. meta # NoMeta /\ meta.size = Len(Local) /\ meta.sha = Local
    BY <2>1 DEF Matches, Details, OkReply, Err
  <2>3. /\ bytes # NoFile /\ Len(bytes) \in Nat /\ Len(bytes) <= Len(Local)
        /\ Written(bytes, 1) /\ Written(bytes, Len(Local)) /\ AllWritten(bytes, Local)
    BY <2>1, <2>2, LenProperties DEF Began, Kept, UTypeOK
  <2>4. Len(bytes) = Len(Local)
    BY <2>1, <2>3 DEF Written
  <2>5. ASSUME NEW n \in 1 .. Len(Local) PROVE Written(bytes, n)
    <3>1. CASE ~overtaken
      BY <1>1, <2>3, <2>4, <3>1 DEF UpInv, InOrder
    <3>2. CASE InnerChunksDiffer /\ n \in 2 .. Len(Local) - 1
      <4>1. PICK m \in 1 .. Len(Local) : Local[n] = Local[m] /\ Written(bytes, m)
        BY <2>3 DEF AllWritten
      <4> QED BY <3>2, <4>1 DEF InnerChunksDiffer
    <3>3. CASE n \notin 2 .. Len(Local) - 1
      <4>1. n = 1 \/ n = Len(Local)
        BY <2>1, <3>3
      <4> QED BY <2>3, <4>1
    <3> QED BY <1>1, <3>1, <3>2, <3>3
  <2> QED BY <2>1, <2>3, <2>4, <2>5, CompleteIsLocal DEF Written
<1>2. UpInv /\ [UpNext]_upvars =>
        [Verify /\ step' = "success" /\ ~removed /\ (~overtaken \/ InnerChunksDiffer)
           => bytes = Local]_upvars
  BY <1>1
<1> QED BY <1>2, UploaderInvariant, PTL DEF UpSpec, SuccessIsIntact

\* Without late attempts, removals and upgrades every answer is Ok and both
\* comparisons succeed: the script fails only when an attempt was its last.
THEOREM LostAnswersDoNoHarm == UpSpec => LostAnswersAreHarmless
<1>1. ASSUME UpInv, [UpNext]_upvars, step' = "failed", step # "failed",
             ~overtaken, ~removed, ~upgraded
      PROVE  step = "wait" /\ attempt = MaxRetries
  <2>1. /\ IInv /\ Progress /\ Began /\ InOrder /\ Steady
        /\ attempt \in 1 .. MaxRetries /\ MaxRetries \in Nat
    BY <1>1, RetriesAssumption DEF UpInv, ScriptTypeOK
  <2>2. bytes # NoFile => meta # NoMeta
    BY <2>1, RecordIs DEF Steady
  <2>3. CASE TimeOut
    BY <1>1, <2>1, <2>3 DEF TimeOut
  <2>4. CASE Receive
    <3>1. reply = OkReply(meta) /\ ~reply.ok
      BY <1>1, <2>1, <2>4 DEF Receive, Steady
    <3> QED BY <3>1 DEF OkReply
  <2>5. CASE Compare
    BY <1>1, <2>1, <2>5 DEF Compare, Steady
  <2>6. CASE Verify
    <3>1. /\ step = "verify" /\ index = Len(Local) /\ Len(Local) \in Nat \ {0}
          /\ ~Matches(Details)
      BY <1>1, <2>1, <2>6, LocalIs DEF Verify, Progress
    <3>2. /\ bytes # NoFile /\ whole /\ session # NoSession
          /\ session.previous = Len(bytes) - 1
      BY <2>1, <3>1 DEF Began, Steady
    <3>3. /\ meta # NoMeta
          /\ Details = [ok |-> TRUE, size |-> Len(bytes), sha |-> bytes]
      BY <2>1, <3>2, RecordIs DEF Details
    <3>4. Len(bytes) = Len(Local) /\ \A n \in 1 .. Len(bytes) : bytes[n] = Local[n]
      <4>1. UpInv /\ Kept /\ Len(bytes) <= Len(Local) /\ Len(bytes) \in {index, index + 1}
        BY <1>1, <2>1, <3>2 DEF UpInv, Kept, InOrder
      <4> QED BY <2>1, <3>1, <3>2, <4>1 DEF InOrder, Written
    <3>5. bytes = Local
      BY <2>1, <3>2, <3>4, CompleteIsLocal DEF IInv
    <3> QED BY <3>1, <3>3, <3>5 DEF Matches
  <2>7. CASE ~(TimeOut \/ Receive \/ Compare \/ Verify)
    <3>1. step' \in {step, "wait"}
      BY <1>1, <2>7
      DEF UpNext, Script, Send, Execute, ExecuteLate, Removed, Upgraded, Ended, upvars, script
    <3> QED BY <1>1, <3>1
  <2> QED BY <2>3, <2>4, <2>5, <2>6, <2>7
<1>2. UpInv /\ [UpNext]_upvars =>
        [step' = "failed" /\ step # "failed" /\ ~overtaken /\ ~removed /\ ~upgraded
           => step = "wait" /\ attempt = MaxRetries]_upvars
  BY <1>1
<1> QED BY <1>2, UploaderInvariant, PTL DEF UpSpec, LostAnswersAreHarmless
=============================================================================
