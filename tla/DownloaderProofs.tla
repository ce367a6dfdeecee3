-------------------------- MODULE DownloaderProofs --------------------------
(***************************************************************************)
(* For every file, every chunk size and everything that Upload lets happen *)
(* in the meantime: a download that succeeds is the file, if the file only *)
(* grew, and what its record describes, if it was uploaded in order.       *)
(*                                                                         *)
(* The invariant is that of UploadProofs, and that what the script got is  *)
(* the beginning of the file.                                              *)
(***************************************************************************)
EXTENDS Downloader, UploadProofs

Bytes == Chunks \cup {Hole}

\* What the script got so far is the beginning of the file.
Beginning == bytes # NoFile /\ Len(got) <= Len(bytes) /\ got = SubSeq(bytes, 1, Len(got))

DInv ==
  /\ IInv
  /\ size \in Nat /\ got \in Seq(Bytes)
  /\ state = "asking" /\ extended => got = <<>> \/ Beginning

-----------------------------------------------------------------------------
(* Lemmas *)

\* The beginning of a sequence, and the part that follows it, are a longer
\* beginning.
LEMMA NextPart ==
  ASSUME NEW s \in Seq(Bytes), NEW i \in 0 .. Len(s), NEW j \in i .. Len(s)
  PROVE  SubSeq(s, 1, i) \o SubSeq(s, i + 1, j) = SubSeq(s, 1, j)
<1> DEFINE t == SubSeq(s, 1, i)
           u == SubSeq(s, i + 1, j)
           w == SubSeq(s, 1, j)
<1>1. /\ t \in Seq(Bytes) /\ Len(t) = i
      /\ u \in Seq(Bytes) /\ Len(u) = j - i
      /\ w \in Seq(Bytes) /\ Len(w) = j
  OBVIOUS
<1>2. /\ \A n \in 1 .. i : t[n] = s[n]
      /\ \A n \in 1 .. j - i : u[n] = s[i + n]
      /\ \A n \in 1 .. j : w[n] = s[n]
  OBVIOUS
<1>3. t \o u \in Seq(Bytes) /\ Len(t \o u) = j
  <2> HIDE DEF t, u
  <2> QED
    BY <1>1
<1>4. ASSUME NEW n \in 1 .. j
      PROVE  (t \o u)[n] = w[n]
  <2> HIDE DEF t, u, w
  <2>1. CASE n <= i
    <3>1. n \in 1 .. i
      BY <2>1
    <3>2. (t \o u)[n] = t[n]
      BY <1>1, <3>1
    <3> QED
      BY <1>2, <3>1, <3>2
  <2>2. CASE n > i
    <3>1. (t \o u)[n] = u[n - i] /\ n - i \in 1 .. j - i
      BY <1>1, <2>2
    <3>2. u[n - i] = s[i + (n - i)] /\ i + (n - i) = n
      BY <1>2, <3>1
    <3> QED
      BY <1>2, <3>1, <3>2
  <2>3. n <= i \/ n > i
    OBVIOUS
  <2> QED
    BY <2>1, <2>2, <2>3
<1> HIDE DEF t, u, w
<1>5. t \o u = w
  BY <1>1, <1>3, <1>4, SeqEqual
<1> QED
  BY <1>5 DEF t, u, w

\* A beginning of a beginning is a beginning.
LEMMA ShorterPart ==
  ASSUME NEW s \in Seq(Bytes), NEW i \in 0 .. Len(s), NEW j \in 0 .. i
  PROVE  SubSeq(SubSeq(s, 1, i), 1, j) = SubSeq(s, 1, j)
<1> DEFINE t == SubSeq(s, 1, i)
           u == SubSeq(t, 1, j)
           w == SubSeq(s, 1, j)
<1>1. /\ t \in Seq(Bytes) /\ Len(t) = i /\ w \in Seq(Bytes) /\ Len(w) = j
      /\ \A n \in 1 .. i : t[n] = s[n]
      /\ \A n \in 1 .. j : w[n] = s[n]
  OBVIOUS
<1> HIDE DEF t, w
<1>2. u \in Seq(Bytes) /\ Len(u) = j /\ \A n \in 1 .. j : u[n] = t[n]
  BY <1>1
<1>3. \A n \in 1 .. j : u[n] = w[n]
  BY <1>1, <1>2
<1> HIDE DEF u
<1>4. u = w
  BY <1>1, <1>2, <1>3, SeqEqual
<1> QED
  BY <1>4 DEF t, u, w

\* The whole of a sequence is its longest beginning.
LEMMA WholePart ==
  ASSUME NEW s \in Seq(Bytes)
  PROVE  SubSeq(s, 1, Len(s)) = s
<1>1. /\ SubSeq(s, 1, Len(s)) \in Seq(Bytes) /\ Len(SubSeq(s, 1, Len(s))) = Len(s)
      /\ \A n \in 1 .. Len(s) : SubSeq(s, 1, Len(s))[n] = s[n]
  OBVIOUS
<1> QED
  BY <1>1, SeqEqual

LEMMA DInitHolds == DInit => DInv
<1> SUFFICES ASSUME DInit PROVE DInv
  OBVIOUS
<1>1. IInv
  BY InitLemma DEF DInit
<1> QED
  BY <1>1 DEF DInit, DInv

\* What a chunk adds to the beginning of the file.
LEMMA ReceiveAdds ==
  ASSUME DInv, Receive
  PROVE  /\ got' \in Seq(Bytes)
         /\ extended => /\ got' = SubSeq(bytes, 1, Len(got'))
                        /\ Len(got') <= Len(bytes)
                        /\ IsDone(Len(got), size) => got' = bytes
<1> DEFINE o == Len(got)
           end == IF o + size < Len(bytes) THEN o + size ELSE Len(bytes)
<1>1. /\ state = "asking" /\ bytes # NoFile
      /\ got' = got \o SubSeq(bytes, o + 1, end)
  BY DEF Receive, DownloadRefused, ChunkAt
<1>2. bytes \in Seq(Bytes) /\ got \in Seq(Bytes) /\ size \in Nat
  BY <1>1 DEF DInv, IInv, UTypeOK, Bytes
<1>3. o \in Nat /\ end \in Nat /\ end <= Len(bytes)
  BY <1>2
<1>4. SubSeq(bytes, o + 1, end) \in Seq(Bytes)
  <2> HIDE DEF end, o
  <2> QED
    BY <1>2, <1>3
<1>5. got' \in Seq(Bytes)
  <2> HIDE DEF end, o
  <2> QED
    BY <1>1, <1>2, <1>4
<1>6. ASSUME extended
      PROVE  got' = SubSeq(bytes, 1, end) /\ Len(got') = end
  <2>1. got = SubSeq(bytes, 1, o) /\ o <= Len(bytes)
    <3>1. CASE got = <<>>
      BY <3>1, <1>2
    <3>2. CASE Beginning
      BY <3>2 DEF Beginning
    <3> QED
      BY <3>1, <3>2, <1>1, <1>6 DEF DInv
  <2>2. o \in 0 .. Len(bytes) /\ end \in o .. Len(bytes)
    BY <2>1, <1>2, <1>3
  <2> HIDE DEF end, o
  <2>3. SubSeq(bytes, 1, o) \o SubSeq(bytes, o + 1, end) = SubSeq(bytes, 1, end)
    BY <1>2, <2>2, NextPart
  <2>4. got' = SubSeq(bytes, 1, end)
    BY <1>1, <2>1, <2>3
  <2>5. Len(SubSeq(bytes, 1, end)) = end
    BY <1>2, <1>3
  <2> QED
    BY <2>4, <2>5
<1>7. ASSUME IsDone(Len(got), size) PROVE end = Len(bytes)
  BY <1>7, <1>2 DEF IsDone
<1> HIDE DEF end, o
<1> QED
  BY <1>2, <1>3, <1>5, <1>6, <1>7, WholePart

\* Meanwhile the file only grows, or the script is not promised anything.
LEMMA MeanwhileKeeps ==
  ASSUME DInv, Meanwhile
  PROVE  DInv'
<1>1. IInv /\ IInv' /\ UNCHANGED <<state, size, got>>
  BY NextLemma DEF DInv, Meanwhile
<1>2. ASSUME state' = "asking", extended', got' # <<>>
      PROVE  Beginning'
  <2>1. Beginning /\ got \in Seq(Bytes) /\ (bytes' = bytes \/ Grew)
    BY <1>1, <1>2 DEF DInv, Meanwhile
  <2>2. CASE bytes' = bytes
    BY <1>1, <2>1, <2>2 DEF Beginning
  <2>3. CASE Grew
    <3>1. /\ bytes # NoFile /\ bytes' # NoFile /\ Len(bytes) <= Len(bytes')
          /\ SubSeq(bytes, 1, Len(bytes)) = SubSeq(bytes', 1, Len(bytes))
      BY <2>3 DEF Grew, IsPrefix
    <3>2. bytes \in Seq(Bytes) /\ bytes' \in Seq(Bytes)
      BY <1>1, <3>1 DEF IInv, UTypeOK, Bytes
    <3>3. bytes = SubSeq(bytes', 1, Len(bytes))
      BY <3>1, <3>2, WholePart
    <3>4. Len(bytes) \in 0 .. Len(bytes') /\ Len(got) \in 0 .. Len(bytes)
      BY <2>1, <3>1, <3>2 DEF Beginning
    <3>5. SubSeq(bytes, 1, Len(got)) = SubSeq(bytes', 1, Len(got))
      BY <3>2, <3>3, <3>4, ShorterPart
    <3>6. Len(got) <= Len(bytes')
      BY <2>1, <3>1, <3>2, <3>4
    <3> QED
      BY <1>1, <2>1, <3>1, <3>5, <3>6 DEF Beginning
  <2> QED
    BY <2>1, <2>2, <2>3
<1> QED
  BY <1>1, <1>2 DEF DInv

LEMMA DNextKeeps == DInv /\ [DNext]_dvars => DInv'
<1> SUFFICES ASSUME DInv, [DNext]_dvars PROVE DInv'
  OBVIOUS
<1>1. ASSUME UNCHANGED uvars PROVE IInv'
  BY <1>1, NextLemma DEF DInv
<1>2. ASSUME NEW n \in Sizes, Run(n) PROVE DInv'
  BY <1>1, <1>2, SizesAssumption DEF Run, DInv
<1>3. CASE Receive
  <2>1. bytes # NoFile /\ bytes' = bytes /\ size' = size /\ extended' = extended
    BY <1>3 DEF Receive, DownloadRefused, uvars
  <2>2. got' \in Seq(Bytes) /\ (extended' => Beginning')
    BY <1>3, <2>1, ReceiveAdds DEF Beginning
  <2> QED
    BY <1>1, <1>3, <2>1, <2>2 DEF DInv, Receive
<1>4. CASE GiveUp
  BY <1>1, <1>4 DEF GiveUp, DInv
<1>5. CASE Meanwhile
  BY <1>5, MeanwhileKeeps
<1>6. CASE UNCHANGED dvars
  BY <1>1, <1>6 DEF dvars, download, uvars, DInv, Beginning
<1> QED
  BY <1>2, <1>3, <1>4, <1>5, <1>6 DEF DNext, Ask

LEMMA DInvHolds == DSpec => []DInv
BY DInitHolds, DNextKeeps, PTL DEF DSpec

-----------------------------------------------------------------------------
(* Theorems *)

\* A download that succeeds is the file, neither torn nor cut short, if the file
\* only grew; and it is what the record describes, if the file was uploaded in
\* order.
THEOREM DownloadsAreIntact == DSpec => DownloadIsIntact
<1>1. DInv /\ [DNext]_dvars =>
        [Receive /\ state' = "done" /\ extended =>
           /\ got' = bytes
           /\ whole => meta = [size |-> Len(got'), sha |-> got']]_dvars
  <2> SUFFICES ASSUME DInv, Receive, state' = "done", extended
               PROVE  /\ got' = bytes
                      /\ whole => meta = [size |-> Len(got'), sha |-> got']
    OBVIOUS
  <2>1. IsDone(Len(got), size)
    BY DEF Receive
  <2>2. got' = bytes
    BY <2>1, ReceiveAdds
  <2> QED
    BY <2>2 DEF DInv, IInv, MetaIsContent
<1> QED
  BY <1>1, DInvHolds, PTL DEF DSpec, DownloadIsIntact

\* The record stays true also while the file is downloaded.
THEOREM RecordIsTrueBesides == DSpec => []MetaIsContent
<1>1. DInv => MetaIsContent
  BY DEF DInv, IInv
<1> QED
  BY <1>1, DInvHolds, PTL
=============================================================================
