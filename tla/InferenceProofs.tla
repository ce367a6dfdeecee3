-------------------------- MODULE InferenceProofs --------------------------
(***************************************************************************)
(* Proofs about Inference.                                                 *)
(*                                                                         *)
(* The invariant follows one call.  While it ingests, the session and the  *)
(* KV cache are the first tokens of the input, as far as they were decoded *)
(* or reused (Ingesting).  Once it samples they are the input and the      *)
(* answer, but for the token that is pending (Answering).                  *)
(*                                                                         *)
(* Two steps leave that path, and nothing they lead to is vouched for:     *)
(* after a context shift the call saves nothing any more, and a batch that *)
(* is longer than a prompt may be is cut (Cutting, and then Loose).  The   *)
(* three other steps that part the cache from the session keep to the path *)
(* of the session: only what is said of the cache is under ~torn.          *)
(***************************************************************************)
EXTENDS Inference, SequenceTheorems, WellFoundedInduction, TLAPS

\* The session the call began with.
Before == SavedToksOf(undo)
SavedTornOf(f) == f # NoFile /\ f.torn

\* The input is a beginning of that session: its last token is decoded again.
Again == nMatch = Len(inp) /\ Len(Before) > Len(inp)

\* How much of the input is not decoded, and the session that Run leaves.
Reusable == IF Again THEN Len(inp) - 1 ELSE nMatch
Opened == IF Again THEN Prefix(Before, Len(inp) - 1) ELSE Before

\* The session when n tokens of the input are in it.
Ingested(n) == IF n <= Reusable THEN Opened ELSE Prefix(inp, n)

-----------------------------------------------------------------------------
(* The invariant *)

\* Between two calls the locals are dead.
Idle ==
  /\ undo = NoFile /\ query = FALSE /\ inp = <<>> /\ nMatch = 0 /\ sess = <<>>
  /\ kv = <<>> /\ embd = <<>> /\ nPast = 0 /\ nSess = 0 /\ nConsumed = 0
  /\ nRemain = 0 /\ nEval = 0 /\ eog = FALSE /\ anti = FALSE /\ needSave = FALSE
  /\ path = FALSE /\ torn = FALSE /\ cut = FALSE /\ echoed = <<>> /\ answer = <<>>

\* A file fits the context, and its two parts agree.
Sound(f) ==
  f # NoFile => Len(f.toks) < NCtx /\ (~f.torn => f.kv = f.toks)

\* The input, and what it shares with the session.
Opening ==
  /\ inp # <<>> /\ nMatch = MatchLen(Before, inp)
  /\ inp = Before \/ Len(inp) <= NCtx - 4

\* Numbers: the context, the batch, the budgets.
Limits ==
  /\ Len(embd) <= NBatch /\ nEval <= InstructionLimit
  /\ Len(sess) < NCtx /\ nSess <= Len(sess) /\ nPast < NCtx
  /\ path => nPast = nSess
  /\ pc = "reuse" => embd # <<>>
  /\ pc \in {"reuse", "decode"} => nPast + Len(embd) < NCtx
  /\ pc = "decode" /\ embd # <<>> => nSess = Len(sess)
  /\ pc = "feed" => embd = <<>>
  /\ MaxTokens > 0 =>
       /\ nEval <= MaxTokens
       /\ pc # "end" => nEval < MaxTokens
       /\ pc \in {"loop", "reuse", "decode"} =>
            nEval = 0 \/ nEval + Len(embd) <= MaxTokens

\* The prompt is counted, and flags are raised only at its end.
Counted ==
  /\ nConsumed <= Len(inp)
  /\ anti \/ eog \/ answer # <<>> => nConsumed = Len(inp)
  /\ answer # <<>> => nEval >= Len(inp) - nMatch
  /\ pc = "end" /\ nConsumed # 0 /\ ~EndsAtReversePrompt =>
       nConsumed >= nMatch /\ nEval >= nConsumed - nMatch

\* One token at most is shown as generated.
EchoedOnce ==
  MaxTokens # 1 /\ NBatch > 1 =>
    /\ Len(echoed) <= 1
    /\ echoed # <<>> =>
         nConsumed = Len(inp) \/ (MaxTokens > 0 /\ nConsumed = nMatch + MaxTokens)

Ingesting ==
  /\ answer = <<>> /\ path /\ file = undo
  /\ needSave = (nMatch < Len(inp))
  /\ (SavedTornOf(undo) \/ Again) => torn
  /\ nSess <= nConsumed
  /\ pc \in {"reuse", "decode", "feed"} \/ nConsumed # 0 => nRemain # 0
  /\ nEval = IF nSess <= Reusable THEN 0 ELSE nSess - Reusable
  /\ pc = "decode" /\ embd # <<>> => nSess >= Reusable /\ sess = Prefix(inp, nSess)
  /\ ~(pc = "decode" /\ embd # <<>>) => sess = Ingested(nSess)
  /\ ~torn => kv = Prefix(inp, IF nSess <= nMatch THEN nMatch ELSE nSess)
  /\ pc \in {"loop", "reuse", "decode"} => embd = SubSeq(inp, nSess + 1, nConsumed)
  /\ pc = "loop" /\ embd = <<>> => nConsumed = 0
  /\ pc = "feed" => nSess = nConsumed
  /\ MaxTokens > 0 => nConsumed <= nMatch + MaxTokens
  /\ eog => inp[Len(inp)] = Eog
  /\ EchoedOnce
  /\ pc = "end" =>
       \/ nConsumed = 0
       \/ anti
       \/ /\ nSess = nConsumed /\ nSess > Reusable
          /\ nConsumed = Len(inp) \/ (MaxTokens > 0 /\ nEval = MaxTokens)

\* The file is the one the call began with, or the early save.
EarlySaved ==
  \/ file = undo
  \/ nMatch < Len(inp) /\ file # NoFile /\ file.toks = inp

Pending == sess = inp \o Prefix(answer, Len(answer) - 1)
Stored == sess = inp \o answer

Answering ==
  /\ answer # <<>> /\ path /\ ~needSave /\ EarlySaved
  /\ Again => torn
  /\ nSess = Len(sess) /\ nEval = Len(sess) - Reusable
  /\ ~torn => kv = sess
  /\ pc \in {"loop", "reuse", "decode"} =>
       Pending /\ embd = <<answer[Len(answer)]>>
  /\ pc = "feed" => Stored
  /\ pc = "end" =>
       Stored \/ (Pending /\ (nRemain = 0 \/ anti \/ Len(sess) = NCtx - 1))
  /\ eog => inp[Len(inp)] = Eog \/ (answer[Len(answer)] = Eog /\ pc # "feed")
  /\ EchoedOnce

\* A batch was cut while the session that is continued is read.
Cutting ==
  /\ answer = <<>> /\ path /\ file = undo /\ torn /\ cut /\ ~needSave
  /\ NBatch > NCtx - 4 /\ inp = Before
  /\ Len(inp) <= nConsumed + 2 /\ nConsumed # 0
  /\ pc # "end" => nPast + Len(embd) <= nConsumed
  /\ pc = "loop" => embd # <<>>
  /\ nConsumed < Len(inp) =>
       /\ sess = Before /\ nEval = 0
       /\ embd = SubSeq(inp, nSess + 1, nSess + Len(embd))
       /\ pc \in {"reuse", "decode", "feed"}
       /\ pc = "decode" => embd = <<>>

\* After a context shift, or after a batch was cut.
Loose ==
  /\ answer # <<>> /\ EarlySaved
  /\ path => torn /\ cut /\ ~needSave /\ NBatch > NCtx - 4
  /\ pc \in {"loop", "reuse"} => Len(embd) = 1
  /\ pc = "decode" => Len(embd) <= 1

IInv ==
  /\ TypeOK
  /\ Sound(file) /\ Sound(undo)
  /\ pc = "idle" => Idle
  /\ pc # "idle" =>
       /\ Opening /\ Limits /\ Counted
       /\ Ingesting \/ Answering \/ Cutting \/ Loose

-----------------------------------------------------------------------------
(* Sequences *)

LEMMA LeastOf ==
  ASSUME NEW m \in Int, NEW n \in Int
  PROVE  /\ Least(m, n) \in Int /\ Least(m, n) <= m /\ Least(m, n) <= n
         /\ Least(m, n) = m \/ Least(m, n) = n
         /\ Least(m, n) = n <=> n <= m
BY DEF Least

\* A piece of a sequence.
LEMMA Piece ==
  ASSUME NEW s \in Seq(Vocab), NEW i \in Nat, NEW j \in Nat, i <= j, j <= Len(s)
  PROVE  /\ SubSeq(s, i + 1, j) \in Seq(Vocab)
         /\ Len(SubSeq(s, i + 1, j)) = j - i
         /\ \A k \in 1 .. j - i : SubSeq(s, i + 1, j)[k] = s[i + k]
<1>1. \A k \in (i + 1) .. j : s[k] \in Vocab
  BY ElementOfSeq
<1> QED BY <1>1, SubSeqProperties

LEMMA PrefixOf ==
  ASSUME NEW s \in Seq(Vocab), NEW n \in Nat, n <= Len(s)
  PROVE  /\ Prefix(s, n) \in Seq(Vocab) /\ Len(Prefix(s, n)) = n
         /\ \A k \in 1 .. n : Prefix(s, n)[k] = s[k]
<1>1. \A k \in 1 .. n : s[k] \in Vocab
  BY ElementOfSeq
<1> QED BY <1>1, SubSeqProperties DEF Prefix

LEMMA PrefixFull ==
  ASSUME NEW s \in Seq(Vocab)
  PROVE  Prefix(s, Len(s)) = s
BY SubSeqFull DEF Prefix

LEMMA PrefixEmpty ==
  ASSUME NEW s \in Seq(Vocab)
  PROVE  Prefix(s, 0) = <<>>
BY SubSeqEmpty DEF Prefix

LEMMA PrefixOfPrefix ==
  ASSUME NEW s \in Seq(Vocab), NEW m \in Nat, NEW n \in Nat, m <= n, n <= Len(s)
  PROVE  Prefix(Prefix(s, n), m) = Prefix(s, m)
<1> m <= Len(s)
  BY LenProperties
<1>1. /\ Prefix(s, n) \in Seq(Vocab) /\ Len(Prefix(s, n)) = n
      /\ \A k \in 1 .. n : Prefix(s, n)[k] = s[k]
  BY PrefixOf
<1>2. /\ Prefix(s, m) \in Seq(Vocab) /\ Len(Prefix(s, m)) = m
      /\ \A k \in 1 .. m : Prefix(s, m)[k] = s[k]
  BY PrefixOf
<1>3. /\ Prefix(Prefix(s, n), m) \in Seq(Vocab)
      /\ Len(Prefix(Prefix(s, n), m)) = m
      /\ \A k \in 1 .. m : Prefix(Prefix(s, n), m)[k] = Prefix(s, n)[k]
  BY <1>1, PrefixOf
<1>4. \A k \in 1 .. m : Prefix(Prefix(s, n), m)[k] = Prefix(s, m)[k]
  BY <1>1, <1>2, <1>3
<1> QED BY <1>2, <1>3, <1>4, SeqEqual

\* A prefix and the piece that follows it.
LEMMA PrefixGrows ==
  ASSUME NEW s \in Seq(Vocab), NEW i \in Nat, NEW j \in Nat, i <= j, j <= Len(s)
  PROVE  Prefix(s, i) \o SubSeq(s, i + 1, j) = Prefix(s, j)
<1>1. 1 \in 1 .. Len(s) + 1 /\ i \in 0 .. Len(s) /\ j \in i .. Len(s)
  BY LenProperties
<1> QED BY <1>1, ConcatAdjacentSubSeq DEF Prefix

\* What follows the first k tokens of a piece.
LEMMA PieceRest ==
  ASSUME NEW s \in Seq(Vocab), NEW i \in Nat, NEW j \in Nat, NEW k \in Nat,
         i + k <= j, j <= Len(s)
  PROVE  From(SubSeq(s, i + 1, j), k + 1) = SubSeq(s, i + k + 1, j)
<1> DEFINE p == SubSeq(s, i + 1, j)
           q == SubSeq(s, i + k + 1, j)
           r == From(p, k + 1)
<1>1. /\ p \in Seq(Vocab) /\ Len(p) = j - i
      /\ \A n \in 1 .. j - i : p[n] = s[i + n]
  BY Piece
<1>2. /\ q \in Seq(Vocab) /\ Len(q) = j - (i + k)
      /\ \A n \in 1 .. j - (i + k) : q[n] = s[i + k + n]
  BY Piece
<1>3. /\ r \in Seq(Vocab) /\ Len(r) = Len(p) - k
      /\ \A n \in 1 .. Len(p) - k : r[n] = p[k + n]
  <2> HIDE DEF p
  <2>1. Len(p) \in Nat /\ k <= Len(p)
    BY <1>1
  <2> QED BY <1>1, <2>1, Piece DEF From
<1>4. \A n \in 1 .. Len(r) : r[n] = q[n]
  <2> HIDE DEF p, q, r
  <2> TAKE n \in 1 .. Len(r)
  <2>1. n \in 1 .. Len(p) - k /\ k + n \in 1 .. j - i /\ i + (k + n) = i + k + n
    BY <1>1, <1>3
  <2>2. n \in 1 .. j - (i + k)
    BY <1>1, <2>1
  <2> QED BY <1>1, <1>2, <1>3, <2>1, <2>2
<1>5. Len(r) = Len(q)
  BY <1>1, <1>2, <1>3
<1>6. r = q
  <2> HIDE DEF p, q, r
  <2> QED BY <1>2, <1>3, <1>4, <1>5, SeqEqual
<1> QED BY <1>6

\* What follows the first n tokens.
LEMMA RestOf ==
  ASSUME NEW s \in Seq(Vocab), NEW n \in Nat, n <= Len(s)
  PROVE  /\ From(s, n + 1) \in Seq(Vocab) /\ Len(From(s, n + 1)) = Len(s) - n
         /\ \A k \in 1 .. Len(s) - n : From(s, n + 1)[k] = s[n + k]
<1>1. Len(s) \in Nat
  BY LenProperties
<1> QED BY <1>1, Piece DEF From

-----------------------------------------------------------------------------
(* What two sequences share *)

\* A set of numbers that is not empty has a least one.
LEMMA LeastElement ==
  ASSUME NEW S \in SUBSET Nat, S # {}
  PROVE  \E n \in S : \A m \in S : n <= m
<1>1. OpToRel(<, Nat) = {r \in Nat \X Nat : r[1] < r[2]}
  BY DEF OpToRel
<1>2. \E n \in S : \A m \in S : ~(<<m, n>> \in OpToRel(<, Nat))
  BY NatLessThanWellFounded, WFMin
<1>3. PICK n \in S : \A m \in S : ~(<<m, n>> \in {r \in Nat \X Nat : r[1] < r[2]})
  BY <1>1, <1>2
<1>4. ASSUME NEW m \in S PROVE n <= m
  <2>1. <<m, n>> \in Nat \X Nat /\ m \in Nat /\ n \in Nat
    OBVIOUS
  <2> QED BY <1>3, <2>1
<1> QED BY <1>4

\* n is as far as s and t agree.
Agree(s, t, n) ==
  /\ n \in 0 .. Least(Len(s), Len(t))
  /\ \A i \in 1 .. n : s[i] = t[i]
  /\ n < Least(Len(s), Len(t)) => s[n + 1] # t[n + 1]

LEMMA MatchLenAgrees ==
  ASSUME NEW s \in Seq(Vocab), NEW t \in Seq(Vocab)
  PROVE  Agree(s, t, MatchLen(s, t))
<1> DEFINE L == Least(Len(s), Len(t))
           S == {n \in 0 .. L : n < L => s[n + 1] # t[n + 1]}
<1>1. L \in Nat
  BY LenProperties DEF Least
<1>2. L \in S /\ S \in SUBSET Nat
  BY <1>1
<1>3. PICK n \in S : \A m \in S : n <= m
  <2> HIDE DEF S
  <2> QED BY <1>2, LeastElement
<1>4. \A i \in 1 .. n : s[i] = t[i]
  <2> SUFFICES ASSUME NEW i \in 1 .. n, s[i] # t[i] PROVE FALSE
    OBVIOUS
  <2>1. n \in 0 .. L
    OBVIOUS
  <2>2. i - 1 \in 0 .. L /\ (i - 1) + 1 = i
    BY <1>1, <2>1
  <2>3. i - 1 \in S
    BY <2>2
  <2> QED BY <1>3, <2>1, <2>3
<1>5. \E m \in 0 .. L : /\ \A i \in 1 .. m : s[i] = t[i]
                        /\ m < L => s[m + 1] # t[m + 1]
  BY <1>4
<1> QED BY <1>5 DEF MatchLen, Agree

LEMMA MatchLenIs ==
  ASSUME NEW s \in Seq(Vocab), NEW t \in Seq(Vocab), NEW n, Agree(s, t, n)
  PROVE  MatchLen(s, t) = n
<1> DEFINE L == Least(Len(s), Len(t))
           m == MatchLen(s, t)
<1>1. L \in Nat
  BY LenProperties DEF Least
<1>2. Agree(s, t, m)
  BY MatchLenAgrees
<1> HIDE DEF m
<1>3. m \in 0 .. L /\ n \in 0 .. L
  BY <1>2 DEF Agree
<1>4. ~(m < n)
  <2> SUFFICES ASSUME m < n PROVE FALSE
    OBVIOUS
  <2>1. m + 1 \in 1 .. n /\ m < L
    BY <1>1, <1>3
  <2> QED BY <1>2, <2>1 DEF Agree
<1>5. ~(n < m)
  <2> SUFFICES ASSUME n < m PROVE FALSE
    OBVIOUS
  <2>1. n + 1 \in 1 .. m /\ n < L
    BY <1>1, <1>3
  <2> QED BY <1>2, <2>1 DEF Agree
<1>6. m = n
  BY <1>1, <1>3, <1>4, <1>5
<1> QED BY <1>6 DEF m

LEMMA MatchLenType ==
  ASSUME NEW s \in Seq(Vocab), NEW t \in Seq(Vocab)
  PROVE  /\ MatchLen(s, t) \in Nat
         /\ MatchLen(s, t) <= Len(s) /\ MatchLen(s, t) <= Len(t)
         /\ \A i \in 1 .. MatchLen(s, t) : s[i] = t[i]
         /\ MatchLen(s, t) < Len(s) /\ MatchLen(s, t) < Len(t) =>
              s[MatchLen(s, t) + 1] # t[MatchLen(s, t) + 1]
<1>1. Len(s) \in Nat /\ Len(t) \in Nat
  BY LenProperties
<1>2. Agree(s, t, MatchLen(s, t))
  BY MatchLenAgrees
<1> QED BY <1>1, <1>2 DEF Agree, Least

LEMMA MatchLenEmpty ==
  ASSUME NEW s \in Seq(Vocab)
  PROVE  MatchLen(s, <<>>) = 0
<1>1. <<>> \in Seq(Vocab) /\ Len(<<>>) = 0 /\ Len(s) \in Nat
  BY EmptySeq, LenProperties
<1>2. MatchLen(s, <<>>) \in Nat /\ MatchLen(s, <<>>) <= Len(<<>>)
  BY <1>1, MatchLenType
<1> QED BY <1>1, <1>2

\* What they share is a prefix of both.
LEMMA MatchLenPrefix ==
  ASSUME NEW s \in Seq(Vocab), NEW t \in Seq(Vocab), NEW n \in Nat,
         n <= MatchLen(s, t)
  PROVE  Prefix(s, n) = Prefix(t, n)
<1>1. /\ Len(s) \in Nat /\ Len(t) \in Nat
  BY LenProperties
<1>2. /\ MatchLen(s, t) \in Nat
      /\ MatchLen(s, t) <= Len(s) /\ MatchLen(s, t) <= Len(t)
      /\ \A i \in 1 .. MatchLen(s, t) : s[i] = t[i]
  BY MatchLenType
<1>3. n <= Len(s) /\ n <= Len(t) /\ \A i \in 1 .. n : s[i] = t[i]
  BY <1>1, <1>2
<1>4. /\ Prefix(s, n) \in Seq(Vocab) /\ Len(Prefix(s, n)) = n
      /\ \A k \in 1 .. n : Prefix(s, n)[k] = s[k]
  BY <1>3, PrefixOf
<1>5. /\ Prefix(t, n) \in Seq(Vocab) /\ Len(Prefix(t, n)) = n
      /\ \A k \in 1 .. n : Prefix(t, n)[k] = t[k]
  BY <1>3, PrefixOf
<1>6. \A k \in 1 .. n : Prefix(s, n)[k] = Prefix(t, n)[k]
  BY <1>3, <1>4, <1>5
<1> QED BY <1>4, <1>5, <1>6, SeqEqual

\* r is how far s and t agree: of the piece of s from i to c, all is found at
\* the same place of t up to r.
LEMMA MatchOfPiece ==
  ASSUME NEW s \in Seq(Vocab), NEW t \in Seq(Vocab), NEW i \in Nat, NEW c \in Nat,
         NEW r \in Nat, i <= c, c <= Len(s), i <= r, r <= Len(s), r <= Len(t),
         \A k \in 1 .. r : s[k] = t[k],
         r < Len(s) /\ r < Len(t) => s[r + 1] # t[r + 1]
  PROVE  MatchLen(SubSeq(s, i + 1, c), From(t, i + 1)) = Least(c, r) - i
<1> DEFINE p == SubSeq(s, i + 1, c)
           q == From(t, i + 1)
           n == Least(c, r) - i
<1>1. Len(s) \in Nat /\ Len(t) \in Nat /\ i <= Len(t)
  BY LenProperties
<1>2. p \in Seq(Vocab) /\ Len(p) = c - i /\ \A k \in 1 .. c - i : p[k] = s[i + k]
  BY Piece
<1>3. /\ q \in Seq(Vocab) /\ Len(q) = Len(t) - i
      /\ \A k \in 1 .. Len(t) - i : q[k] = t[i + k]
  BY <1>1, RestOf
<1>4. n \in Nat /\ n <= c - i /\ n <= r - i /\ (n = c - i \/ n = r - i)
  BY DEF Least
<1> HIDE DEF p, q, n
<1>5. n \in 0 .. Least(Len(p), Len(q))
  BY <1>1, <1>2, <1>3, <1>4 DEF Least
<1>6. ASSUME NEW k \in 1 .. n PROVE p[k] = q[k]
  <2>1. k \in 1 .. c - i /\ k \in 1 .. Len(t) - i /\ i + k \in 1 .. r
    BY <1>1, <1>4
  <2> QED BY <1>2, <1>3, <2>1
<1>7. ASSUME n < Least(Len(p), Len(q)) PROVE p[n + 1] # q[n + 1]
  <2>1. n < c - i /\ n < Len(t) - i
    BY <1>1, <1>2, <1>3, <1>4, <1>7 DEF Least
  <2>2. n = r - i /\ i + (n + 1) = r + 1 /\ r < Len(s) /\ r < Len(t)
    BY <1>1, <1>4, <2>1
  <2>3. n + 1 \in 1 .. c - i /\ n + 1 \in 1 .. Len(t) - i
    BY <1>1, <1>4, <2>1
  <2>4. p[n + 1] = s[r + 1] /\ q[n + 1] = t[r + 1]
    BY <1>2, <1>3, <2>2, <2>3
  <2> QED BY <2>2, <2>4
<1>8. Agree(p, q, n)
  BY <1>5, <1>6, <1>7 DEF Agree
<1>9. MatchLen(p, q) = n
  BY <1>2, <1>3, <1>8, MatchLenIs
<1> QED BY <1>9 DEF p, q, n

\* A prefix is all that it shares with the whole.
LEMMA MatchLenSelf ==
  ASSUME NEW s \in Seq(Vocab)
  PROVE  MatchLen(s, s) = Len(s)
<1>1. Len(s) \in Nat
  BY LenProperties
<1>2. Agree(s, s, Len(s))
  BY <1>1 DEF Agree, Least
<1> QED BY <1>2, MatchLenIs

-----------------------------------------------------------------------------
(* The input and the session *)

LEMMA BeforeType ==
  ASSUME TypeOK
  PROVE  Before \in Seq(Vocab) /\ SavedToks \in Seq(Vocab) /\ SavedKv \in Seq(Vocab)
<1>1. \A f \in Session \cup {NoFile} : SavedToksOf(f) \in Seq(Vocab)
  BY EmptySeq DEF SavedToksOf, Session
<1>2. SavedKv \in Seq(Vocab)
  BY EmptySeq DEF TypeOK, SavedKv, Session
<1> QED BY <1>1, <1>2 DEF TypeOK, Before, SavedToks

LEMMA BeforeFits ==
  ASSUME TypeOK, Sound(undo)
  PROVE  Len(Before) < NCtx
<1>1. CASE undo = NoFile
  BY <1>1, EmptySeq, SizeAssumption DEF Before, SavedToksOf
<1>2. CASE undo # NoFile
  BY <1>2 DEF Before, SavedToksOf, Sound
<1> QED BY <1>1, <1>2

\* What a call opens with: the session is the input as far as it is reused.
LEMMA OpeningFacts ==
  ASSUME TypeOK, Opening
  PROVE  /\ Before \in Seq(Vocab) /\ inp \in Seq(Vocab) /\ Opened \in Seq(Vocab)
         /\ Len(inp) \in Nat \ {0} /\ Len(Before) \in Nat /\ Len(Opened) \in Nat
         /\ nMatch \in Nat /\ nMatch <= Len(inp) /\ nMatch <= Len(Before)
         /\ Reusable \in Nat /\ Reusable <= nMatch /\ Reusable <= Len(Opened)
         /\ Len(Opened) <= Len(Before)
         /\ ~Again => Reusable = nMatch /\ Opened = Before
         /\ Again => /\ nMatch = Len(inp) /\ Reusable = nMatch - 1
                     /\ Len(Opened) = Reusable
         /\ \A k \in 1 .. Reusable : inp[k] = Opened[k]
         /\ Reusable < Len(inp) /\ Reusable < Len(Opened) =>
              inp[Reusable + 1] # Opened[Reusable + 1]
<1>1. /\ Before \in Seq(Vocab) /\ inp \in Seq(Vocab)
      /\ Len(inp) \in Nat \ {0} /\ Len(Before) \in Nat
  BY BeforeType, EmptySeq, LenProperties DEF TypeOK, Opening
<1>2. /\ nMatch \in Nat /\ nMatch <= Len(inp) /\ nMatch <= Len(Before)
      /\ \A i \in 1 .. nMatch : Before[i] = inp[i]
      /\ nMatch < Len(Before) /\ nMatch < Len(inp) =>
           Before[nMatch + 1] # inp[nMatch + 1]
  BY <1>1, MatchLenType DEF Opening
<1>3. CASE Again
  <2>1. nMatch = Len(inp) /\ Len(Before) > Len(inp)
    BY <1>3 DEF Again
  <2>2. Reusable = Len(inp) - 1 /\ Opened = Prefix(Before, Len(inp) - 1)
    BY <1>3 DEF Reusable, Opened
  <2>3. Len(inp) - 1 \in Nat /\ Len(inp) - 1 <= Len(Before)
    BY <1>1, <2>1
  <2>4. /\ Opened \in Seq(Vocab) /\ Len(Opened) = Len(inp) - 1
        /\ \A k \in 1 .. Len(inp) - 1 : Opened[k] = Before[k]
    BY <1>1, <2>2, <2>3, PrefixOf
  <2>5. \A k \in 1 .. Reusable : inp[k] = Opened[k]
    BY <1>1, <1>2, <2>1, <2>2, <2>4
  <2> QED BY <1>1, <1>2, <1>3, <2>1, <2>2, <2>4, <2>5
<1>4. CASE ~Again
  <2>1. Reusable = nMatch /\ Opened = Before
    BY <1>4 DEF Reusable, Opened
  <2> QED BY <1>1, <1>2, <1>4, <2>1
<1> QED BY <1>3, <1>4

\* The session when n tokens of the input are in it.
LEMMA IngestedFacts ==
  ASSUME TypeOK, Opening, NEW n \in Nat, n <= Len(inp)
  PROVE  /\ Ingested(n) \in Seq(Vocab)
         /\ n <= Reusable => n <= Len(Ingested(n)) /\ Ingested(n) = Opened
         /\ n > Reusable => Len(Ingested(n)) = n /\ Ingested(n) = Prefix(inp, n)
         /\ n = Reusable => Prefix(Opened, n) = Prefix(inp, n)
         /\ n = Len(inp) => Ingested(n) = inp
<1>1. /\ Before \in Seq(Vocab) /\ inp \in Seq(Vocab) /\ Opened \in Seq(Vocab)
      /\ Len(inp) \in Nat \ {0} /\ Len(Before) \in Nat /\ Len(Opened) \in Nat
      /\ nMatch \in Nat /\ nMatch <= Len(inp) /\ nMatch <= Len(Before)
      /\ Reusable \in Nat /\ Reusable <= nMatch /\ Reusable <= Len(Opened)
      /\ ~Again => Reusable = nMatch /\ Opened = Before
      /\ Again => Reusable = nMatch - 1
      /\ \A k \in 1 .. Reusable : inp[k] = Opened[k]
  BY OpeningFacts
<1>2. CASE n <= Reusable
  <2>1. Ingested(n) = Opened
    BY <1>2 DEF Ingested
  <2>2. ASSUME n = Reusable PROVE Prefix(Opened, n) = Prefix(inp, n)
    <3>1. /\ Prefix(inp, n) \in Seq(Vocab) /\ Len(Prefix(inp, n)) = n
          /\ \A k \in 1 .. n : Prefix(inp, n)[k] = inp[k]
      BY <1>1, <2>2, PrefixOf
    <3>2. /\ Prefix(Opened, n) \in Seq(Vocab) /\ Len(Prefix(Opened, n)) = n
          /\ \A k \in 1 .. n : Prefix(Opened, n)[k] = Opened[k]
      BY <1>1, <2>2, PrefixOf
    <3>3. \A k \in 1 .. n : Prefix(Opened, n)[k] = Prefix(inp, n)[k]
      BY <1>1, <2>2, <3>1, <3>2
    <3> QED BY <3>1, <3>2, <3>3, SeqEqual
  <2>3. ASSUME n = Len(inp) PROVE Opened = inp
    <3>1. nMatch = Len(inp) /\ Reusable = Len(inp) /\ ~Again /\ Opened = Before
      BY <1>1, <1>2, <2>3
    <3>2. Len(Before) = Len(inp)
      BY <1>1, <3>1 DEF Again
    <3> QED BY <1>1, <3>1, <3>2, SeqEqual
  <2> QED BY <1>1, <1>2, <2>1, <2>2, <2>3
<1>3. CASE n > Reusable
  <2>1. Ingested(n) = Prefix(inp, n)
    BY <1>1, <1>3 DEF Ingested
  <2>2. Prefix(inp, n) \in Seq(Vocab) /\ Len(Prefix(inp, n)) = n
    BY <1>1, PrefixOf
  <2>3. n = Len(inp) => Prefix(inp, n) = inp
    BY <1>1, PrefixFull
  <2> QED BY <1>1, <1>3, <2>1, <2>2, <2>3
<1> QED BY <1>1, <1>2, <1>3

\* A session that is continued is reused as a whole.
LEMMA WholeSession ==
  ASSUME TypeOK, Opening, inp = Before
  PROVE  nMatch = Len(inp) /\ Reusable = Len(inp) /\ Opened = inp /\ ~Again
<1>1. Before \in Seq(Vocab) /\ Len(Before) \in Nat
  BY BeforeType, LenProperties
<1>2. nMatch = Len(inp)
  BY <1>1, MatchLenSelf DEF Opening
<1> QED BY <1>1, <1>2 DEF Again, Reusable, Opened

\* As long as the input and the session it began with stay, so do these.
LEMMA SameOpening ==
  ASSUME UNCHANGED <<undo, inp, nMatch>>
  PROVE  /\ Before' = Before /\ Again' = Again /\ Reusable' = Reusable
         /\ Opened' = Opened /\ Opening' = Opening
         /\ \A n : Ingested(n)' = Ingested(n)
<1>1. Before' = Before
  BY DEF Before
<1>2. Again' = Again
  BY <1>1 DEF Again
<1>3. Reusable' = Reusable /\ Opened' = Opened
  BY <1>1, <1>2 DEF Reusable, Opened
<1>4. Opening' = Opening
  BY <1>1 DEF Opening
<1> QED BY <1>1, <1>2, <1>3, <1>4 DEF Ingested

-----------------------------------------------------------------------------
(* Between the calls *)

LEMMA InitHolds ==
  ASSUME Init
  PROVE  IInv
<1>1. TypeOK
  <2>1. <<>> \in Seq(Vocab)
    BY EmptySeq
  <2>2. NoReply \in Reply
    BY SizeAssumption DEF NoReply, Reply
  <2>3. budget \in [update : Budgets, query : Budgets]
    BY SizeAssumption DEF Init
  <2>4. /\ query \in BOOLEAN /\ eog \in BOOLEAN /\ anti \in BOOLEAN
        /\ needSave \in BOOLEAN /\ path \in BOOLEAN /\ torn \in BOOLEAN
        /\ cut \in BOOLEAN
    BY DEF Init
  <2>5. /\ nMatch \in Nat /\ nPast \in Nat /\ nSess \in Nat
        /\ nConsumed \in Nat /\ nRemain \in Int /\ nEval \in Nat
    BY DEF Init
  <2> QED BY <2>1, <2>2, <2>3, <2>4, <2>5 DEF Init, TypeOK
<1> QED BY <1>1 DEF Init, IInv, Sound, Idle

\* The record that is no answer.
LEMMA NoReplyType == NoReply \in Reply
BY SizeAssumption DEF NoReply, Reply

\* What a call leaves when it is over, if the file it leaves is sound.
LEMMA CallOver ==
  ASSUME IInv, pc' = "idle", undo' = NoFile, NoLocals, UNCHANGED budget,
         reply' \in Reply, file' \in Session \cup {NoFile}, Sound(file)'
  PROVE  IInv'
<1>1. <<>> \in Seq(Vocab)
  BY EmptySeq
<1>2. TypeOK'
  <2>1. /\ query' \in BOOLEAN /\ eog' \in BOOLEAN /\ anti' \in BOOLEAN
        /\ needSave' \in BOOLEAN /\ path' \in BOOLEAN /\ torn' \in BOOLEAN
        /\ cut' \in BOOLEAN
    BY DEF NoLocals
  <2>2. /\ nMatch' \in Nat /\ nPast' \in Nat /\ nSess' \in Nat
        /\ nConsumed' \in Nat /\ nRemain' \in Int /\ nEval' \in Nat
    BY DEF NoLocals
  <2> QED BY <1>1, <2>1, <2>2 DEF IInv, TypeOK, NoLocals
<1>3. Idle'
  BY DEF Idle, NoLocals
<1>4. Sound(undo)'
  BY DEF Sound
<1> QED BY <1>2, <1>3, <1>4 DEF IInv

LEMMA AdminKeeps ==
  ASSUME IInv, NEW p, Admin \/ LoseFile \/ RunRefused(p)
  PROVE  IInv'
<1>1. pc = "idle" /\ pc' = "idle" /\ UNCHANGED <<undo, locals>>
  BY DEF Admin, SetMaxTokens, Upgrade, LoseFile, RunRefused
<1>2. budget' \in [update : Budgets, query : Budgets]
  BY SizeAssumption DEF IInv, TypeOK, Admin, SetMaxTokens, Upgrade, LoseFile, RunRefused
<1>3. reply' = reply \/ reply' = NoReply
  BY DEF Admin, SetMaxTokens, Upgrade, LoseFile, RunRefused
<1>4. file' = file \/ file' = NoFile
  BY DEF Admin, SetMaxTokens, Upgrade, LoseFile, RunRefused
<1>5. TypeOK'
  BY <1>1, <1>2, <1>3, <1>4, NoReplyType
     DEF IInv, TypeOK, locals, counters, output
<1>6. Sound(file)' /\ Sound(undo)'
  BY <1>1, <1>4 DEF IInv, Sound
<1>7. Idle'
  BY <1>1 DEF IInv, Idle, locals, counters, output
<1> QED BY <1>1, <1>5, <1>6, <1>7 DEF IInv

LEMMA TrapKeeps ==
  ASSUME IInv, Trap
  PROVE  IInv'
<1>1. Sound(file)' /\ file' \in Session \cup {NoFile}
  BY DEF IInv, TypeOK, Trap, Sound
<1> QED BY <1>1, CallOver, NoReplyType DEF Trap

LEMMA DecodeFailsKeeps ==
  ASSUME IInv, DecodeFails
  PROVE  IInv'
<1>1. Sound(file)' /\ file' \in Session \cup {NoFile}
  BY DEF IInv, TypeOK, DecodeFails, Sound
<1> QED BY <1>1, CallOver, NoReplyType DEF DecodeFails

LEMMA TokenizeType ==
  ASSUME NEW p \in Seq(Vocab)
  PROVE  Tokenize(p) \in Seq(Vocab)
<1>1. p \in Seq(Vocab) /\ <<Bos>> \in Seq(Vocab)
  BY TokenAssumption
<1> QED BY <1>1, ConcatProperties DEF Tokenize

-----------------------------------------------------------------------------
(* The call begins *)

\* What llama_memory_seq_rm leaves is a memory, and if it leaves nothing from
\* position n on, it is what was before n.
LEMMA RemaindersAre ==
  ASSUME SavedKv \in Seq(Vocab), NEW n \in Nat, NEW k \in Remainders(n)
  PROVE  /\ k \in Seq(Vocab)
         /\ n <= Len(SavedKv) /\ Len(k) <= n => k = Prefix(SavedKv, n)
<1>1. Len(SavedKv) \in Nat
  BY LenProperties
<1>2. CASE k = Prefix(SavedKv, Least(n, Len(SavedKv)))
  <2>1. /\ Least(n, Len(SavedKv)) \in Nat /\ Least(n, Len(SavedKv)) <= Len(SavedKv)
        /\ n <= Len(SavedKv) => Least(n, Len(SavedKv)) = n
    BY <1>1 DEF Least
  <2> QED BY <1>2, <2>1, PrefixOf
<1>3. CASE k = SavedKv
  <2> SUFFICES ASSUME n <= Len(SavedKv), Len(k) <= n PROVE k = Prefix(SavedKv, n)
    BY <1>3
  <2>1. n = Len(SavedKv)
    BY <1>1, <1>3
  <2> QED BY <1>3, <2>1, PrefixFull
<1> QED BY <1>2, <1>3 DEF Remainders

LEMMA RunKeeps ==
  ASSUME IInv, NEW p \in Seq(Vocab), NEW n \in Int, NEW q \in BOOLEAN, Run(p, n, q)
  PROVE  IInv'
<1> DEFINE in == Input(p)
           match == MatchLen(SavedToks, in)
           again == match = Len(in) /\ Len(SavedToks) > Len(in)
<1>1. TypeOK /\ Sound(file) /\ Idle /\ pc = "idle" /\ ~Refused(p)
  BY DEF IInv, Run
<1>2. /\ pc' = "loop" /\ undo' = file /\ query' = q /\ inp' = in /\ nMatch' = match
      /\ kv' \in Remainders(match)
      /\ sess' = (IF again THEN Prefix(SavedToks, Len(in) - 1) ELSE SavedToks)
      /\ torn' = (SavedTorn \/ again \/ Len(kv') > match)
      /\ needSave' = (match < Len(in))
      /\ nRemain' = n /\ path' = TRUE /\ reply' = NoReply
      /\ UNCHANGED <<file, budget, embd, nPast, nSess, nConsumed, nEval, eog, anti,
                     cut, output>>
  BY DEF Run
<1>3. /\ SavedToks \in Seq(Vocab) /\ Len(SavedToks) \in Nat
      /\ SavedKv \in Seq(Vocab) /\ Len(SavedKv) \in Nat
  BY <1>1, BeforeType, LenProperties
<1>4. in \in Seq(Vocab) /\ Len(in) \in Nat \ {0} /\ in # <<>>
  <2>1. in \in Seq(Vocab)
    BY <1>3, TokenizeType DEF Input
  <2>2. in # <<>>
    BY <1>1 DEF Refused
  <2> QED BY <2>1, <2>2, EmptySeq
<1>5. match \in Nat /\ match <= Len(SavedToks) /\ match <= Len(in)
  BY <1>3, <1>4, MatchLenType
<1>6. /\ kv' \in Seq(Vocab)
      /\ match <= Len(SavedKv) /\ Len(kv') <= match => kv' = Prefix(SavedKv, match)
  BY <1>2, <1>3, <1>5, RemaindersAre
<1>7. Before' = SavedToks
  BY <1>2 DEF Before, SavedToks
<1>8. Opening'
  <2>1. in = SavedToks \/ (Len(in) <= NCtx - 4 /\ in = Tokenize(p))
    BY <1>1, <1>4, SizeAssumption DEF Refused, Input
  <2> QED BY <1>2, <1>4, <1>7, <2>1 DEF Opening
<1> HIDE DEF in, match, again
<1>9. TypeOK'
  <2>1. kv' \in Seq(Vocab) /\ Len(kv') \in Nat
    BY <1>6, LenProperties
  <2>2. sess' \in Seq(Vocab)
    BY <1>2, <1>3, <1>4, <1>5, PrefixOf DEF again
  <2>3. torn' \in BOOLEAN /\ needSave' \in BOOLEAN
    BY <1>2, <1>5, <2>1 DEF again, SavedTorn
  <2>4. nRemain' \in Int
    BY <1>2, SizeAssumption
  <2> QED BY <1>1, <1>2, <1>4, <1>5, <2>1, <2>2, <2>3, <2>4, NoReplyType
          DEF TypeOK, output
<1>10. /\ Reusable' \in Nat /\ Again' = again /\ sess' = Opened'
       /\ (~Again' => Reusable' = nMatch')
  <2>1. Again' = again
    BY <1>2, <1>7 DEF Again, again
  <2>2. sess' = Opened'
    BY <1>2, <1>7, <2>1 DEF Opened
  <2>3. Reusable' = IF again THEN Len(in) - 1 ELSE match
    BY <1>2, <2>1 DEF Reusable
  <2> QED BY <1>2, <1>4, <1>5, <2>1, <2>2, <2>3
<1>11. Len(SavedToks) < NCtx /\ Len(sess') < NCtx
  <2>1. Len(SavedToks) < NCtx
    BY <1>1, EmptySeq, SizeAssumption DEF SavedToks, SavedToksOf, Sound
  <2>2. again => Len(sess') = Len(in) - 1
    <3> SUFFICES ASSUME again PROVE Len(sess') = Len(in) - 1
      OBVIOUS
    <3>1. Len(in) - 1 \in Nat /\ Len(in) - 1 <= Len(SavedToks)
      BY <1>3, <1>4 DEF again
    <3> QED BY <1>2, <1>3, <3>1, PrefixOf
  <2> QED BY <1>2, <1>3, <1>4, <1>5, <2>1, <2>2, SizeAssumption DEF again
<1>12. Limits'
  <2>1. embd' = <<>> /\ Len(embd') = 0 /\ nEval' = 0 /\ nSess' = 0 /\ nPast' = 0
    BY <1>1, <1>2, EmptySeq DEF Idle
  <2>2. Len(sess') \in Nat
    BY <1>9, LenProperties DEF TypeOK
  <2>3. MaxTokens' \in Nat /\ (path' => nPast' = nSess')
    BY <1>9, <2>1, SizeAssumption DEF TypeOK, MaxTokens
  <2> QED BY <1>2, <1>11, <2>1, <2>2, <2>3, SizeAssumption DEF Limits
<1>13. Counted'
  BY <1>1, <1>2, <1>4 DEF Counted, Idle, output, EndsAtReversePrompt
<1>14. Ingesting'
  <2>1. SavedTornOf(undo)' = SavedTorn
    BY <1>2 DEF SavedTornOf, SavedTorn
  <2>2. sess' = Ingested(0)'
    BY <1>10 DEF Ingested
  <2>3. ASSUME ~torn' PROVE kv' = Prefix(in, match)
    <3>1. ~SavedTorn /\ ~(Len(kv') > match)
      BY <1>2, <2>3
    <3>2. SavedKv = SavedToks
      BY <1>1, <3>1 DEF SavedKv, SavedToks, SavedToksOf, SavedTorn, Sound
    <3>3. kv' = Prefix(SavedKv, match)
      <4>1. Len(kv') \in Nat
        BY <1>6, LenProperties
      <4> QED BY <1>3, <1>5, <1>6, <3>1, <3>2, <4>1
    <3>4. Prefix(SavedToks, match) = Prefix(in, match)
      BY <1>3, <1>4, <1>5, MatchLenPrefix DEF match
    <3> QED BY <1>2, <3>2, <3>3, <3>4
  <2>4. embd' = <<>> /\ SubSeq(inp', nSess' + 1, nConsumed') = <<>>
    <3>1. embd' = <<>> /\ nSess' = 0 /\ nConsumed' = 0
      BY <1>1, <1>2 DEF Idle
    <3> QED BY <3>1, SubSeqEmpty
  <2>5. EchoedOnce'
    BY <1>1, <1>2, EmptySeq DEF EchoedOnce, Idle, output
  <2>6. nSess' = 0 /\ nConsumed' = 0 /\ nEval' = 0 /\ answer' = <<>> /\ eog' = FALSE
        /\ file' = undo'
    BY <1>1, <1>2 DEF Idle, output
  <2>7. MaxTokens' \in Nat
    BY <1>9, SizeAssumption DEF TypeOK, MaxTokens
  <2>8. needSave' = (nMatch' < Len(inp'))
    BY <1>2
  <2>9. (SavedTornOf(undo)' \/ Again') => torn'
    BY <1>2, <1>10, <2>1
  <2>10. ~torn' => kv' = Prefix(inp', IF nSess' <= nMatch' THEN nMatch' ELSE nSess')
    BY <1>2, <1>5, <2>3, <2>6
  <2>11. nEval' = IF nSess' <= Reusable' THEN 0 ELSE nSess' - Reusable'
    BY <1>10, <2>6
  <2>12. MaxTokens' > 0 => nConsumed' <= nMatch' + MaxTokens'
    <3>1. nMatch' \in Nat
      BY <1>2, <1>5
    <3>2. nConsumed' = 0
      BY <2>6
    <3>3. \A k, l \in Nat : 0 <= k + l
      OBVIOUS
    <3> QED BY <2>7, <3>1, <3>2, <3>3
  <2> QED BY <1>2, <2>2, <2>4, <2>5, <2>6, <2>8, <2>9, <2>10, <2>11, <2>12
          DEF Ingesting
<1>15. Sound(file)' /\ Sound(undo)'
  BY <1>1, <1>2 DEF Sound
<1> QED BY <1>2, <1>8, <1>9, <1>12, <1>13, <1>14, <1>15 DEF IInv

-----------------------------------------------------------------------------
(* The loop *)

LEMMA MaxTokensType ==
  ASSUME TypeOK
  PROVE  MaxTokens \in Nat
BY SizeAssumption DEF TypeOK, MaxTokens

\* The numbers of a state of a call that the proofs below compute with.
LEMMA Numbers ==
  ASSUME IInv, pc # "idle"
  PROVE  /\ TypeOK /\ Opening /\ Limits /\ Counted /\ Sound(file) /\ Sound(undo)
         /\ Len(inp) \in Nat \ {0} /\ Len(embd) \in Nat /\ Len(sess) \in Nat
         /\ Len(answer) \in Nat /\ MaxTokens \in Nat
         /\ Len(inp) < NCtx
         /\ NCtx \in Nat /\ NCtx > 4 /\ NBatch \in Nat \ {0}
<1>1. TypeOK /\ Opening /\ Limits /\ Counted /\ Sound(file) /\ Sound(undo)
  BY DEF IInv
<1>2. /\ Len(inp) \in Nat \ {0} /\ Len(embd) \in Nat /\ Len(sess) \in Nat
      /\ Len(answer) \in Nat
  BY <1>1, OpeningFacts, LenProperties DEF TypeOK
<1>3. Len(inp) < NCtx
  BY <1>1, <1>2, BeforeFits, SizeAssumption DEF Opening
<1> QED BY <1>1, <1>2, <1>3, MaxTokensType, SizeAssumption

\* The end of a call is reached from the head of the loop: nothing but pc, and
\* embd in the second case, is changed.
LEMMA LoopEndsKeeps ==
  ASSUME IInv, LoopEnds
  PROVE  IInv'
<1>1. /\ pc = "loop" /\ pc' = "end" /\ ~LoopGoesOn
      /\ UNCHANGED <<file, undo, budget, locals, reply>>
  BY DEF LoopEnds
<1> USE DEF locals, counters, output
<1>2. /\ TypeOK /\ Opening /\ Limits /\ Counted
      /\ Len(inp) \in Nat \ {0} /\ MaxTokens \in Nat
  BY <1>1, Numbers
<1>3. TypeOK'
  BY <1>1, <1>2 DEF TypeOK
<1>4. Sound(file)' /\ Sound(undo)'
  BY <1>1 DEF IInv, Sound
<1>5. /\ Before' = Before /\ Again' = Again /\ Reusable' = Reusable
      /\ Opening' = Opening /\ \A n : Ingested(n)' = Ingested(n)
  BY <1>1, SameOpening
<1>6. MaxTokens' = MaxTokens /\ EndsAtReversePrompt' = EndsAtReversePrompt
  BY <1>1 DEF MaxTokens, EndsAtReversePrompt
<1>7. EchoedOnce' = EchoedOnce /\ EarlySaved' = EarlySaved /\ Pending' = Pending
      /\ Stored' = Stored /\ SavedTornOf(undo)' = SavedTornOf(undo)
  BY <1>1, <1>6 DEF EchoedOnce, EarlySaved, Pending, Stored, SavedTornOf
<1>8. Limits'
  BY <1>1, <1>2, <1>6 DEF Limits
<1>9. nMatch \in Nat /\ nMatch <= Len(inp)
  BY <1>2, OpeningFacts
<1>10. nRemain = 0 \/ anti
  BY <1>1 DEF LoopGoesOn
<1>11. CASE Ingesting
  <2>1. nConsumed = 0 \/ anti
    BY <1>10, <1>11 DEF Ingesting
  <2>2. Counted'
    BY <1>1, <1>2, <1>6, <1>11, <2>1 DEF Counted, EndsAtReversePrompt, Ingesting
  <2>3. Ingesting'
    BY <1>1, <1>5, <1>6, <1>7, <1>11, <2>1 DEF Ingesting
  <2> QED BY <1>1, <1>2, <1>3, <1>4, <1>5, <1>8, <2>2, <2>3 DEF IInv
<1>12. CASE Answering
  <2>1. Counted'
    BY <1>1, <1>2, <1>6, <1>9, <1>12 DEF Counted, Answering, TypeOK
  <2>2. Answering'
    BY <1>1, <1>5, <1>6, <1>7, <1>10, <1>12 DEF Answering
  <2> QED BY <1>1, <1>2, <1>3, <1>4, <1>5, <1>8, <2>1, <2>2 DEF IInv
<1>13. CASE Cutting
  <2>1. nConsumed = Len(inp)
    BY <1>1, <1>2, <1>13 DEF Cutting, Counted, TypeOK
  <2>2. Counted'
    <3>1. nMatch = Len(inp)
      BY <1>2, <1>13, WholeSession DEF Cutting
    <3> QED BY <1>1, <1>2, <1>6, <1>13, <2>1, <3>1 DEF Counted, Cutting, TypeOK
  <2>3. Cutting'
    BY <1>1, <1>2, <1>5, <1>13, <2>1 DEF Cutting
  <2> QED BY <1>1, <1>2, <1>3, <1>4, <1>5, <1>8, <2>2, <2>3 DEF IInv
<1>14. CASE Loose
  <2>1. Counted'
    BY <1>1, <1>2, <1>6, <1>9, <1>14 DEF Counted, Loose, TypeOK
  <2>2. Loose'
    BY <1>1, <1>7, <1>14 DEF Loose
  <2> QED BY <1>1, <1>2, <1>3, <1>4, <1>5, <1>8, <2>1, <2>2 DEF IInv
<1> QED BY <1>1, <1>11, <1>12, <1>13, <1>14 DEF IInv

LEMMA SameCall ==
  ASSUME UNCHANGED <<undo, inp, nMatch, budget, query>>
  PROVE  /\ Before' = Before /\ Again' = Again /\ Reusable' = Reusable
         /\ Opened' = Opened /\ Opening' = Opening
         /\ \A n : Ingested(n)' = Ingested(n)
         /\ MaxTokens' = MaxTokens /\ SavedTornOf(undo)' = SavedTornOf(undo)
BY SameOpening DEF MaxTokens, SavedTornOf

LEMMA FirstPassKeeps ==
  ASSUME IInv, FirstPass
  PROVE  IInv'
<1>1. /\ pc = "loop" /\ pc' = "feed" /\ LoopGoesOn /\ embd = <<>>
      /\ UNCHANGED <<file, undo, budget, locals, reply>>
  BY DEF FirstPass
<1> USE DEF locals, counters, output
<1>2. /\ TypeOK /\ Opening /\ Limits /\ Counted
      /\ Len(inp) \in Nat \ {0} /\ MaxTokens \in Nat /\ Len(embd) = 0
      /\ NCtx \in Nat /\ NCtx > 4
  BY <1>1, Numbers, EmptySeq
<1>3. TypeOK'
  BY <1>1, <1>2 DEF TypeOK
<1>4. Sound(file)' /\ Sound(undo)'
  BY <1>1 DEF IInv, Sound
<1>5. /\ Opening' = Opening /\ \A n : Ingested(n)' = Ingested(n)
      /\ Again' = Again /\ Reusable' = Reusable
      /\ MaxTokens' = MaxTokens /\ SavedTornOf(undo)' = SavedTornOf(undo)
  BY <1>1, SameCall
<1>6. EchoedOnce' = EchoedOnce
  BY <1>1, <1>5 DEF EchoedOnce
<1>7. Limits'
  BY <1>1, <1>2, <1>5 DEF Limits
<1>8. Counted'
  BY <1>1, <1>2, <1>5 DEF Counted, EndsAtReversePrompt
<1>9. Ingesting
  <2>1. ~Answering
    BY <1>1, <1>2 DEF Answering
  <2>2. ~Cutting
    BY <1>1 DEF Cutting
  <2>3. ~Loose
    BY <1>1, <1>2 DEF Loose
  <2> QED BY <1>1, <2>1, <2>2, <2>3 DEF IInv
<1>10. Ingesting'
  <2>1. nConsumed = 0 /\ nSess = 0
    BY <1>1, <1>2, <1>9 DEF Ingesting, TypeOK
  <2>2. nRemain # 0
    BY <1>1 DEF LoopGoesOn
  <2> QED BY <1>1, <1>5, <1>6, <1>9, <2>1, <2>2 DEF Ingesting
<1> QED BY <1>1, <1>2, <1>3, <1>4, <1>5, <1>7, <1>8, <1>10 DEF IInv

\* A batch that is longer than a prompt may be is cut; the rest of it is lost.
LEMMA CutIs ==
  ASSUME TypeOK
  PROVE  /\ Cut \in Seq(Vocab) /\ Len(Cut) = Least(Len(embd), NCtx - 4)
         /\ Len(embd) <= NCtx - 4 => Cut = embd
         /\ embd # <<>> => Cut # <<>>
         /\ Len(Cut) \in Nat /\ Len(Cut) <= Len(embd)
<1>1. embd \in Seq(Vocab) /\ Len(embd) \in Nat
  BY LenProperties DEF TypeOK
<1>2. /\ Least(Len(embd), NCtx - 4) \in Nat /\ Least(Len(embd), NCtx - 4) <= Len(embd)
      /\ Len(embd) <= NCtx - 4 => Least(Len(embd), NCtx - 4) = Len(embd)
      /\ Len(embd) # 0 => Least(Len(embd), NCtx - 4) # 0
  BY <1>1, SizeAssumption DEF Least
<1>3. Cut \in Seq(Vocab) /\ Len(Cut) = Least(Len(embd), NCtx - 4)
  BY <1>1, <1>2, PrefixOf DEF Cut
<1>4. Len(embd) <= NCtx - 4 => Cut = embd
  BY <1>1, <1>2, PrefixFull DEF Cut
<1>5. embd # <<>> => Cut # <<>>
  BY <1>1, <1>2, <1>3, EmptySeq
<1> QED BY <1>1, <1>2, <1>3, <1>4, <1>5

\* While the prompt is ingested the context has room for all of it.
LEMMA IngestingFits ==
  ASSUME IInv, pc = "loop", embd # <<>>, Ingesting \/ Cutting
  PROVE  /\ nPast + Len(embd) <= nConsumed /\ ~ContextFull
         /\ Ingesting => nPast = nSess /\ Len(embd) = nConsumed - nSess
<1>1. /\ TypeOK /\ Opening /\ Limits /\ Counted
      /\ Len(inp) \in Nat \ {0} /\ Len(inp) < NCtx /\ Len(embd) \in Nat
      /\ NCtx \in Nat
  BY Numbers
<1>2. /\ nSess \in Nat /\ nConsumed \in Nat /\ nPast \in Nat /\ nConsumed <= Len(inp)
      /\ inp \in Seq(Vocab)
  BY <1>1 DEF TypeOK, Counted
<1>3. /\ nPast + Len(embd) <= nConsumed
      /\ Ingesting => nPast = nSess /\ Len(embd) = nConsumed - nSess
  <2>1. CASE Ingesting
    <3>1. /\ nPast = nSess /\ nSess <= nConsumed
          /\ embd = SubSeq(inp, nSess + 1, nConsumed)
      BY <1>1, <2>1 DEF Ingesting, Limits
    <3>2. Len(embd) = nConsumed - nSess
      BY <1>2, <3>1, Piece
    <3> QED BY <1>2, <3>1, <3>2
  <2>2. CASE Cutting /\ ~Ingesting
    BY <2>2 DEF Cutting
  <2> QED BY <2>1, <2>2
<1>4. Len(Cut) \in Nat /\ Len(Cut) <= Len(embd)
  BY <1>1, CutIs
<1>5. ~ContextFull
  BY <1>1, <1>2, <1>3, <1>4 DEF ContextFull
<1> QED BY <1>3, <1>5

LEMMA AnsweringOne ==
  ASSUME IInv, pc = "loop", Answering \/ Loose
  PROVE  Len(embd) = 1 /\ Cut = embd /\ embd # <<>>
<1>1. TypeOK /\ NCtx \in Nat /\ NCtx > 4
  BY Numbers
<1>2. Len(embd) = 1
  BY DEF Answering, Loose
<1>3. Cut = embd
  BY <1>1, <1>2, CutIs
<1> QED BY <1>2, <1>3, EmptySeq

LEMMA StopKeeps ==
  ASSUME IInv, StopAtFullContext
  PROVE  IInv'
<1>1. /\ pc = "loop" /\ pc' = "end" /\ embd # <<>> /\ ContextFull /\ embd' = Cut
      /\ UNCHANGED <<file, undo, budget, query, inp, nMatch, sess, kv, counters, eog,
                     anti, needSave, path, torn, cut, output, reply>>
  BY DEF StopAtFullContext
<1> USE DEF counters, output
<1>2. /\ TypeOK /\ Opening /\ Limits /\ Counted
      /\ Len(inp) \in Nat \ {0} /\ MaxTokens \in Nat /\ Len(sess) \in Nat
      /\ NCtx \in Nat
  BY <1>1, Numbers
<1>3. Answering \/ Loose
  <2>1. ~Ingesting /\ ~Cutting
    BY <1>1, IngestingFits
  <2> QED BY <1>1, <2>1 DEF IInv
<1>4. Len(embd) = 1 /\ Cut = embd /\ embd' = embd
  BY <1>1, <1>3, AnsweringOne
<1>5. TypeOK'
  BY <1>1, <1>2, <1>4 DEF TypeOK
<1>6. Sound(file)' /\ Sound(undo)'
  BY <1>1 DEF IInv, Sound
<1>7. /\ Opening' = Opening /\ Reusable' = Reusable /\ MaxTokens' = MaxTokens
      /\ Again' = Again
  BY <1>1, SameCall
<1>8. /\ EchoedOnce' = EchoedOnce /\ EarlySaved' = EarlySaved /\ Pending' = Pending
      /\ Stored' = Stored
  BY <1>1, <1>7 DEF EchoedOnce, EarlySaved, Pending, Stored
<1>9. Limits'
  BY <1>1, <1>2, <1>4, <1>7 DEF Limits
<1>10. nMatch \in Nat /\ nMatch <= Len(inp) /\ answer # <<>>
  BY <1>2, <1>3, OpeningFacts DEF Answering, Loose
<1>11. Counted'
  BY <1>1, <1>2, <1>10 DEF Counted, TypeOK
<1>12. CASE Answering
  <2>1. Len(sess) = NCtx - 1
    <3>1. nPast = Len(sess) /\ Len(sess) < NCtx
      BY <1>2, <1>12 DEF Answering, Limits
    <3>2. nPast + 1 >= NCtx
      BY <1>1, <1>4 DEF ContextFull
    <3> QED BY <1>2, <3>1, <3>2
  <2>2. Answering'
    BY <1>1, <1>7, <1>8, <1>12, <2>1 DEF Answering
  <2> QED BY <1>1, <1>2, <1>5, <1>6, <1>7, <1>9, <1>11, <2>2 DEF IInv
<1>13. CASE Loose
  <2>1. Loose'
    BY <1>1, <1>8, <1>13 DEF Loose
  <2> QED BY <1>1, <1>2, <1>5, <1>6, <1>7, <1>9, <1>11, <2>1 DEF IInv
<1> QED BY <1>3, <1>12, <1>13

\* What a context shift throws away is less than what it has, and something.
LEMMA Half ==
  ASSUME NEW n \in Nat, NEW k \in {0, 1}, n >= 4
  PROVE  (n - k) \div 2 \in Nat /\ (n - k) \div 2 <= n - 1 /\ (n - k) \div 2 >= 1
OBVIOUS

\* A pass in which the context is not full.
LEMMA EnterPassKeeps1 ==
  ASSUME IInv, EnterPass, ~ContextFull
  PROVE  IInv'
<1>1. /\ pc = "loop" /\ pc' = "reuse" /\ LoopGoesOn /\ embd # <<>> /\ embd' = Cut
      /\ torn' = (torn \/ TooLong) /\ cut' = (cut \/ TooLong)
      /\ UNCHANGED <<file, undo, budget, query, inp, nMatch, sess, kv, counters, eog,
                     anti, needSave, path, output, reply>>
  BY DEF EnterPass, counters
<1> USE DEF counters, output
<1>2. /\ TypeOK /\ Opening /\ Limits /\ Counted /\ Sound(undo)
      /\ Len(inp) \in Nat \ {0} /\ MaxTokens \in Nat /\ Len(sess) \in Nat
      /\ Len(embd) \in Nat
      /\ Len(inp) < NCtx /\ NCtx \in Nat /\ NCtx > 4 /\ NBatch \in Nat \ {0}
  BY <1>1, Numbers
<1>3. /\ Cut \in Seq(Vocab) /\ Len(Cut) \in Nat /\ Len(Cut) <= Len(embd)
      /\ Cut # <<>> /\ (Len(embd) <= NCtx - 4 => Cut = embd)
  BY <1>1, <1>2, CutIs
<1>4. TypeOK'
  <2>1. torn' \in BOOLEAN /\ cut' \in BOOLEAN
    BY <1>1, <1>2 DEF TypeOK, TooLong
  <2> QED BY <1>1, <1>2, <1>3, <2>1 DEF TypeOK
<1>5. Sound(file)' /\ Sound(undo)'
  BY <1>1 DEF IInv, Sound
<1>6. /\ Before' = Before /\ Again' = Again /\ Reusable' = Reusable
      /\ Opening' = Opening /\ \A n : Ingested(n)' = Ingested(n)
      /\ MaxTokens' = MaxTokens /\ SavedTornOf(undo)' = SavedTornOf(undo)
  BY <1>1, SameCall
<1>7. /\ EchoedOnce' = EchoedOnce /\ EarlySaved' = EarlySaved /\ Pending' = Pending
  BY <1>1, <1>6 DEF EchoedOnce, EarlySaved, Pending
<1>8. nPast + Len(Cut) < NCtx
  BY <1>2, <1>3 DEF ContextFull, TypeOK
<1>9. Limits'
  <2>1. /\ Len(embd') <= NBatch
        /\ MaxTokens > 0 => nEval = 0 \/ nEval + Len(embd') <= MaxTokens
    BY <1>1, <1>2, <1>3 DEF Limits, TypeOK
  <2>2. nPast' + Len(embd') < NCtx /\ embd' # <<>>
    BY <1>1, <1>3, <1>8
  <2>3. /\ nEval' <= InstructionLimit /\ Len(sess') < NCtx /\ nSess' <= Len(sess')
        /\ nPast' < NCtx /\ (path' => nPast' = nSess')
    BY <1>1, <1>2 DEF Limits
  <2>4. MaxTokens > 0 => nEval' <= MaxTokens /\ nEval' < MaxTokens
    BY <1>1, <1>2 DEF Limits
  <2> QED BY <1>1, <1>6, <2>1, <2>2, <2>3, <2>4 DEF Limits
<1>10. Counted'
  BY <1>1, <1>2 DEF Counted
<1>20. Len(embd) <= NCtx - 4 => torn' = torn /\ embd' = embd
  <2>1. torn \in BOOLEAN
    BY <1>2 DEF TypeOK
  <2>2. Len(embd) <= NCtx - 4 => ~(Len(embd) > NCtx - 4)
    BY <1>2
  <2> QED BY <1>1, <1>3, <2>1, <2>2 DEF TooLong
<1>11. CASE Ingesting /\ Len(embd) <= NCtx - 4
  <2>1. embd' = embd /\ torn' = torn
    BY <1>11, <1>20
  <2>2. nRemain # 0
    BY <1>1 DEF LoopGoesOn
  <2>3. Ingesting'
    BY <1>1, <1>6, <1>7, <1>11, <2>1, <2>2 DEF Ingesting
  <2> QED BY <1>1, <1>2, <1>4, <1>5, <1>6, <1>9, <1>10, <2>3 DEF IInv
<1>12. CASE Ingesting /\ ~(Len(embd) <= NCtx - 4)
  <2>1. nPast = nSess /\ Len(embd) = nConsumed - nSess
    BY <1>1, <1>12, IngestingFits
  <2>2. nSess \in Nat /\ nConsumed \in Nat /\ nConsumed <= Len(inp) /\ nPast \in Nat
    BY <1>2 DEF TypeOK, Counted
  <2>3. inp = Before
    BY <1>2, <1>12, <2>1, <2>2 DEF Opening
  <2>4. nMatch = Len(inp) /\ Reusable = Len(inp) /\ Opened = inp
    BY <1>2, <2>3, WholeSession
  <2>5. Len(Cut) = NCtx - 4
    BY <1>2, <1>12, CutIs DEF Least
  <2>6. NBatch > NCtx - 4 /\ torn' /\ cut' /\ ~needSave /\ path /\ answer = <<>> /\ file = undo
    <3>1. Len(embd) <= NBatch /\ needSave = (nMatch < Len(inp))
      BY <1>2, <1>12 DEF Limits, Ingesting
    <3>2. Len(embd) > NCtx - 4 /\ ~(nMatch < Len(inp))
      BY <1>2, <1>12, <2>4
    <3>3. NBatch > NCtx - 4
      BY <1>2, <3>1, <3>2
    <3> QED BY <1>1, <1>12, <3>1, <3>2, <3>3 DEF Ingesting, TooLong
  <2>7. Len(inp) <= nConsumed + 2 /\ nConsumed # 0 /\ nPast + Len(Cut) <= nConsumed
    BY <1>2, <1>12, <2>1, <2>2, <2>5
  <2>8. sess = Before /\ nEval = 0
    BY <1>2, <1>12, <2>2, <2>3, <2>4, IngestedFacts DEF Ingesting
  <2>9. Cut = SubSeq(inp, nSess + 1, nSess + Len(Cut))
    <3>1. embd = SubSeq(inp, nSess + 1, nConsumed) /\ embd \in Seq(Vocab)
          /\ inp \in Seq(Vocab)
      BY <1>1, <1>2, <1>12 DEF Ingesting, TypeOK
    <3>2. Cut = Prefix(embd, Len(Cut))
      BY <1>2, <1>12, <2>5 DEF Cut, Least
    <3> DEFINE c == Len(Cut)
               r == SubSeq(inp, nSess + 1, nSess + c)
    <3>3. c \in Nat /\ nSess + c <= Len(inp) /\ nSess + c <= nConsumed
      BY <1>2, <1>3, <2>1, <2>2
    <3> HIDE DEF c
    <3>4. /\ r \in Seq(Vocab) /\ Len(r) = (nSess + c) - nSess
          /\ \A k \in 1 .. (nSess + c) - nSess : r[k] = inp[nSess + k]
      <4> DEFINE e == nSess + c
      <4>1. e \in Nat /\ nSess <= e /\ e <= Len(inp)
        BY <2>2, <3>3
      <4> HIDE DEF e
      <4>2. /\ SubSeq(inp, nSess + 1, e) \in Seq(Vocab)
            /\ Len(SubSeq(inp, nSess + 1, e)) = e - nSess
            /\ \A k \in 1 .. e - nSess : SubSeq(inp, nSess + 1, e)[k] = inp[nSess + k]
        BY <2>2, <3>1, <4>1, Piece
      <4> QED BY <4>2 DEF e
    <3>5. /\ Len(embd) = nConsumed - nSess
          /\ \A k \in 1 .. nConsumed - nSess : embd[k] = inp[nSess + k]
      <4>1. nSess <= nConsumed
        BY <1>2, <2>1, <2>2
      <4> QED BY <2>2, <3>1, <4>1, Piece
    <3>6. /\ Cut \in Seq(Vocab) /\ Len(Cut) = c
          /\ \A k \in 1 .. c : Cut[k] = embd[k]
      <4>1. c <= Len(embd) /\ Cut = Prefix(embd, c)
        BY <1>3, <3>2 DEF c
      <4> QED BY <3>1, <3>3, <4>1, PrefixOf
    <3> HIDE DEF r
    <3>7. Len(r) = c /\ \A k \in 1 .. c : Cut[k] = r[k]
      BY <2>2, <3>3, <3>4, <3>5, <3>6
    <3>8. Cut = r
      BY <3>4, <3>6, <3>7, SeqEqual
    <3> QED BY <3>8 DEF r, c
  <2>10. Cutting'
    BY <1>1, <1>6, <2>3, <2>6, <2>7, <2>8, <2>9 DEF Cutting
  <2> QED BY <1>1, <1>2, <1>4, <1>5, <1>6, <1>9, <1>10, <2>10 DEF IInv
<1>13. CASE Answering
  <2>1. embd' = embd /\ torn' = torn
    <3>1. Len(embd) = 1
      BY <1>1, <1>13, AnsweringOne
    <3> QED BY <1>2, <1>20, <3>1
  <2>2. Answering'
    BY <1>1, <1>6, <1>7, <1>13, <2>1 DEF Answering
  <2> QED BY <1>1, <1>2, <1>4, <1>5, <1>6, <1>9, <1>10, <2>2 DEF IInv
<1>14. CASE Cutting
  <2>1. nConsumed = Len(inp)
    BY <1>1, <1>2, <1>14 DEF Cutting, Counted, TypeOK
  <2>2. nPast + Len(Cut) <= nConsumed /\ torn' /\ cut'
    <3>1. nPast + Len(embd) <= nConsumed /\ torn /\ cut
      BY <1>1, <1>14 DEF Cutting
    <3>2. nPast \in Nat /\ nConsumed \in Nat
      BY <1>2 DEF TypeOK
    <3>3. nPast + Len(Cut) <= nConsumed
      BY <1>2, <1>3, <3>1, <3>2
    <3> QED BY <1>1, <3>1, <3>3
  <2>3. Cutting'
    BY <1>1, <1>2, <1>3, <1>6, <1>14, <2>1, <2>2 DEF Cutting
  <2> QED BY <1>1, <1>2, <1>4, <1>5, <1>6, <1>9, <1>10, <2>3 DEF IInv
<1>15. CASE Loose
  <2>1. embd' = embd /\ Len(embd) = 1
    BY <1>1, <1>15, AnsweringOne
  <2>2. Loose'
    BY <1>1, <1>7, <1>15, <2>1 DEF Loose
  <2> QED BY <1>1, <1>2, <1>4, <1>5, <1>6, <1>9, <1>10, <2>2 DEF IInv
<1> QED BY <1>1, <1>11, <1>12, <1>13, <1>14, <1>15 DEF IInv

\* A context shift: nothing of this call is saved any more.
LEMMA EnterPassKeeps2 ==
  ASSUME IInv, EnterPass, ContextFull
  PROVE  IInv'
<1> DEFINE d == (nPast - NKeep) \div 2
<1>1. /\ pc = "loop" /\ pc' = "reuse" /\ LoopGoesOn /\ embd # <<>> /\ embd' = Cut
      /\ torn' = (torn \/ TooLong) /\ cut' = (cut \/ TooLong)
      /\ kv' = Prefix(kv, Least(NKeep, Len(kv))) \o From(kv, NKeep + d + 1)
      /\ nPast' = nPast - d
      /\ path' = FALSE
      /\ UNCHANGED <<file, undo, budget, query, inp, nMatch, sess, nSess, nConsumed,
                     nRemain, nEval, eog, anti, needSave, output, reply>>
  BY DEF EnterPass
<1> USE DEF output
<1>2. /\ TypeOK /\ Opening /\ Limits /\ Counted
      /\ Len(inp) \in Nat \ {0} /\ MaxTokens \in Nat /\ Len(sess) \in Nat
      /\ NCtx \in Nat /\ NCtx > 4 /\ NBatch \in Nat \ {0}
  BY <1>1, Numbers
<1>3. Answering \/ Loose
  <2>1. ~Ingesting /\ ~Cutting
    BY <1>1, IngestingFits
  <2> QED BY <1>1, <2>1 DEF IInv
<1>4. Len(embd) = 1 /\ Cut = embd /\ embd' = embd
  BY <1>1, <1>3, AnsweringOne
<1>5. nPast \in Nat /\ nPast >= 4 /\ nPast < NCtx
  <2>1. nPast \in Nat /\ nPast < NCtx /\ nPast + 1 >= NCtx
    BY <1>1, <1>2, <1>4 DEF TypeOK, Limits, ContextFull
  <2> QED BY <1>2, <2>1
<1>6. NKeep \in {0, 1}
  BY DEF NKeep
<1>7. d \in Nat /\ d <= nPast - 1 /\ d >= 1
  BY <1>5, <1>6, Half
<1> HIDE DEF d
<1>8. nPast - d \in Nat /\ nPast - d < NCtx /\ nPast - d + 1 < NCtx
  BY <1>2, <1>5, <1>7
<1>9. kv' \in Seq(Vocab)
  <2>1. kv \in Seq(Vocab) /\ Len(kv) \in Nat
    BY <1>2, LenProperties DEF TypeOK
  <2>2. Prefix(kv, Least(NKeep, Len(kv))) \in Seq(Vocab)
    <3>1. Least(NKeep, Len(kv)) \in Nat /\ Least(NKeep, Len(kv)) <= Len(kv)
      BY <1>6, <2>1 DEF Least
    <3> QED BY <2>1, <3>1, PrefixOf
  <2>3. From(kv, NKeep + d + 1) \in Seq(Vocab)
    <3>1. NKeep + d + 1 \in Nat /\ NKeep + d + 1 >= 1
      BY <1>6, <1>7
    <3>2. \A i \in NKeep + d + 1 .. Len(kv) : kv[i] \in Vocab
      <4> TAKE i \in NKeep + d + 1 .. Len(kv)
      <4>1. i \in 1 .. Len(kv)
        BY <2>1, <3>1
      <4> QED BY <2>1, <4>1, ElementOfSeq
    <3> HIDE DEF d
    <3> QED BY <2>1, <3>1, <3>2, SubSeqProperties DEF From
  <2> QED BY <1>1, <2>2, <2>3, ConcatProperties
<1>10. TypeOK'
  <2>1. torn' \in BOOLEAN /\ cut' \in BOOLEAN
    BY <1>1, <1>2 DEF TypeOK, TooLong
  <2> QED BY <1>1, <1>2, <1>4, <1>8, <1>9, <2>1 DEF TypeOK
<1>11. Sound(file)' /\ Sound(undo)'
  BY <1>1 DEF IInv, Sound
<1>12. Opening' = Opening /\ MaxTokens' = MaxTokens
  BY <1>1, SameCall
<1>13. Limits'
  <2>1. /\ Len(embd') <= NBatch /\ embd' # <<>> /\ Len(embd') = 1
        /\ MaxTokens > 0 => nEval' = 0 \/ nEval' + Len(embd') <= MaxTokens
    BY <1>1, <1>2, <1>4 DEF Limits
  <2>2. /\ nEval' <= InstructionLimit /\ Len(sess') < NCtx /\ nSess' <= Len(sess')
        /\ MaxTokens > 0 => nEval' <= MaxTokens /\ nEval' < MaxTokens
    BY <1>1, <1>2 DEF Limits
  <2>3. nPast' < NCtx /\ nPast' + Len(embd') < NCtx
    BY <1>1, <1>8, <2>1
  <2> QED BY <1>1, <1>12, <2>1, <2>2, <2>3 DEF Limits
<1>14. Counted'
  BY <1>1, <1>2 DEF Counted
<1>15. Loose'
  <2>1. answer # <<>> /\ EarlySaved
    BY <1>3 DEF Answering, Loose
  <2>2. EarlySaved'
    BY <1>1, <2>1 DEF EarlySaved
  <2> QED BY <1>1, <1>4, <2>1, <2>2 DEF Loose
<1> QED BY <1>1, <1>2, <1>10, <1>11, <1>12, <1>13, <1>14, <1>15 DEF IInv

-----------------------------------------------------------------------------
(* Reuse, and what follows when all is reused *)

\* How much of the tokens to decode the session already holds.
LEMMA ReusedIs ==
  ASSUME IInv, pc = "reuse"
  PROVE  LET k == MatchLen(embd, From(sess, nSess + 1))
         IN  /\ k \in Nat /\ k <= Len(embd) /\ nSess + k <= Len(sess)
             /\ Ingesting =>
                  k = IF nSess > Reusable THEN 0 ELSE Least(nConsumed, Reusable) - nSess
             /\ Answering => k = 0
             /\ Cutting /\ nConsumed < Len(inp) => k = Len(embd)
<1> DEFINE rest == From(sess, nSess + 1)
           k == MatchLen(embd, rest)
<1>1. /\ TypeOK /\ Opening /\ Limits /\ Counted
      /\ Len(inp) \in Nat \ {0} /\ Len(embd) \in Nat /\ Len(sess) \in Nat
  BY Numbers
<1>2. /\ nSess \in Nat /\ nConsumed \in Nat /\ nPast \in Nat /\ nSess <= Len(sess)
      /\ nConsumed <= Len(inp)
      /\ embd \in Seq(Vocab) /\ sess \in Seq(Vocab) /\ inp \in Seq(Vocab)
  BY <1>1 DEF TypeOK, Limits, Counted
<1>3. rest \in Seq(Vocab) /\ Len(rest) = Len(sess) - nSess
  BY <1>1, <1>2, RestOf
<1>4. k \in Nat /\ k <= Len(embd) /\ nSess + k <= Len(sess)
  <2> HIDE DEF rest
  <2>1. k \in Nat /\ k <= Len(embd) /\ k <= Len(rest)
    BY <1>2, <1>3, MatchLenType
  <2> HIDE DEF k
  <2> QED BY <1>1, <1>2, <1>3, <2>1
<1>5. Len(sess) = nSess => k = 0
  <2> SUFFICES ASSUME Len(sess) = nSess PROVE k = 0
    OBVIOUS
  <2>1. rest = <<>>
    <3> HIDE DEF rest
    <3> QED BY <1>2, <1>3, EmptySeq
  <2> QED BY <1>2, <2>1, MatchLenEmpty
<1>6. ASSUME Ingesting
      PROVE  k = IF nSess > Reusable THEN 0 ELSE Least(nConsumed, Reusable) - nSess
  <2>1. /\ sess = Ingested(nSess) /\ embd = SubSeq(inp, nSess + 1, nConsumed)
        /\ nSess <= nConsumed
    BY <1>6 DEF Ingesting
  <2>2. /\ Opened \in Seq(Vocab) /\ Len(Opened) \in Nat
        /\ Reusable \in Nat /\ Reusable <= nMatch /\ Reusable <= Len(Opened)
        /\ nMatch \in Nat /\ nMatch <= Len(inp)
        /\ \A i \in 1 .. Reusable : inp[i] = Opened[i]
        /\ Reusable < Len(inp) /\ Reusable < Len(Opened) =>
              inp[Reusable + 1] # Opened[Reusable + 1]
    BY <1>1, OpeningFacts
  <2>3. nSess <= Len(inp)
    BY <1>1, <1>2, <2>1
  <2>4. CASE nSess > Reusable
    <3>1. Len(sess) = nSess
      BY <1>1, <1>2, <2>1, <2>3, <2>4, IngestedFacts
    <3> QED BY <1>5, <2>4, <3>1
  <2>5. CASE ~(nSess > Reusable)
    <3>1. sess = Opened /\ nSess <= Reusable
      BY <1>2, <2>1, <2>2, <2>5 DEF Ingested
    <3>2. Reusable <= Len(inp)
      BY <1>1, <2>2
    <3>3. MatchLen(SubSeq(inp, nSess + 1, nConsumed), From(Opened, nSess + 1))
            = Least(nConsumed, Reusable) - nSess
      BY <1>2, <2>1, <2>2, <3>1, <3>2, MatchOfPiece
    <3> QED BY <2>1, <2>5, <3>1, <3>3
  <2> QED BY <2>4, <2>5
<1>7. Answering => k = 0
  BY <1>5 DEF Answering
<1>8. ASSUME Cutting, nConsumed < Len(inp) PROVE k = Len(embd)
  <2> DEFINE c == nSess + Len(embd)
  <2>1. /\ sess = Before /\ inp = Before /\ path /\ nPast + Len(embd) <= nConsumed
        /\ embd = SubSeq(inp, nSess + 1, c)
    BY <1>8 DEF Cutting
  <2>2. c \in Nat /\ nSess <= c /\ c <= Len(inp) /\ nSess <= Len(inp)
    BY <1>1, <1>2, <2>1 DEF Limits
  <2> HIDE DEF c
  <2>3. MatchLen(SubSeq(inp, nSess + 1, c), From(inp, nSess + 1))
          = Least(c, Len(inp)) - nSess
    <3> DEFINE r == Len(inp)
    <3>1. r \in Nat /\ r <= Len(inp) /\ \A i \in 1 .. r : inp[i] = inp[i]
      BY <1>1
    <3>2. ~(r < Len(inp)) /\ nSess <= r
      BY <1>1, <2>2
    <3> HIDE DEF r
    <3>3. MatchLen(SubSeq(inp, nSess + 1, c), From(inp, nSess + 1)) = Least(c, r) - nSess
      BY <1>2, <2>2, <3>1, <3>2, MatchOfPiece
    <3> QED BY <3>3 DEF r
  <2>4. Least(c, Len(inp)) = c
    BY <2>2 DEF Least
  <2>5. k = c - nSess
    BY <2>1, <2>3, <2>4
  <2>6. c - nSess = Len(embd)
    BY <1>1, <1>2 DEF c
  <2> QED BY <2>5, <2>6
<1> QED BY <1>4, <1>6, <1>7, <1>8

LEMMA ReuseKeeps ==
  ASSUME IInv, Reuse
  PROVE  IInv'
<1> DEFINE k == MatchLen(embd, From(sess, nSess + 1))
           cuts == k < Len(embd) /\ nSess + k < Len(sess)
<1>1. /\ pc = "reuse" /\ pc' = "decode"
      /\ embd' = From(embd, k + 1)
      /\ sess' = (IF cuts THEN Prefix(sess, nSess + k) ELSE sess)
      /\ nPast' = nPast + k /\ nSess' = nSess + k
      /\ UNCHANGED <<file, undo, budget, query, inp, nMatch, kv, nConsumed, nRemain,
                     nEval, eog, anti, needSave, path, torn, cut, output, reply>>
  BY DEF Reuse
<1> USE DEF output
<1>2. /\ TypeOK /\ Opening /\ Limits /\ Counted
      /\ Len(inp) \in Nat \ {0} /\ MaxTokens \in Nat /\ Len(sess) \in Nat
      /\ Len(embd) \in Nat
      /\ NCtx \in Nat /\ NCtx > 4 /\ NBatch \in Nat \ {0}
  BY <1>1, Numbers
<1>3. /\ k \in Nat /\ k <= Len(embd) /\ nSess + k <= Len(sess)
      /\ (Ingesting =>
            k = IF nSess > Reusable THEN 0 ELSE Least(nConsumed, Reusable) - nSess)
      /\ (Answering => k = 0)
      /\ (Cutting /\ nConsumed < Len(inp) => k = Len(embd))
  BY <1>1, ReusedIs
<1> HIDE DEF k
<1>4. /\ nSess \in Nat /\ nConsumed \in Nat /\ nPast \in Nat
      /\ nConsumed <= Len(inp)
      /\ embd \in Seq(Vocab) /\ sess \in Seq(Vocab) /\ inp \in Seq(Vocab)
  BY <1>2 DEF TypeOK, Counted
<1>5. embd' \in Seq(Vocab) /\ Len(embd') = Len(embd) - k
  BY <1>1, <1>3, <1>4, RestOf
<1>6. /\ sess' \in Seq(Vocab) /\ Len(sess') = IF cuts THEN nSess + k ELSE Len(sess)
  <2>1. CASE cuts
    <3>1. nSess + k \in Nat /\ nSess + k <= Len(sess)
      BY <1>3, <1>4
    <3>2. /\ Prefix(sess, nSess + k) \in Seq(Vocab)
          /\ Len(Prefix(sess, nSess + k)) = nSess + k
      BY <1>4, <3>1, PrefixOf
    <3> QED BY <1>1, <2>1, <3>2
  <2>2. CASE ~cuts
    BY <1>1, <1>4, <2>2
  <2> QED BY <2>1, <2>2
<1>7. TypeOK'
  <2>1. nPast + k \in Nat /\ nSess + k \in Nat
    BY <1>3, <1>4
  <2> QED BY <1>1, <1>2, <1>5, <1>6, <2>1 DEF TypeOK
<1>8. Sound(file)' /\ Sound(undo)'
  BY <1>1 DEF IInv, Sound
<1>9. /\ Before' = Before /\ Again' = Again /\ Reusable' = Reusable
      /\ Opening' = Opening /\ \A n : Ingested(n)' = Ingested(n)
      /\ MaxTokens' = MaxTokens /\ SavedTornOf(undo)' = SavedTornOf(undo)
  BY <1>1, SameCall
<1>10. EchoedOnce' = EchoedOnce /\ EarlySaved' = EarlySaved
  BY <1>1, <1>9 DEF EchoedOnce, EarlySaved
<1>11. Limits'
  <2>1. /\ Len(embd) <= NBatch /\ nEval <= InstructionLimit
        /\ Len(sess) < NCtx /\ nSess <= Len(sess) /\ nPast < NCtx
        /\ (path => nPast = nSess) /\ nPast + Len(embd) < NCtx
    BY <1>1, <1>2 DEF Limits
  <2>2. Len(embd') <= NBatch
    BY <1>2, <1>3, <1>5, <2>1
  <2>3. Len(sess') < NCtx /\ nSess' <= Len(sess')
    BY <1>1, <1>2, <1>3, <1>4, <1>6, <2>1
  <2>4. nPast' < NCtx /\ nPast' + Len(embd') < NCtx
    BY <1>1, <1>2, <1>3, <1>4, <1>5, <2>1
  <2>5. path' => nPast' = nSess'
    BY <1>1, <2>1
  <2>6. ASSUME embd' # <<>> PROVE nSess' = Len(sess')
    <3>1. k < Len(embd)
      BY <1>2, <1>3, <1>5, <2>6, EmptySeq
    <3> QED BY <1>1, <1>2, <1>3, <1>4, <1>6, <3>1
  <2>7. MaxTokens > 0 => /\ nEval <= MaxTokens /\ nEval < MaxTokens
                         /\ nEval = 0 \/ nEval + Len(embd') <= MaxTokens
    BY <1>1, <1>2, <1>3, <1>5 DEF Limits, TypeOK
  <2> QED BY <1>1, <1>9, <2>1, <2>2, <2>3, <2>4, <2>5, <2>6, <2>7 DEF Limits
<1>12. Counted'
  BY <1>1, <1>2 DEF Counted
<1>13. CASE Ingesting
  <2>1. /\ embd = SubSeq(inp, nSess + 1, nConsumed) /\ nSess <= nConsumed
        /\ sess = Ingested(nSess)
        /\ nEval = (IF nSess <= Reusable THEN 0 ELSE nSess - Reusable)
        /\ Len(embd) = nConsumed - nSess
    <3>1. /\ embd = SubSeq(inp, nSess + 1, nConsumed) /\ nSess <= nConsumed
          /\ sess = Ingested(nSess)
          /\ nEval = (IF nSess <= Reusable THEN 0 ELSE nSess - Reusable)
      BY <1>1, <1>13 DEF Ingesting
    <3> QED BY <1>4, <3>1, Piece
  <2>2. /\ Reusable \in Nat /\ nMatch \in Nat /\ Reusable <= nMatch
        /\ (~Again => Reusable = nMatch)
    BY <1>2, OpeningFacts
  <2>3. k = IF nSess > Reusable THEN 0 ELSE Least(nConsumed, Reusable) - nSess
    BY <1>3, <1>13
  <2>4. embd' = SubSeq(inp, nSess + k + 1, nConsumed) /\ nSess + k <= nConsumed
    <3>1. nSess + k <= nConsumed
      BY <1>3, <1>4, <2>1
    <3>2. k \in Nat
      BY <1>3
    <3>3. From(SubSeq(inp, nSess + 1, nConsumed), k + 1)
            = SubSeq(inp, nSess + k + 1, nConsumed)
      BY <1>4, <3>1, <3>2, PieceRest
    <3> QED BY <1>1, <2>1, <3>1, <3>3
  <2>5. nSess > Reusable => k = 0
    BY <2>3
  <2>6. nSess <= Reusable => nSess + k <= Reusable
    BY <1>4, <2>1, <2>2, <2>3 DEF Least
  <2>7. ASSUME embd' # <<>>
        PROVE  nSess + k >= Reusable /\ sess' = Prefix(inp, nSess + k)
    <3>1. k < Len(embd)
      BY <1>2, <1>3, <1>5, <2>7, EmptySeq
    <3>2. nSess + k >= Reusable
      BY <1>3, <1>4, <2>1, <2>2, <2>3, <3>1 DEF Least
    <3>3. CASE nSess > Reusable
      <4>1. k = 0 /\ nSess <= Len(inp)
        BY <1>2, <1>4, <2>1, <2>5, <3>3
      <4>2. sess = Prefix(inp, nSess) /\ Len(sess) = nSess
        BY <1>2, <1>4, <2>1, <3>3, <4>1, IngestedFacts
      <4>3. ~cuts
        BY <1>4, <4>1, <4>2
      <4> QED BY <1>1, <1>4, <3>2, <4>1, <4>2, <4>3
    <3>4. CASE ~(nSess > Reusable)
      <4>1. nSess + k = Reusable /\ nSess <= Reusable /\ nSess <= Len(inp)
        BY <1>2, <1>3, <1>4, <2>1, <2>2, <2>6, <3>2, <3>4
      <4>2. sess = Opened /\ Reusable <= Len(inp)
        <5>1. nMatch <= Len(inp)
          BY <1>2, OpeningFacts
        <5> QED BY <1>2, <2>1, <2>2, <4>1, <5>1 DEF Ingested
      <4>3. Prefix(Opened, Reusable) = Prefix(inp, Reusable)
        BY <1>2, <2>2, <4>2, IngestedFacts
      <4>4. sess' = Prefix(sess, nSess + k)
        <5>1. CASE cuts
          BY <1>1, <5>1
        <5>2. CASE ~cuts
          <6>1. Len(sess) = nSess + k
            BY <1>2, <1>3, <1>4, <3>1, <5>2
          <6> QED BY <1>1, <1>4, <5>2, <6>1, PrefixFull
        <5> QED BY <5>1, <5>2
      <4> QED BY <3>2, <4>1, <4>2, <4>3, <4>4
    <3> QED BY <3>3, <3>4
  <2>8. ASSUME embd' = <<>> PROVE sess' = Ingested(nSess + k)
    <3>1. k = Len(embd) /\ ~cuts /\ nSess + k = nConsumed
      BY <1>2, <1>3, <1>4, <1>5, <2>1, <2>8, EmptySeq
    <3>2. CASE nSess > Reusable
      BY <1>1, <1>4, <2>1, <2>5, <3>1, <3>2
    <3>3. CASE ~(nSess > Reusable)
      BY <1>1, <1>4, <2>1, <2>2, <2>6, <3>1, <3>3 DEF Ingested
    <3> QED BY <3>2, <3>3
  <2>9. nEval = IF nSess + k <= Reusable THEN 0 ELSE nSess + k - Reusable
    BY <1>3, <1>4, <2>1, <2>2, <2>5, <2>6
  <2>10. ASSUME ~torn
         PROVE  kv = Prefix(inp, IF nSess + k <= nMatch THEN nMatch ELSE nSess + k)
    <3>1. ~Again /\ kv = Prefix(inp, IF nSess <= nMatch THEN nMatch ELSE nSess)
      BY <1>13, <2>10 DEF Ingesting
    <3>2. Reusable = nMatch
      BY <2>2, <3>1
    <3>3. CASE nSess > Reusable
      BY <1>4, <2>2, <2>5, <3>1, <3>2, <3>3
    <3>4. CASE ~(nSess > Reusable)
      BY <1>4, <2>2, <2>6, <3>1, <3>2, <3>4
    <3> QED BY <3>3, <3>4
  <2>11. /\ nSess' <= nConsumed'
         /\ nEval' = IF nSess' <= Reusable' THEN 0 ELSE nSess' - Reusable'
         /\ embd' = SubSeq(inp', nSess' + 1, nConsumed')
    <3>1. nSess' <= nConsumed'
      BY <1>1, <2>4
    <3>2. nEval' = IF nSess' <= Reusable' THEN 0 ELSE nSess' - Reusable'
      <4>1. nSess' = nSess + k /\ Reusable' = Reusable /\ nEval' = nEval
        BY <1>1, <1>9
      <4> QED BY <1>3, <1>4, <2>2, <2>9, <4>1
    <3>3. embd' = SubSeq(inp', nSess' + 1, nConsumed')
      <4>1. embd' = SubSeq(inp, (nSess + k) + 1, nConsumed)
        BY <2>4
      <4> QED BY <1>1, <4>1
    <3> QED BY <3>1, <3>2, <3>3
  <2>12. /\ embd' # <<>> => nSess' >= Reusable' /\ sess' = Prefix(inp', nSess')
         /\ ~(embd' # <<>>) => sess' = Ingested(nSess)'
    <3>1. Ingested(nSess)' = IF nSess' <= Reusable' THEN Opened' ELSE Prefix(inp', nSess')
      BY DEF Ingested
    <3>2. Ingested(nSess + k) =
            IF nSess + k <= Reusable THEN Opened ELSE Prefix(inp, nSess + k)
      BY DEF Ingested
    <3>3. Opened' = Opened
      BY <1>1, SameCall
    <3> QED BY <1>1, <1>9, <2>7, <2>8, <3>1, <3>2, <3>3
  <2>13. ~torn' => kv' = Prefix(inp', IF nSess' <= nMatch' THEN nMatch' ELSE nSess')
    BY <1>1, <2>10
  <2>14. /\ answer' = <<>> /\ path' /\ file' = undo'
         /\ needSave' = (nMatch' < Len(inp'))
         /\ (SavedTornOf(undo)' \/ Again') => torn'
         /\ nRemain' # 0
         /\ MaxTokens' > 0 => nConsumed' <= nMatch' + MaxTokens'
         /\ eog' => inp'[Len(inp')] = Eog
         /\ EchoedOnce'
    BY <1>1, <1>9, <1>10, <1>13 DEF Ingesting
  <2>15. Ingesting'
    BY <1>1, <2>11, <2>12, <2>13, <2>14 DEF Ingesting
  <2> QED BY <1>1, <1>2, <1>7, <1>8, <1>9, <1>11, <1>12, <2>15 DEF IInv
<1>14. CASE Answering
  <2>1. k = 0 /\ embd = <<answer[Len(answer)]>> /\ Len(sess) = nSess
    BY <1>1, <1>3, <1>14 DEF Answering
  <2>2. embd' = embd
    <3>1. From(embd, 1) = embd
      BY <1>4, SubSeqFull DEF From
    <3> QED BY <1>1, <2>1, <3>1
  <2>3. sess' = sess /\ nSess' = nSess
    BY <1>1, <1>4, <2>1
  <2>4. Pending' = Pending /\ Stored' = Stored
    BY <1>1, <2>3 DEF Pending, Stored
  <2>5. Answering'
    BY <1>1, <1>9, <1>10, <1>14, <2>2, <2>3, <2>4 DEF Answering
  <2> QED BY <1>1, <1>2, <1>7, <1>8, <1>9, <1>11, <1>12, <2>5 DEF IInv
<1>15. CASE Cutting
  <2>1. nPast' + Len(embd') <= nConsumed
    <3>1. nPast + Len(embd) <= nConsumed
      BY <1>1, <1>15 DEF Cutting
    <3> QED BY <1>1, <1>2, <1>3, <1>4, <1>5, <3>1
  <2>2. ASSUME nConsumed < Len(inp)
        PROVE  /\ sess' = Before /\ nEval' = 0 /\ embd' = <<>>
               /\ embd' = SubSeq(inp, nSess' + 1, nSess' + Len(embd'))
    <3>1. k = Len(embd) /\ ~cuts
      BY <1>2, <1>3, <1>15, <2>2
    <3>2. embd' = <<>> /\ Len(embd') = 0
      BY <1>2, <1>5, <3>1, EmptySeq
    <3>3. sess' = Before /\ nEval' = 0
      BY <1>1, <1>15, <2>2, <3>1 DEF Cutting
    <3>4. SubSeq(inp, nSess + k + 1, nSess + k) = <<>>
      <4>1. nSess + k + 1 \in Int /\ nSess + k \in Int /\ nSess + k < nSess + k + 1
        BY <1>3, <1>4
      <4> QED BY <4>1, SubSeqEmpty
    <3>5. nSess + k + 0 = nSess + k
      BY <1>3, <1>4
    <3> QED BY <1>1, <3>2, <3>3, <3>4, <3>5
  <2>3. Cutting'
    BY <1>1, <1>9, <1>15, <2>1, <2>2 DEF Cutting
  <2> QED BY <1>1, <1>2, <1>7, <1>8, <1>9, <1>11, <1>12, <2>3 DEF IInv
<1>16. CASE Loose
  <2>1. Len(embd') <= 1
    <3>1. Len(embd) = 1
      BY <1>1, <1>16 DEF Loose
    <3> QED BY <1>2, <1>3, <1>5, <3>1
  <2>2. Loose'
    BY <1>1, <1>10, <1>16, <2>1 DEF Loose
  <2> QED BY <1>1, <1>2, <1>7, <1>8, <1>9, <1>11, <1>12, <2>2 DEF IInv
<1> QED BY <1>1, <1>13, <1>14, <1>15, <1>16 DEF IInv

LEMMA AllReusedKeeps ==
  ASSUME IInv, AllReused
  PROVE  IInv'
<1>1. /\ pc = "decode" /\ pc' = "feed" /\ embd = <<>>
      /\ UNCHANGED <<file, undo, budget, locals, reply>>
  BY DEF AllReused
<1> USE DEF locals, counters, output
<1>2. /\ TypeOK /\ Opening /\ Limits /\ Counted
      /\ Len(inp) \in Nat \ {0} /\ MaxTokens \in Nat /\ Len(embd) = 0
      /\ NCtx \in Nat
  BY <1>1, Numbers, EmptySeq
<1>3. TypeOK'
  BY <1>1, <1>2 DEF TypeOK
<1>4. Sound(file)' /\ Sound(undo)'
  BY <1>1 DEF IInv, Sound
<1>5. /\ Before' = Before /\ Again' = Again /\ Reusable' = Reusable
      /\ Opening' = Opening /\ \A n : Ingested(n)' = Ingested(n)
      /\ MaxTokens' = MaxTokens /\ SavedTornOf(undo)' = SavedTornOf(undo)
  BY <1>1, SameCall
<1>6. EchoedOnce' = EchoedOnce /\ EarlySaved' = EarlySaved
  BY <1>1, <1>5 DEF EchoedOnce, EarlySaved
<1>7. Limits'
  BY <1>1, <1>2, <1>5 DEF Limits
<1>8. Counted'
  BY <1>1, <1>2 DEF Counted
<1>9. CASE Ingesting
  <2>1. nSess = nConsumed
    <3>1. /\ embd = SubSeq(inp, nSess + 1, nConsumed) /\ nSess <= nConsumed
          /\ nSess \in Nat /\ nConsumed \in Nat /\ nConsumed <= Len(inp)
          /\ inp \in Seq(Vocab)
      BY <1>1, <1>2, <1>9 DEF Ingesting, TypeOK, Counted
    <3>2. Len(embd) = nConsumed - nSess
      BY <3>1, Piece
    <3> QED BY <1>2, <3>1, <3>2
  <2>2. Ingesting'
    BY <1>1, <1>5, <1>6, <1>9, <2>1 DEF Ingesting
  <2> QED BY <1>1, <1>2, <1>3, <1>4, <1>5, <1>7, <1>8, <2>2 DEF IInv
<1>10. CASE Answering
  <2>1. FALSE
    BY <1>1, <1>2, <1>10 DEF Answering
  <2> QED BY <2>1
<1>11. CASE Cutting
  <2>1. Cutting'
    BY <1>1, <1>5, <1>11 DEF Cutting
  <2> QED BY <1>1, <1>2, <1>3, <1>4, <1>5, <1>7, <1>8, <2>1 DEF IInv
<1>12. CASE Loose
  <2>1. Loose'
    BY <1>1, <1>6, <1>12 DEF Loose
  <2> QED BY <1>1, <1>2, <1>3, <1>4, <1>5, <1>7, <1>8, <2>1 DEF IInv
<1> QED BY <1>1, <1>9, <1>10, <1>11, <1>12 DEF IInv

-----------------------------------------------------------------------------
(* Decode *)

\* The batch is all of embd, but for a batch that was cut, and keeps to the
\* budget.
LEMMA ChunkIs ==
  ASSUME IInv, pc = "decode", embd # <<>>
  PROVE  /\ Chunk \in Nat /\ Chunk >= 1 /\ Chunk <= Len(embd)
         /\ MaxTokens > 0 => nEval + Chunk <= MaxTokens
         /\ Ingesting \/ Answering => Chunk = Len(embd)
<1>1. /\ TypeOK /\ Opening /\ Limits /\ Counted
      /\ Len(inp) \in Nat \ {0} /\ MaxTokens \in Nat /\ Len(embd) \in Nat
      /\ NBatch \in Nat \ {0}
  BY Numbers
<1>2. /\ Len(embd) <= NBatch /\ Len(embd) # 0 /\ nEval \in Nat
      /\ (MaxTokens > 0 => nEval = 0 \/ nEval + Len(embd) <= MaxTokens)
  BY <1>1, EmptySeq DEF Limits, TypeOK
<1>3. Least(Len(embd), NBatch) = Len(embd)
  BY <1>1, <1>2 DEF Least
<1>4. Chunk = IF MaxTokens > 0 /\ Len(embd) >= MaxTokens THEN MaxTokens ELSE Len(embd)
  BY <1>3 DEF Chunk
<1>5. MaxTokens > 0 => nEval + Chunk <= MaxTokens
  BY <1>1, <1>2, <1>4
<1>6. ASSUME Ingesting PROVE Chunk = Len(embd)
  <2>1. /\ embd = SubSeq(inp, nSess + 1, nConsumed) /\ nSess <= nConsumed
        /\ nSess >= Reusable /\ (MaxTokens > 0 => nConsumed <= nMatch + MaxTokens)
    BY <1>6 DEF Ingesting
  <2>2. /\ nSess \in Nat /\ nConsumed \in Nat /\ nConsumed <= Len(inp)
        /\ inp \in Seq(Vocab)
    BY <1>1 DEF TypeOK, Counted
  <2>3. /\ Reusable \in Nat /\ nMatch \in Nat
        /\ (~Again => Reusable = nMatch)
        /\ (Again => nMatch = Len(inp) /\ Reusable = nMatch - 1)
    BY <1>1, OpeningFacts
  <2>4. Len(embd) = nConsumed - nSess
    BY <2>1, <2>2, Piece
  <2>5. MaxTokens > 0 => Len(embd) <= MaxTokens
    BY <1>1, <2>1, <2>2, <2>3, <2>4
  <2> QED BY <1>1, <1>4, <2>5
<1>7. ASSUME Answering PROVE Chunk = Len(embd)
  <2>1. Len(embd) = 1
    BY <1>7 DEF Answering
  <2> QED BY <1>1, <1>4, <2>1
<1> QED BY <1>1, <1>2, <1>4, <1>5, <1>6, <1>7

LEMMA DecodeKeeps ==
  ASSUME IInv, Decode
  PROVE  IInv'
<1> DEFINE c == Chunk
           ends == eog \/ (MaxTokens > 0 /\ nEval + c >= MaxTokens)
<1>1. /\ pc = "decode" /\ embd # <<>> /\ nEval + c <= InstructionLimit
      /\ kv' = kv \o Prefix(embd, c)
      /\ nPast' = nPast + c /\ nEval' = nEval + c
      /\ sess' = (IF path THEN sess \o Prefix(embd, c) ELSE sess)
      /\ (path => nSess' = Len(sess')) /\ (~path => nSess' = nSess)
      /\ pc' = (IF ends THEN "end" ELSE "feed")
      /\ embd' = (IF ends THEN embd ELSE <<>>)
      /\ UNCHANGED <<file, undo, budget, query, inp, nMatch, nConsumed, nRemain, eog,
                     anti, needSave, path, torn, cut, output, reply>>
  BY DEF Decode
<1> USE DEF output
<1>2. /\ TypeOK /\ Opening /\ Limits /\ Counted
      /\ Len(inp) \in Nat \ {0} /\ MaxTokens \in Nat /\ Len(sess) \in Nat
      /\ Len(embd) \in Nat /\ InstructionLimit \in Nat
      /\ NCtx \in Nat /\ NCtx > 4 /\ NBatch \in Nat \ {0}
  BY <1>1, Numbers, SizeAssumption
<1>3. /\ c \in Nat /\ c >= 1 /\ c <= Len(embd)
      /\ (MaxTokens > 0 => nEval + c <= MaxTokens)
      /\ (Ingesting \/ Answering => c = Len(embd))
  BY <1>1, ChunkIs
<1> HIDE DEF c
<1>4. /\ nSess \in Nat /\ nConsumed \in Nat /\ nPast \in Nat /\ nEval \in Nat
      /\ nConsumed <= Len(inp) /\ embd \in Seq(Vocab) /\ sess \in Seq(Vocab)
      /\ inp \in Seq(Vocab) /\ kv \in Seq(Vocab)
  BY <1>2 DEF TypeOK, Counted
<1>5. /\ Prefix(embd, c) \in Seq(Vocab) /\ Len(Prefix(embd, c)) = c
      /\ (c = Len(embd) => Prefix(embd, c) = embd)
  BY <1>3, <1>4, PrefixOf, PrefixFull
<1>6. sess \o Prefix(embd, c) \in Seq(Vocab) /\ kv \o Prefix(embd, c) \in Seq(Vocab)
      /\ Len(sess \o Prefix(embd, c)) = Len(sess) + c
  <2>1. sess \in Seq(Vocab) /\ kv \in Seq(Vocab) /\ Prefix(embd, c) \in Seq(Vocab)
    BY <1>4, <1>5
  <2>2. kv \o Prefix(embd, c) \in Seq(Vocab)
    BY <2>1, ConcatProperties
  <2>3. /\ sess \o Prefix(embd, c) \in Seq(Vocab)
        /\ Len(sess \o Prefix(embd, c)) = Len(sess) + Len(Prefix(embd, c))
    BY <2>1, ConcatProperties
  <2> QED BY <1>5, <2>2, <2>3
<1>7. /\ Len(embd) <= NBatch /\ Len(sess) < NCtx /\ nSess = Len(sess)
      /\ (path => nPast = nSess) /\ nPast + Len(embd) < NCtx
  BY <1>1, <1>2 DEF Limits
<1>8. TypeOK'
  <2>1. sess' \in Seq(Vocab) /\ embd' \in Seq(Vocab)
    BY <1>1, <1>4, <1>6, EmptySeq
  <2>2. nSess' \in Nat
    BY <1>1, <1>4, <2>1, LenProperties DEF TypeOK
  <2>3. nPast + c \in Nat /\ nEval + c \in Nat
    BY <1>3, <1>4
  <2> QED BY <1>1, <1>2, <1>6, <2>1, <2>2, <2>3 DEF TypeOK
<1>9. Sound(file)' /\ Sound(undo)'
  BY <1>1 DEF IInv, Sound
<1>10. /\ Before' = Before /\ Again' = Again /\ Reusable' = Reusable
       /\ Opening' = Opening /\ \A n : Ingested(n)' = Ingested(n)
       /\ MaxTokens' = MaxTokens /\ SavedTornOf(undo)' = SavedTornOf(undo)
  BY <1>1, SameCall
<1>11. EchoedOnce' = EchoedOnce /\ EarlySaved' = EarlySaved
  BY <1>1, <1>10 DEF EchoedOnce, EarlySaved
<1>12. Limits'
  <2>1. Len(embd') <= NBatch /\ (pc' = "feed" => embd' = <<>>)
    BY <1>1, <1>2, <1>7, EmptySeq
  <2>2. Len(sess') < NCtx /\ nSess' <= Len(sess')
    <3>1. CASE path
      <4>1. Len(sess) + c < NCtx
        BY <1>2, <1>3, <1>4, <1>7, <3>1
      <4> QED BY <1>1, <1>2, <1>3, <1>6, <3>1, <4>1
    <3>2. CASE ~path
      BY <1>1, <1>2, <1>7, <3>2
    <3> QED BY <3>1, <3>2
  <2>3. path' => nPast' = nSess'
    <3> SUFFICES ASSUME path PROVE nPast + c = Len(sess) + c
      BY <1>1, <1>6
    <3> QED BY <1>7
  <2>4. nPast' < NCtx /\ nEval' <= InstructionLimit
    BY <1>1, <1>2, <1>3, <1>4, <1>7
  <2>5. pc' \in {"end", "feed"}
    BY <1>1
  <2>6. MaxTokens > 0 => nEval' <= MaxTokens /\ (pc' # "end" => nEval' < MaxTokens)
    BY <1>1, <1>2, <1>3, <1>4
  <2> QED BY <1>10, <2>1, <2>2, <2>3, <2>4, <2>5, <2>6 DEF Limits
<1>13. /\ nMatch \in Nat /\ nMatch <= Len(inp) /\ Reusable \in Nat /\ Reusable <= nMatch
       /\ (~Again => Reusable = nMatch) /\ (Again => Reusable = nMatch - 1)
  BY <1>2, OpeningFacts
<1>14. ASSUME nConsumed >= nMatch, nEval' >= nConsumed - nMatch PROVE Counted'
  <2>1. answer' # <<>> => nEval' >= Len(inp') - nMatch'
    BY <1>1, <1>2, <1>3, <1>4, <1>13 DEF Counted
  <2> QED BY <1>1, <1>2, <1>14, <2>1 DEF Counted
<1>15. CASE Ingesting
  <2>1. /\ embd = SubSeq(inp, nSess + 1, nConsumed) /\ nSess <= nConsumed
        /\ sess = Prefix(inp, nSess) /\ nSess >= Reusable /\ path /\ answer = <<>>
        /\ nEval = (IF nSess <= Reusable THEN 0 ELSE nSess - Reusable)
        /\ c = Len(embd)
    BY <1>1, <1>3, <1>15 DEF Ingesting
  <2>2. Len(embd) = nConsumed - nSess
    BY <1>4, <2>1, Piece
  <2>3. nEval + c = nConsumed - Reusable /\ nConsumed > Reusable /\ nSess + c = nConsumed
    BY <1>2, <1>3, <1>4, <1>13, <2>1, <2>2
  <2>4. sess' = Prefix(inp, nConsumed) /\ nSess' = nConsumed
    <3>1. sess' = Prefix(inp, nSess) \o embd
      BY <1>1, <1>5, <2>1
    <3>2. sess' = Prefix(inp, nConsumed)
      BY <1>4, <2>1, <3>1, PrefixGrows
    <3>3. Len(Prefix(inp, nConsumed)) = nConsumed
      BY <1>4, PrefixOf
    <3> QED BY <1>1, <2>1, <3>2, <3>3
  <2>5. Counted'
    <3>1. nConsumed >= nMatch
      BY <1>4, <1>13, <2>3
    <3>2. nEval' >= nConsumed - nMatch
      BY <1>1, <1>4, <1>13, <2>3
    <3> QED BY <1>14, <3>1, <3>2
  <2>6. ASSUME ~torn PROVE kv' = Prefix(inp, nConsumed)
    <3>1. ~Again /\ kv = Prefix(inp, IF nSess <= nMatch THEN nMatch ELSE nSess)
      BY <1>15, <2>6 DEF Ingesting
    <3>2. kv = Prefix(inp, nSess)
      BY <1>4, <1>13, <2>1, <3>1
    <3>3. kv' = Prefix(inp, nSess) \o embd
      BY <1>1, <1>5, <2>1, <3>2
    <3> QED BY <1>4, <2>1, <3>3, PrefixGrows
  <2>7. sess' = Ingested(nSess)'
    <3>1. Ingested(nSess)' = IF nSess' <= Reusable' THEN Opened' ELSE Prefix(inp', nSess')
      BY DEF Ingested
    <3>2. ~(nSess' <= Reusable')
      BY <1>4, <1>10, <1>13, <2>3, <2>4
    <3> QED BY <1>1, <2>4, <3>1, <3>2
  <2>8. nEval' = IF nSess' <= Reusable' THEN 0 ELSE nSess' - Reusable'
    <3>1. nSess' = nConsumed /\ Reusable' = Reusable /\ nEval' = nEval + c
      BY <1>1, <1>10, <2>4
    <3> QED BY <1>4, <1>13, <2>3, <3>1
  <2>9. ~torn' => kv' = Prefix(inp', IF nSess' <= nMatch' THEN nMatch' ELSE nSess')
    <3>1. nConsumed <= nMatch => nConsumed = nMatch
      BY <1>4, <1>13, <2>3
    <3> QED BY <1>1, <1>4, <1>13, <2>4, <2>6, <3>1
  <2>10. pc' = "end" =>
           /\ nSess' = nConsumed' /\ nSess' > Reusable'
           /\ nConsumed' = Len(inp') \/ (MaxTokens' > 0 /\ nEval' = MaxTokens')
    <3>1. eog => nConsumed = Len(inp)
      BY <1>2 DEF Counted
    <3>2. ASSUME MaxTokens > 0, nEval + c >= MaxTokens PROVE nEval + c = MaxTokens
      BY <1>2, <1>3, <1>4, <3>2
    <3> QED BY <1>1, <1>10, <2>3, <2>4, <3>1, <3>2
  <2>11. /\ answer' = <<>> /\ path' /\ file' = undo'
         /\ needSave' = (nMatch' < Len(inp'))
         /\ (SavedTornOf(undo)' \/ Again') => torn'
         /\ nRemain' # 0
         /\ MaxTokens' > 0 => nConsumed' <= nMatch' + MaxTokens'
         /\ eog' => inp'[Len(inp')] = Eog
         /\ EchoedOnce'
    BY <1>1, <1>10, <1>11, <1>15 DEF Ingesting
  <2>12. pc' \in {"end", "feed"} /\ nSess' <= nConsumed' /\ nSess' = nConsumed'
    BY <1>1, <1>4, <2>4
  <2>13. Ingesting'
    BY <2>7, <2>8, <2>9, <2>10, <2>11, <2>12 DEF Ingesting
  <2> QED BY <1>1, <1>8, <1>9, <1>2, <1>10, <1>12, <2>5, <2>13 DEF IInv
<1>16. CASE Answering
  <2>1. /\ embd = <<answer[Len(answer)]>> /\ path /\ answer # <<>> /\ c = Len(embd)
        /\ nSess = Len(sess) /\ nEval = Len(sess) - Reusable
        /\ sess = inp \o Prefix(answer, Len(answer) - 1)
    BY <1>1, <1>3, <1>16 DEF Answering, Pending
  <2>2. sess' = sess \o embd /\ c = 1 /\ Len(sess') = Len(sess) + 1
    BY <1>1, <1>2, <1>5, <1>6, <2>1
  <2>3. sess' = inp \o answer
    <3>1. answer \in Seq(Vocab) /\ Len(answer) \in Nat /\ Len(answer) # 0
      BY <1>2, <2>1, EmptySeq, LenProperties DEF TypeOK
    <3>2. Prefix(answer, Len(answer) - 1) \in Seq(Vocab)
      BY <3>1, PrefixOf
    <3>3. sess' = inp \o (Prefix(answer, Len(answer) - 1) \o embd)
      <4>1. sess' = (inp \o Prefix(answer, Len(answer) - 1)) \o embd
        BY <2>1, <2>2
      <4>2. inp \in Seq(Vocab) /\ embd \in Seq(Vocab)
        BY <1>4
      <4> QED BY <3>2, <4>1, <4>2, ConcatAssociative
    <3>4. Prefix(answer, Len(answer) - 1) \o embd = answer
      <4>1. Len(answer) \in 1 .. Len(answer) /\ 1 \in 1 .. Len(answer)
        BY <3>1
      <4>2. SubSeq(answer, 1, Len(answer)) =
              SubSeq(answer, 1, Len(answer) - 1) \o <<answer[Len(answer)]>>
        BY <3>1, <4>1, SubSeqRecursiveSecond
      <4> QED BY <2>1, <3>1, <4>2, SubSeqFull DEF Prefix
    <3> QED BY <3>3, <3>4
  <2>4. nConsumed = Len(inp) /\ nEval >= Len(inp) - nMatch
    BY <1>2, <2>1 DEF Counted
  <2>5. Counted'
    <3>1. nEval' >= nConsumed - nMatch /\ nConsumed >= nMatch
      BY <1>1, <1>3, <1>4, <1>13, <2>4
    <3> QED BY <1>14, <3>1
  <2>6. ~torn' => kv' = sess'
    BY <1>1, <1>5, <1>16, <2>1, <2>2 DEF Answering
  <2>7. nSess' = Len(sess') /\ nEval' = Len(sess') - Reusable'
    BY <1>1, <1>2, <1>10, <1>13, <2>1, <2>2
  <2>8. eog' => inp'[Len(inp')] = Eog \/ (answer'[Len(answer')] = Eog /\ pc' # "feed")
    BY <1>1, <1>16 DEF Answering
  <2>9. /\ answer' # <<>> /\ path' /\ ~needSave' /\ EarlySaved' /\ EchoedOnce'
        /\ pc' \in {"end", "feed"} /\ (Again' => torn')
    BY <1>1, <1>10, <1>11, <1>16 DEF Answering
  <2>10. Stored'
    BY <1>1, <2>3 DEF Stored
  <2>11. Answering'
    BY <2>6, <2>7, <2>8, <2>9, <2>10 DEF Answering
  <2> QED BY <1>1, <1>8, <1>9, <1>2, <1>10, <1>12, <2>5, <2>11 DEF IInv
<1>17. CASE Cutting
  <2>1. nConsumed = Len(inp) /\ nPast + Len(embd) <= nConsumed
    BY <1>1, <1>2, <1>4, <1>17 DEF Cutting
  <2>2. nMatch = Len(inp)
    BY <1>2, <1>17, WholeSession DEF Cutting
  <2>3. Counted'
    <3>1. nEval' >= nConsumed - nMatch /\ nConsumed >= nMatch
      BY <1>1, <1>2, <1>3, <1>4, <2>1, <2>2
    <3> QED BY <1>14, <3>1
  <2>4. pc' # "end" => nPast' + Len(embd') <= nConsumed'
    <3>1. nPast + c + 0 <= nConsumed
      BY <1>2, <1>3, <1>4, <2>1
    <3> QED BY <1>1, <3>1, EmptySeq
  <2>5. Cutting'
    BY <1>1, <1>10, <1>17, <2>1, <2>4 DEF Cutting
  <2> QED BY <1>1, <1>8, <1>9, <1>2, <1>10, <1>12, <2>3, <2>5 DEF IInv
<1>18. CASE Loose
  <2>1. nConsumed = Len(inp) /\ nEval >= Len(inp) - nMatch
    BY <1>2, <1>18 DEF Counted, Loose
  <2>2. Counted'
    <3>1. nEval' >= nConsumed - nMatch /\ nConsumed >= nMatch
      BY <1>1, <1>3, <1>4, <1>13, <2>1
    <3> QED BY <1>14, <3>1
  <2>3. Loose'
    BY <1>1, <1>11, <1>18 DEF Loose
  <2> QED BY <1>1, <1>8, <1>9, <1>2, <1>10, <1>12, <2>2, <2>3 DEF IInv
<1> QED BY <1>1, <1>15, <1>16, <1>17, <1>18 DEF IInv

-----------------------------------------------------------------------------
(* The next tokens *)

LEMMA SampleKeeps ==
  ASSUME IInv, NEW t \in Samples, Sample(t)
  PROVE  IInv'
<1>1. /\ pc = "feed" /\ PromptConsumed /\ pc' = "loop"
      /\ (path /\ needSave =>
            file' = [toks |-> sess, kv |-> kv, torn |-> torn] /\ needSave' = FALSE)
      /\ (~(path /\ needSave) => UNCHANGED <<file, needSave>>)
      /\ nRemain' = (IF nRemain > 0 THEN nRemain - 1 ELSE nRemain)
      /\ Next_embd(<<t>>, nConsumed)
      /\ answer' = Append(answer, t)
      /\ UNCHANGED <<undo, budget, query, inp, nMatch, sess, kv, nPast, nSess,
                     nConsumed, nEval, path, torn, cut, echoed, reply>>
  BY DEF Sample
<1>2. /\ TypeOK /\ Opening /\ Limits /\ Counted
      /\ Len(inp) \in Nat \ {0} /\ MaxTokens \in Nat /\ Len(sess) \in Nat
      /\ Len(answer) \in Nat
      /\ NCtx \in Nat /\ NCtx > 4 /\ NBatch \in Nat \ {0}
  BY <1>1, Numbers
<1>3. nConsumed = Len(inp) /\ nSess \in Nat /\ nEval \in Nat
  BY <1>1, <1>2 DEF PromptConsumed, Counted, TypeOK
<1>4. /\ t \in Vocab /\ embd' = <<t>> /\ embd' \in Seq(Vocab) /\ Len(embd') = 1
      /\ anti' \in BOOLEAN /\ eog' \in BOOLEAN /\ (eog' => eog \/ t = Eog)
  <2>1. t \in Vocab
    BY TokenAssumption
  <2>2. embd' = <<t>> /\ (eog' = (eog \/ (Len(inp) <= nConsumed /\ t = Eog)))
    BY <1>1 DEF Next_embd
  <2>3. anti' \in BOOLEAN
    <3>1. anti' = (t \in ReversePrompts) \/ anti' = anti
      BY <1>1 DEF Next_embd
    <3>2. anti \in BOOLEAN
      BY <1>2 DEF TypeOK
    <3>3. (t \in ReversePrompts) \in BOOLEAN
      OBVIOUS
    <3> QED BY <3>1, <3>2, <3>3, Zenon
  <2>4. eog' \in BOOLEAN /\ (eog' => eog \/ t = Eog)
    BY <2>2
  <2>5. embd' \in Seq(Vocab) /\ Len(embd') = 1
    BY <2>1, <2>2
  <2> QED BY <2>1, <2>2, <2>3, <2>4, <2>5
<1>5. /\ answer \in Seq(Vocab) /\ answer' \in Seq(Vocab) /\ answer' # <<>>
      /\ Len(answer') = Len(answer) + 1
      /\ answer'[Len(answer')] = t
      /\ Prefix(answer', Len(answer)) = answer
  <2>1. answer \in Seq(Vocab)
    BY <1>2 DEF TypeOK
  <2>2. /\ answer' \in Seq(Vocab) /\ answer' # <<>>
        /\ Len(answer') = Len(answer) + 1
        /\ \A i \in 1 .. Len(answer) : answer'[i] = answer[i]
        /\ answer'[Len(answer) + 1] = t
    BY <1>1, <1>4, <2>1, AppendProperties
  <2>3. Prefix(answer', Len(answer)) = answer
    <3> DEFINE r == Prefix(answer', Len(answer))
    <3>1. Len(answer) <= Len(answer')
      BY <1>2, <2>2
    <3>2. /\ r \in Seq(Vocab) /\ Len(r) = Len(answer)
          /\ \A i \in 1 .. Len(answer) : r[i] = answer'[i]
      BY <1>2, <2>2, <3>1, PrefixOf
    <3> HIDE DEF r
    <3>3. r = answer
      BY <2>1, <2>2, <3>2, SeqEqual
    <3> QED BY <3>3 DEF r
  <2> QED BY <1>2, <2>1, <2>2, <2>3
<1>6. /\ Before' = Before /\ Again' = Again /\ Reusable' = Reusable
      /\ Opening' = Opening /\ MaxTokens' = MaxTokens
  BY <1>1, SameCall
<1>7. TypeOK'
  <2>1. file' \in Session \cup {NoFile} /\ needSave' \in BOOLEAN
    <3>1. CASE path /\ needSave
      <4>1. [toks |-> sess, kv |-> kv, torn |-> torn] \in Session
        BY <1>2 DEF TypeOK, Session
      <4> QED BY <1>1, <3>1, <4>1
    <3>2. CASE ~(path /\ needSave)
      BY <1>1, <1>2, <3>2 DEF TypeOK
    <3> QED BY <3>1, <3>2
  <2>2. nRemain' \in Int
    BY <1>1, <1>2 DEF TypeOK
  <2> QED BY <1>1, <1>2, <1>4, <1>5, <2>1, <2>2 DEF TypeOK
<1>8. Limits'
  <2>1. Len(embd') <= NBatch
    BY <1>2, <1>4
  <2>2. MaxTokens > 0 => /\ nEval <= MaxTokens /\ nEval < MaxTokens
                         /\ nEval + Len(embd') <= MaxTokens
    BY <1>1, <1>2, <1>3, <1>4 DEF Limits
  <2>3. /\ nEval <= InstructionLimit /\ Len(sess) < NCtx /\ nSess <= Len(sess)
        /\ nPast < NCtx /\ (path => nPast = nSess)
    BY <1>2 DEF Limits
  <2> QED BY <1>1, <1>6, <2>1, <2>2, <2>3 DEF Limits
<1>9. /\ nMatch \in Nat /\ nMatch <= Len(inp) /\ Reusable \in Nat /\ Reusable <= nMatch
      /\ (~Again => Reusable = nMatch)
  BY <1>2, OpeningFacts
<1>10. ASSUME nEval >= Len(inp) - nMatch PROVE Counted'
  BY <1>1, <1>3, <1>10 DEF Counted
<1>11. EchoedOnce => EchoedOnce'
  BY <1>1, <1>6 DEF EchoedOnce
<1>12. Sound(undo)'
  BY <1>1 DEF IInv, Sound
<1>13. CASE Ingesting
  <2>1. /\ nSess = Len(inp) /\ sess = Ingested(Len(inp)) /\ path /\ file = undo
        /\ needSave = (nMatch < Len(inp)) /\ answer = <<>>
        /\ nEval = (IF nSess <= Reusable THEN 0 ELSE nSess - Reusable)
    BY <1>1, <1>3, <1>13 DEF Ingesting
  <2>2. sess = inp /\ nEval = Len(inp) - Reusable
    <3>1. sess = inp
      BY <1>2, <2>1, IngestedFacts
    <3> QED BY <1>2, <1>9, <2>1, <3>1
  <2>3. ~torn => kv = inp
    <3> SUFFICES ASSUME ~torn PROVE kv = inp
      OBVIOUS
    <3>1. kv = Prefix(inp, Len(inp))
      BY <1>2, <1>9, <1>13, <2>1 DEF Ingesting
    <3>2. inp \in Seq(Vocab)
      BY <1>2 DEF TypeOK
    <3> QED BY <3>1, <3>2, PrefixFull
  <2>4. Sound(file)'
    BY <1>1, <1>2, <2>2, <2>3 DEF IInv, Sound, Limits
  <2>5. ~needSave' /\ EarlySaved'
    <3>1. CASE needSave
      <4>1. [toks |-> sess, kv |-> kv, torn |-> torn] \in Session
        BY <1>2 DEF TypeOK, Session
      <4>2. file' # NoFile /\ file'.toks = inp /\ ~needSave'
        BY <1>1, <2>1, <2>2, <3>1, <4>1, FileAssumption
      <4>3. nMatch' < Len(inp')
        BY <1>1, <2>1, <3>1
      <4> QED BY <1>1, <4>2, <4>3 DEF EarlySaved
    <3>2. CASE ~needSave
      BY <1>1, <2>1, <3>2 DEF EarlySaved
    <3> QED BY <3>1, <3>2
  <2>6. Pending'
    <3>1. Prefix(answer', Len(answer') - 1) = <<>>
      BY <1>2, <1>5, <2>1
    <3>2. inp \o <<>> = inp
      BY <1>2, ConcatEmptySeq DEF TypeOK
    <3> QED BY <1>1, <2>2, <3>1, <3>2 DEF Pending
  <2>7. Counted'
    BY <1>2, <1>9, <1>10, <2>2
  <2>8. Answering'
    <3>1. path' /\ answer' # <<>> /\ nSess' = Len(sess') /\ nEval' = Len(sess') - Reusable'
      BY <1>1, <1>5, <1>6, <2>1, <2>2
    <3>2. ~torn' => kv' = sess'
      BY <1>1, <2>2, <2>3
    <3>3. embd' = <<answer'[Len(answer')]>> /\ pc' = "loop"
      BY <1>1, <1>4, <1>5
    <3>4. eog' => inp'[Len(inp')] = Eog \/ (answer'[Len(answer')] = Eog /\ pc' # "feed")
      BY <1>1, <1>4, <1>5, <1>13 DEF Ingesting
    <3>5. EchoedOnce'
      BY <1>11, <1>13 DEF Ingesting
    <3>6. Again' => torn'
      BY <1>1, <1>6, <1>13 DEF Ingesting
    <3> QED BY <2>5, <2>6, <3>1, <3>2, <3>3, <3>4, <3>5, <3>6 DEF Answering
  <2> QED BY <1>1, <1>2, <1>6, <1>7, <1>8, <1>12, <2>4, <2>7, <2>8 DEF IInv
<1>14. CASE Answering
  <2>1. /\ path /\ ~needSave /\ EarlySaved /\ nSess = Len(sess)
        /\ nEval = Len(sess) - Reusable /\ (~torn => kv = sess)
        /\ sess = inp \o answer /\ answer # <<>>
    BY <1>1, <1>14 DEF Answering, Stored
  <2>2. file' = file /\ needSave' = needSave
    BY <1>1, <2>1
  <2>3. Sound(file)' /\ EarlySaved'
    BY <1>1, <2>1, <2>2 DEF IInv, Sound, EarlySaved
  <2>4. Pending'
    BY <1>1, <1>2, <1>5, <2>1 DEF Pending
  <2>5. Counted'
    BY <1>2, <1>10, <2>1 DEF Counted
  <2>6. Answering'
    <3>1. path' /\ answer' # <<>> /\ nSess' = Len(sess') /\ nEval' = Len(sess') - Reusable'
      BY <1>1, <1>5, <1>6, <2>1
    <3>2. (~torn' => kv' = sess') /\ ~needSave'
      BY <1>1, <2>1, <2>2
    <3>3. embd' = <<answer'[Len(answer')]>> /\ pc' = "loop"
      BY <1>1, <1>4, <1>5
    <3>4. eog' => inp'[Len(inp')] = Eog \/ (answer'[Len(answer')] = Eog /\ pc' # "feed")
      BY <1>1, <1>4, <1>5, <1>14 DEF Answering
    <3>5. EchoedOnce'
      BY <1>11, <1>14 DEF Answering
    <3>6. Again' => torn'
      BY <1>1, <1>6, <1>14 DEF Answering
    <3> QED BY <2>3, <2>4, <3>1, <3>2, <3>3, <3>4, <3>5, <3>6 DEF Answering
  <2> QED BY <1>1, <1>2, <1>6, <1>7, <1>8, <1>12, <2>3, <2>5, <2>6 DEF IInv
<1>15. CASE Cutting \/ Loose
  <2>1. (path => torn /\ cut /\ ~needSave /\ NBatch > NCtx - 4) /\ EarlySaved
    BY <1>15 DEF Cutting, Loose, EarlySaved
  <2>2. file' = file /\ needSave' = needSave
    BY <1>1, <2>1
  <2>3. Sound(file)' /\ EarlySaved'
    BY <1>1, <2>1, <2>2 DEF IInv, Sound, EarlySaved
  <2>4. nEval >= Len(inp) - nMatch
    <3>1. CASE Cutting
      <4>1. nMatch = Len(inp)
        BY <1>2, <3>1, WholeSession DEF Cutting
      <4> QED BY <1>2, <1>3, <4>1
    <3>2. CASE Loose
      BY <1>2, <3>2 DEF Counted, Loose
    <3> QED BY <1>15, <3>1, <3>2
  <2>5. Counted'
    BY <1>10, <2>4
  <2>6. Loose'
    BY <1>1, <1>4, <1>5, <2>1, <2>2, <2>3 DEF Loose
  <2> QED BY <1>1, <1>2, <1>6, <1>7, <1>8, <1>12, <2>3, <2>5, <2>6 DEF IInv
<1> QED BY <1>1, <1>13, <1>14, <1>15 DEF IInv

\* What the fill loop forwards: some of the prompt, no more than a batch or the
\* budget allows; what is left of a prompt that was cut, all at once.
LEMMA FillCountIs ==
  ASSUME IInv, pc = "feed", ~PromptConsumed
  PROVE  /\ Ingesting \/ Cutting
         /\ FillCount \in Nat /\ FillCount >= 1 /\ FillCount <= NBatch
         /\ nConsumed + FillCount <= Len(inp)
         /\ MaxTokens > 0 =>
              /\ nConsumed + FillCount <= nMatch + MaxTokens
              /\ nEval = 0 \/ nEval + FillCount <= MaxTokens
         /\ Cutting => nConsumed + FillCount = Len(inp)
         /\ Ingesting /\ NBatch > 1 /\ FillCount = 1 =>
              \/ nConsumed + FillCount = Len(inp)
              \/ MaxTokens > 0 /\ nConsumed + FillCount = nMatch + MaxTokens
<1> DEFINE left == Len(inp) - nConsumed
           room == nMatch + MaxTokens - nConsumed
           most == Least(left, NBatch)
<1>1. /\ TypeOK /\ Opening /\ Limits /\ Counted
      /\ Len(inp) \in Nat \ {0} /\ MaxTokens \in Nat
      /\ NCtx \in Nat /\ NCtx > 4 /\ NBatch \in Nat \ {0}
  BY Numbers
<1>2. /\ nConsumed \in Nat /\ nSess \in Nat /\ nEval \in Nat
      /\ nConsumed < Len(inp) /\ left \in Nat /\ left >= 1
      /\ (MaxTokens > 0 => nEval < MaxTokens)
  BY <1>1 DEF PromptConsumed, TypeOK, Limits
<1>3. Ingesting \/ Cutting
  <2>1. answer = <<>>
    BY <1>1, <1>2 DEF Counted
  <2> QED BY <2>1 DEF IInv, Answering, Loose
<1>4. /\ most \in Nat /\ most >= 1 /\ most <= left /\ most <= NBatch
      /\ most = left \/ most = NBatch
  BY <1>1, <1>2 DEF Least
<1>5. FillCount = IF MaxTokens = 0 THEN most ELSE Least(most, IF room < 1 THEN 1 ELSE room)
  BY DEF FillCount
<1>6. /\ nMatch \in Nat /\ nMatch <= Len(inp) /\ Reusable \in Nat /\ Reusable <= nMatch
      /\ (~Again => Reusable = nMatch) /\ (Again => nMatch = Len(inp) /\ Reusable = nMatch - 1)
  BY <1>1, OpeningFacts
<1>7. CASE Cutting
  <2>1. Len(inp) <= nConsumed + 2 /\ NBatch > NCtx - 4 /\ nEval = 0 /\ inp = Before
    BY <1>2, <1>7 DEF Cutting
  <2>2. nMatch = Len(inp)
    BY <1>1, <2>1, WholeSession
  <2>3. left <= NBatch /\ most = left
    BY <1>1, <1>2, <2>1 DEF Least
  <2>4. MaxTokens > 0 => room >= left /\ room >= 1
    BY <1>1, <1>2, <2>2
  <2>5. FillCount = left
    <3> HIDE DEF left, room, most
    <3>1. room \in Int
      BY <1>1, <1>2, <1>6 DEF room
    <3> QED BY <1>1, <1>2, <1>5, <2>3, <2>4, <3>1 DEF Least
  <2> QED BY <1>1, <1>2, <1>3, <1>4, <2>1, <2>2, <2>3, <2>5
<1>8. CASE Ingesting /\ ~Cutting
  <2>1. /\ nSess = nConsumed
        /\ nEval = (IF nSess <= Reusable THEN 0 ELSE nSess - Reusable)
        /\ (MaxTokens > 0 => nConsumed <= nMatch + MaxTokens)
    BY <1>8 DEF Ingesting
  <2>2. MaxTokens > 0 => room >= 1
    BY <1>1, <1>2, <1>6, <2>1
  <2>3. room \in Int
    BY <1>1, <1>2, <1>6
  <2>4. /\ FillCount \in Nat /\ FillCount >= 1 /\ FillCount <= most
        /\ (MaxTokens > 0 => FillCount <= room)
        /\ FillCount = most \/ (MaxTokens > 0 /\ FillCount = room)
    <3> HIDE DEF left, room, most
    <3> QED BY <1>1, <1>4, <1>5, <2>2, <2>3 DEF Least
  <2>5. nConsumed + FillCount <= Len(inp)
    BY <1>1, <1>2, <1>4, <2>4
  <2>6. MaxTokens > 0 => /\ nConsumed + FillCount <= nMatch + MaxTokens
                         /\ nEval = 0 \/ nEval + FillCount <= MaxTokens
    <3>1. MaxTokens > 0 => nConsumed + FillCount <= nMatch + MaxTokens
      BY <1>1, <1>2, <1>6, <2>4
    <3>2. ASSUME MaxTokens > 0, nEval # 0 PROVE nEval + FillCount <= MaxTokens
      <4>1. nEval = nConsumed - Reusable /\ nConsumed > Reusable
        BY <1>2, <1>6, <2>1, <3>2
      <4>2. ~Again
        BY <1>1, <1>2, <1>6, <4>1
      <4> QED BY <1>1, <1>2, <1>6, <2>4, <3>1, <3>2, <4>1, <4>2
    <3> QED BY <3>1, <3>2
  <2>7. ASSUME NBatch > 1, FillCount = 1
        PROVE  \/ nConsumed + FillCount = Len(inp)
               \/ MaxTokens > 0 /\ nConsumed + FillCount = nMatch + MaxTokens
    <3>1. CASE FillCount = most
      BY <1>1, <1>2, <1>4, <2>7, <3>1
    <3>2. CASE MaxTokens > 0 /\ FillCount = room
      BY <1>1, <1>2, <1>6, <2>7, <3>2
    <3> QED BY <2>4, <3>1, <3>2
  <2> QED BY <1>1, <1>2, <1>3, <1>4, <1>8, <2>4, <2>5, <2>6, <2>7
<1> QED BY <1>3, <1>7, <1>8

LEMMA FillKeeps ==
  ASSUME IInv, Fill
  PROVE  IInv'
<1> DEFINE f == FillCount
           new == SubSeq(inp, nConsumed + 1, nConsumed + f)
<1>1. /\ pc = "feed" /\ ~PromptConsumed /\ pc' = "loop"
      /\ nConsumed' = nConsumed + f
      /\ Next_embd(new, nConsumed')
      /\ echoed' = (IF f = 1 THEN echoed \o embd' ELSE echoed)
      /\ UNCHANGED <<file, undo, budget, query, inp, nMatch, sess, kv, nPast, nSess,
                     nRemain, nEval, needSave, path, torn, cut, answer, reply>>
  BY DEF Fill
<1>2. /\ TypeOK /\ Opening /\ Limits /\ Counted
      /\ Len(inp) \in Nat \ {0} /\ MaxTokens \in Nat /\ Len(sess) \in Nat
      /\ NCtx \in Nat /\ NCtx > 4 /\ NBatch \in Nat \ {0}
  BY <1>1, Numbers
<1>3. /\ Ingesting \/ Cutting
      /\ f \in Nat /\ f >= 1 /\ f <= NBatch
      /\ nConsumed + f <= Len(inp)
      /\ MaxTokens > 0 =>
           /\ nConsumed + f <= nMatch + MaxTokens
           /\ nEval = 0 \/ nEval + f <= MaxTokens
      /\ Cutting => nConsumed + f = Len(inp)
      /\ Ingesting /\ NBatch > 1 /\ f = 1 =>
              \/ nConsumed + f = Len(inp)
              \/ MaxTokens > 0 /\ nConsumed + f = nMatch + MaxTokens
  BY <1>1, FillCountIs
<1> HIDE DEF f
<1>4. /\ nConsumed \in Nat /\ nSess \in Nat /\ nPast \in Nat /\ nEval \in Nat
      /\ nConsumed < Len(inp) /\ inp \in Seq(Vocab) /\ embd = <<>> /\ Len(embd) = 0
  BY <1>1, <1>2, EmptySeq DEF PromptConsumed, TypeOK, Limits
<1>5. /\ new \in Seq(Vocab) /\ Len(new) = f
      /\ new[Len(new)] = inp[nConsumed + f]
  <2>1. nConsumed + f \in Nat /\ nConsumed <= nConsumed + f
        /\ (nConsumed + f) - nConsumed = f /\ f \in 1 .. f
    BY <1>3, <1>4
  <2>2. /\ new \in Seq(Vocab) /\ Len(new) = (nConsumed + f) - nConsumed
        /\ \A i \in 1 .. (nConsumed + f) - nConsumed : new[i] = inp[nConsumed + i]
    BY <1>3, <1>4, <2>1, Piece
  <2> HIDE DEF new
  <2> QED BY <2>1, <2>2
<1>6. /\ embd' = new
      /\ (eog' = (eog \/ (Len(inp) <= nConsumed' /\ new[Len(new)] = Eog)))
      /\ \/ anti' = anti
         \/ Len(inp) <= nConsumed' /\ anti' = (new[Len(new)] \in ReversePrompts)
  BY <1>1 DEF Next_embd
<1>7. anti' \in BOOLEAN /\ eog' \in BOOLEAN
  <2>1. (new[Len(new)] \in ReversePrompts) \in BOOLEAN /\ anti \in BOOLEAN
    BY <1>2 DEF TypeOK
  <2>2. anti' \in BOOLEAN
    BY <1>6, <2>1, Zenon
  <2>3. eog' \in BOOLEAN
    BY <1>6
  <2> QED BY <2>2, <2>3
<1>8. ~anti /\ ~eog /\ answer = <<>>
  BY <1>2, <1>4 DEF Counted
<1>9. (anti' \/ eog') => nConsumed + f = Len(inp)
  <2>1. anti' \/ eog' => Len(inp) <= nConsumed + f
    BY <1>1, <1>6, <1>8
  <2> QED BY <1>2, <1>3, <1>4, <2>1
<1>10. eog' => inp[Len(inp)] = Eog
  BY <1>5, <1>6, <1>8, <1>9
<1> HIDE DEF new
<1>11. TypeOK'
  <2>1. nConsumed' \in Nat /\ embd' \in Seq(Vocab)
    BY <1>1, <1>3, <1>4, <1>5, <1>6
  <2>2. echoed' \in Seq(Vocab)
    <3>1. echoed \in Seq(Vocab)
      BY <1>2 DEF TypeOK
    <3>2. echoed \o embd' \in Seq(Vocab)
      BY <2>1, <3>1, ConcatProperties
    <3> QED BY <1>1, <3>1, <3>2
  <2> QED BY <1>1, <1>2, <1>7, <2>1, <2>2 DEF TypeOK
<1>12. Sound(file)' /\ Sound(undo)'
  BY <1>1 DEF IInv, Sound
<1>13. /\ Before' = Before /\ Again' = Again /\ Reusable' = Reusable
       /\ Opening' = Opening /\ Ingested(nSess)' = Ingested(nSess)
       /\ MaxTokens' = MaxTokens /\ SavedTornOf(undo)' = SavedTornOf(undo)
  <2>1. Opened' = Opened
    BY <1>1, SameCall
  <2> QED BY <1>1, <2>1, SameCall DEF Ingested
<1>14. Limits'
  <2>1. Len(embd') = f
    BY <1>5, <1>6
  <2>2. /\ nEval <= InstructionLimit /\ Len(sess) < NCtx /\ nSess <= Len(sess)
        /\ nPast < NCtx /\ (path => nPast = nSess)
        /\ (MaxTokens > 0 => nEval <= MaxTokens /\ nEval < MaxTokens)
    BY <1>1, <1>2 DEF Limits
  <2>3. MaxTokens > 0 => nEval = 0 \/ nEval + Len(embd') <= MaxTokens
    BY <1>3, <2>1
  <2> QED BY <1>1, <1>3, <1>13, <2>1, <2>2, <2>3 DEF Limits
<1>15. Counted'
  <2>1. nConsumed' <= Len(inp')
    BY <1>1, <1>3
  <2>2. anti' \/ eog' \/ answer' # <<>> => nConsumed' = Len(inp')
    BY <1>1, <1>8, <1>9
  <2> QED BY <1>1, <1>8, <2>1, <2>2 DEF Counted
<1>16. CASE Ingesting
  <2>1. nSess = nConsumed /\ echoed \in Seq(Vocab)
    BY <1>1, <1>2, <1>16 DEF Ingesting, TypeOK
  <2>2. EchoedOnce'
    <3> SUFFICES ASSUME MaxTokens # 1, NBatch > 1
                 PROVE  /\ Len(echoed') <= 1
                        /\ echoed' # <<>> => \/ nConsumed' = Len(inp')
                                             \/ /\ MaxTokens' > 0
                                                /\ nConsumed' = nMatch' + MaxTokens'
      BY <1>13 DEF EchoedOnce
    <3>1. echoed = <<>>
      <4>1. echoed # <<>> => MaxTokens > 0 /\ nConsumed = nMatch + MaxTokens
        BY <1>2, <1>4, <1>16 DEF Ingesting, EchoedOnce
      <4>2. ~(MaxTokens > 0 /\ nConsumed = nMatch + MaxTokens)
        <5>1. nMatch \in Nat
          BY <1>2 DEF TypeOK
        <5> QED BY <1>2, <1>3, <1>4, <5>1
      <4> QED BY <4>1, <4>2
    <3>2. CASE f = 1
      <4>1. echoed' = new /\ Len(echoed') = 1
        BY <1>1, <1>5, <1>6, <3>1, <3>2, ConcatEmptySeq
      <4> QED BY <1>1, <1>3, <1>13, <1>16, <3>2, <4>1
    <3>3. CASE f # 1
      BY <1>1, <3>1, <3>3, EmptySeq
    <3> QED BY <3>2, <3>3
  <2>3. embd' = SubSeq(inp', nSess' + 1, nConsumed')
    BY <1>1, <1>6, <2>1 DEF new
  <2>4. nSess' <= nConsumed' /\ nConsumed' # 0 /\ nRemain' # 0
    BY <1>1, <1>3, <1>4, <1>16, <2>1 DEF Ingesting
  <2>5. MaxTokens' > 0 => nConsumed' <= nMatch' + MaxTokens'
    BY <1>1, <1>3, <1>13
  <2>6. sess' = Ingested(nSess)'
    BY <1>1, <1>4, <1>13, <1>16 DEF Ingesting
  <2>7. nEval' = IF nSess' <= Reusable' THEN 0 ELSE nSess' - Reusable'
    <3>1. nEval' = nEval /\ nSess' = nSess /\ Reusable' = Reusable
      BY <1>1, <1>13
    <3>2. nEval = IF nSess <= Reusable THEN 0 ELSE nSess - Reusable
      BY <1>16 DEF Ingesting
    <3> QED BY <3>1, <3>2
  <2>8. ~torn' => kv' = Prefix(inp', IF nSess' <= nMatch' THEN nMatch' ELSE nSess')
    BY <1>1, <1>16 DEF Ingesting
  <2>9. /\ answer' = <<>> /\ path' /\ file' = undo'
        /\ needSave' = (nMatch' < Len(inp'))
        /\ (SavedTornOf(undo)' \/ Again') => torn'
        /\ eog' => inp'[Len(inp')] = Eog
        /\ embd' # <<>>
    BY <1>1, <1>3, <1>5, <1>6, <1>10, <1>13, <1>16, EmptySeq DEF Ingesting
  <2>10. Ingesting'
    BY <1>1, <2>2, <2>3, <2>4, <2>5, <2>6, <2>7, <2>8, <2>9 DEF Ingesting
  <2> QED BY <1>1, <1>2, <1>11, <1>12, <1>13, <1>14, <1>15, <2>10 DEF IInv
<1>17. CASE Cutting
  <2>1. nConsumed' = Len(inp')
    BY <1>1, <1>3, <1>17
  <2>2. nPast' + Len(embd') <= nConsumed'
    <3>1. nPast + Len(embd) <= nConsumed
      BY <1>1, <1>17 DEF Cutting
    <3>2. nPast + f <= nConsumed + f
      BY <1>3, <1>4, <3>1
    <3> QED BY <1>1, <1>5, <1>6, <3>2
  <2>3. embd' # <<>>
    BY <1>3, <1>5, <1>6, EmptySeq
  <2>4. Len(inp') \in Nat \ {0}
    BY <1>1, <1>2
  <2>5. /\ Len(inp') <= nConsumed' + 2 /\ nConsumed' # 0 /\ ~(nConsumed' < Len(inp'))
    BY <2>1, <2>4
  <2>6. Cutting'
    BY <1>1, <1>13, <1>17, <2>2, <2>3, <2>5 DEF Cutting
  <2> QED BY <1>1, <1>2, <1>11, <1>12, <1>13, <1>14, <1>15, <2>6 DEF IInv
<1> QED BY <1>3, <1>16, <1>17

-----------------------------------------------------------------------------
(* The end of a call *)

\* What is saved at the end is the cache of the session that is saved with it,
\* unless the call knows otherwise.
LEMMA EndSaves ==
  ASSUME IInv, pc = "end", path, ~torn, ~Uncompared
  PROVE  kv = sess
<1>1. /\ TypeOK /\ Opening /\ Limits /\ Counted
      /\ Len(inp) \in Nat \ {0} /\ Len(sess) \in Nat
  BY Numbers
<1>2. CASE Ingesting
  <2>1. /\ ~Again /\ kv = Prefix(inp, IF nSess <= nMatch THEN nMatch ELSE nSess)
        /\ sess = Ingested(nSess) /\ nSess <= nConsumed
    BY <1>2 DEF Ingesting
  <2>2. /\ nMatch \in Nat /\ nMatch <= Len(Before) /\ Reusable = nMatch
        /\ nMatch = MatchLen(Before, inp)
        /\ Opened = Before /\ Before \in Seq(Vocab) /\ inp \in Seq(Vocab)
        /\ Len(Before) \in Nat
    BY <1>1, <2>1, OpeningFacts DEF Opening
  <2>3. CASE nSess <= nMatch
    <3>1. sess = Before
      BY <2>1, <2>2, <2>3 DEF Ingested
    <3>2. Len(Before) = nMatch
      <4>1. nSess \in Nat
        BY <1>1 DEF TypeOK
      <4> QED BY <2>2, <2>3, <3>1, <4>1 DEF Uncompared
    <3>3. Prefix(Before, nMatch) = Prefix(inp, nMatch)
      BY <2>2, MatchLenPrefix
    <3> QED BY <2>1, <2>2, <2>3, <3>1, <3>2, <3>3, PrefixFull
  <2>4. CASE ~(nSess <= nMatch)
    BY <2>1, <2>2, <2>4 DEF Ingested
  <2> QED BY <2>3, <2>4
<1>3. CASE Answering
  BY <1>3 DEF Answering
<1> QED BY <1>2, <1>3 DEF IInv, Cutting, Loose

LEMMA EndsKeeps ==
  ASSUME IInv, NEW r \in Reply, Ends(r)
  PROVE  IInv'
<1> DEFINE s == [toks |-> sess, kv |-> kv, torn |-> torn \/ Uncompared]
<1>1. /\ pc = "end" /\ pc' = "idle" /\ undo' = NoFile /\ reply' = r
      /\ file' = (IF query THEN undo ELSE IF path THEN s ELSE file)
      /\ NoLocals /\ UNCHANGED budget
  BY DEF Ends
<1>2. /\ TypeOK /\ Opening /\ Limits /\ Counted /\ Sound(file) /\ Sound(undo)
      /\ Len(sess) \in Nat
  BY <1>1, Numbers
<1>3. /\ s \in Session /\ s.toks = sess /\ s.kv = kv
      /\ s.torn = (torn \/ Uncompared)
  <2>1. (torn \/ Uncompared) \in BOOLEAN
    BY <1>2 DEF TypeOK, Uncompared
  <2> QED BY <1>2, <2>1 DEF TypeOK, Session
<1> HIDE DEF s
<1>4. path => (~s.torn => s.kv = s.toks) /\ Len(s.toks) < NCtx
  <2> SUFFICES ASSUME path PROVE (~s.torn => s.kv = s.toks) /\ Len(s.toks) < NCtx
    OBVIOUS
  <2>1. nSess <= Len(sess) /\ Len(sess) < NCtx /\ nSess \in Nat
    BY <1>2 DEF Limits, TypeOK
  <2>2. ASSUME ~s.torn PROVE kv = sess
    <3>1. ~torn /\ ~Uncompared
      BY <1>3, <2>2
    <3> QED BY <1>1, <3>1, EndSaves
  <2> QED BY <1>3, <2>1, <2>2
<1>5. Sound(file)' /\ file' \in Session \cup {NoFile}
  BY <1>1, <1>2, <1>3, <1>4 DEF Sound, TypeOK
<1> QED BY <1>1, <1>5, CallOver

LEMMA AccountingType ==
  ASSUME TypeOK
  PROVE  Accounting \in Reply
<1>1. \A x \in Int : x % Word \in 0 .. Word - 1
  BY SizeAssumption
<1>2. /\ Len(inp) \in Int /\ nMatch \in Int /\ nConsumed - nMatch \in Int
      /\ nEval - (nConsumed - nMatch) \in Int /\ Len(inp) - nConsumed \in Int
  BY LenProperties DEF TypeOK
<1>3. eog \in BOOLEAN
  BY DEF TypeOK
<1> QED BY <1>1, <1>2, <1>3 DEF Accounting, Reply

-----------------------------------------------------------------------------
(* All together *)

LEMMA NextKeeps ==
  ASSUME IInv, [Next]_vars
  PROVE  IInv'
<1>1. CASE Admin \/ LoseFile \/ \E p \in Prompts : RunRefused(p)
  BY <1>1, AdminKeeps
<1>2. CASE Call
  <2>1. Prompts \subseteq Seq(Vocab) /\ NPredicts \subseteq Int
    BY TokenAssumption, SizeAssumption
  <2> QED BY <1>2, <2>1, RunKeeps DEF Call
<1>3. CASE LoopEnds
  BY <1>3, LoopEndsKeeps
<1>4. CASE FirstPass
  BY <1>4, FirstPassKeeps
<1>5. CASE StopAtFullContext
  BY <1>5, StopKeeps
<1>6. CASE EnterPass
  BY <1>6, EnterPassKeeps1, EnterPassKeeps2
<1>7. CASE Reuse
  BY <1>7, ReuseKeeps
<1>8. CASE AllReused
  BY <1>8, AllReusedKeeps
<1>9. CASE Decode
  BY <1>9, DecodeKeeps
<1>10. CASE Fill
  BY <1>10, FillKeeps
<1>11. CASE \E t \in Samples : Sample(t)
  BY <1>11, SampleKeeps
<1>12. CASE Finish
  <2>1. Accounting \in Reply
    BY AccountingType DEF IInv
  <2> QED BY <1>12, <2>1, EndsKeeps DEF Finish
<1>13. CASE Trap
  BY <1>13, TrapKeeps
<1>14. CASE DecodeFails
  BY <1>14, DecodeFailsKeeps
<1>15. CASE ChatSaveFails
  BY <1>15, NoReplyType, EndsKeeps DEF ChatSaveFails
<1>16. CASE UNCHANGED vars
  <2> USE <1>16 DEF vars, locals, counters, output
  <2>1. /\ TypeOK' = TypeOK /\ Sound(file)' = Sound(file) /\ Sound(undo)' = Sound(undo)
        /\ Idle' = Idle
    BY DEF TypeOK, Sound, Idle
  <2>2. /\ Before' = Before /\ Again' = Again /\ Reusable' = Reusable
        /\ Opening' = Opening /\ Ingested(nSess)' = Ingested(nSess)
        /\ MaxTokens' = MaxTokens /\ SavedTornOf(undo)' = SavedTornOf(undo)
    <3>1. Opened' = Opened
      BY SameCall
    <3> QED BY <3>1, SameCall DEF Ingested
  <2>3. Limits' = Limits
    BY <2>2 DEF Limits
  <2>4. Counted' = Counted
    BY <2>2 DEF Counted, EndsAtReversePrompt
  <2>5. EchoedOnce' = EchoedOnce /\ EarlySaved' = EarlySaved
    BY <2>2 DEF EchoedOnce, EarlySaved
  <2>6. Ingesting' = Ingesting
    BY <2>2, <2>5 DEF Ingesting
  <2>7. Answering' = Answering
    BY <2>2, <2>5 DEF Answering, Pending, Stored
  <2>8. Cutting' = Cutting
    BY <2>2 DEF Cutting
  <2>9. Loose' = Loose
    BY <2>5 DEF Loose
  <2> QED BY <2>1, <2>2, <2>3, <2>4, <2>6, <2>7, <2>8, <2>9 DEF IInv
<1> QED BY <1>1, <1>2, <1>3, <1>4, <1>5, <1>6, <1>7, <1>8, <1>9, <1>10, <1>11,
           <1>12, <1>13, <1>14, <1>15, <1>16 DEF Next, Step, Failure

\* The inductive invariant.
THEOREM Invariant == Spec => []IInv
<1>1. Init => IInv
  BY InitHolds
<1>2. IInv /\ [Next]_vars => IInv'
  BY NextKeeps
<1> QED BY <1>1, <1>2, PTL DEF Spec

-----------------------------------------------------------------------------
(* The invariants the runs check *)

\* The variables of main_ and the reply keep their types, whatever the calls.
THEOREM TypeCorrect == Spec => []TypeOK
<1>1. IInv => TypeOK
  BY DEF IInv
<1> QED BY <1>1, Invariant, PTL

\* The session file saved by any series of calls has the KV cache of its tokens,
\* unless it went through one of the four steps that part them: a recurrent
\* memory that keeps what should be removed, a last token that is decoded twice, a
\* batch that is cut, a loop left before a divergent session is trimmed.
THEOREM SavedCacheIsSession == Spec => []KvIsSession
<1>1. IInv => KvIsSession
  BY DEF IInv, Sound, KvIsSession
<1> QED BY <1>1, Invariant, PTL

\* What any series of calls saves can be loaded by the next call.
THEOREM SavedFits == Spec => []FileFits
<1>1. IInv => FileFits
  BY DEF IInv, Sound, FileFits
<1> QED BY <1>1, Invariant, PTL

\* llama_decode is never given more than a batch.
THEOREM BatchBound == Spec => []OneBatch
<1>1. ASSUME IInv PROVE OneBatch
  <2>1. CASE pc = "idle"
    <3>1. Len(embd) = 0
      BY <1>1, <2>1, EmptySeq DEF IInv, Idle
    <3> QED BY <3>1, SizeAssumption DEF OneBatch
  <2>2. CASE pc # "idle"
    BY <1>1, <2>2 DEF IInv, Limits, OneBatch
  <2> QED BY <2>1, <2>2
<1> QED BY <1>1, Invariant, PTL

\* No call decodes more than max_tokens tokens.
THEOREM BudgetKept == Spec => []BudgetRespected
<1>1. IInv => BudgetRespected
  BY DEF IInv, Limits, BudgetRespected
<1> QED BY <1>1, Invariant, PTL

-----------------------------------------------------------------------------
(* What a call answers *)

\* The counts, when none of them is negative: they do not wrap.
LEMMA CountsAre ==
  ASSUME IInv, Finish, nConsumed >= nMatch, nEval >= nConsumed - nMatch
  PROVE  /\ reply'.prompt = Len(inp) /\ reply'.cached = nMatch
         /\ reply'.decoded = nConsumed - nMatch
         /\ reply'.generated = nEval - (nConsumed - nMatch)
         /\ reply'.remaining = Len(inp) - nConsumed
         /\ reply'.eog = eog
<1>1. pc = "end" /\ reply' = Accounting
  BY DEF Finish, Ends
<1>2. /\ TypeOK /\ Opening /\ Limits /\ Counted
      /\ Len(inp) \in Nat \ {0} /\ Len(inp) < NCtx /\ NCtx \in Nat
  BY <1>1, Numbers
<1>3. /\ nMatch \in Nat /\ nMatch <= Len(inp) /\ nConsumed \in Nat /\ nEval \in Nat
      /\ nConsumed <= Len(inp) /\ nEval <= InstructionLimit
  BY <1>2, OpeningFacts DEF TypeOK, Counted, Limits
<1>4. /\ Word \in Nat /\ NCtx < Word /\ InstructionLimit < Word /\ InstructionLimit \in Nat
  BY SizeAssumption
<1>5. \A x \in Nat : x < Word => x % Word = x
  BY <1>4
<1>6. /\ nConsumed - nMatch \in Nat /\ nConsumed - nMatch < Word
      /\ nEval - (nConsumed - nMatch) \in Nat /\ nEval - (nConsumed - nMatch) < Word
      /\ Len(inp) - nConsumed \in Nat /\ Len(inp) - nConsumed < Word
      /\ Len(inp) < Word /\ nMatch < Word /\ Len(inp) \in Nat
  BY <1>2, <1>3, <1>4
<1>7. /\ Len(inp) % Word = Len(inp) /\ nMatch % Word = nMatch
      /\ (nConsumed - nMatch) % Word = nConsumed - nMatch
      /\ (nEval - (nConsumed - nMatch)) % Word = nEval - (nConsumed - nMatch)
      /\ (Len(inp) - nConsumed) % Word = Len(inp) - nConsumed
  BY <1>3, <1>5, <1>6
<1> QED BY <1>1, <1>7 DEF Accounting

\* The counts on the wire add up, and none of them is a negative number cast to
\* 64 bits, but in the two cases that are known.
THEOREM CountsAlwaysAddUp == Spec => CountsAddUp
<1>1. ASSUME IInv, Finish, nConsumed # 0, ~EndsAtReversePrompt
      PROVE  /\ reply'.cached + reply'.decoded + reply'.remaining = reply'.prompt
             /\ reply'.decoded + reply'.generated = nEval
  <2>1. pc = "end"
    BY <1>1 DEF Finish, Ends
  <2>2. /\ TypeOK /\ Opening /\ Counted /\ Len(inp) \in Nat
    BY <1>1, <2>1, Numbers
  <2>3. nConsumed >= nMatch /\ nEval >= nConsumed - nMatch
    BY <1>1, <2>1, <2>2 DEF Counted
  <2>4. nMatch \in Nat /\ nConsumed \in Nat /\ nEval \in Nat
    BY <2>2 DEF TypeOK
  <2>5. /\ reply'.prompt = Len(inp) /\ reply'.cached = nMatch
        /\ reply'.decoded = nConsumed - nMatch
        /\ reply'.generated = nEval - (nConsumed - nMatch)
        /\ reply'.remaining = Len(inp) - nConsumed
    BY <1>1, <2>3, CountsAre
  <2>6. /\ nMatch + (nConsumed - nMatch) + (Len(inp) - nConsumed) = Len(inp)
        /\ (nConsumed - nMatch) + (nEval - (nConsumed - nMatch)) = nEval
    BY <2>2, <2>4
  <2> QED BY <2>5, <2>6
<1>2. IInv /\ [Next]_vars =>
        [Finish => \/ nConsumed = 0
                   \/ EndsAtReversePrompt
                   \/ /\ reply'.cached + reply'.decoded + reply'.remaining = reply'.prompt
                      /\ reply'.decoded + reply'.generated = nEval]_vars
  BY <1>1
<1> QED BY <1>2, Invariant, PTL DEF Spec, CountsAddUp

LEMMA PrefixOfConcat ==
  ASSUME NEW s \in Seq(Vocab), NEW t \in Seq(Vocab)
  PROVE  Prefix(s \o t, Len(s)) = s /\ From(s \o t, Len(s) + 1) = t
<1>1. /\ s \o t \in Seq(Vocab) /\ Len(s \o t) = Len(s) + Len(t)
      /\ \A i \in 1 .. Len(s) + Len(t) :
           (s \o t)[i] = IF i <= Len(s) THEN s[i] ELSE t[i - Len(s)]
  BY ConcatProperties
<1>2. Len(s) \in Nat /\ Len(t) \in Nat
  BY LenProperties
<1> DEFINE p == Prefix(s \o t, Len(s))
           q == From(s \o t, Len(s) + 1)
<1>3. Len(s) <= Len(s \o t) /\ Len(s \o t) - Len(s) = Len(t)
  BY <1>1, <1>2
<1>4. p \in Seq(Vocab) /\ Len(p) = Len(s) /\ \A i \in 1 .. Len(s) : p[i] = (s \o t)[i]
  BY <1>1, <1>2, <1>3, PrefixOf
<1>5. q \in Seq(Vocab) /\ Len(q) = Len(t)
      /\ \A i \in 1 .. Len(t) : q[i] = (s \o t)[Len(s) + i]
  <2>1. /\ q \in Seq(Vocab) /\ Len(q) = Len(s \o t) - Len(s)
        /\ \A i \in 1 .. Len(s \o t) - Len(s) : q[i] = (s \o t)[Len(s) + i]
    BY <1>1, <1>2, <1>3, RestOf
  <2> HIDE DEF q
  <2> QED BY <1>3, <2>1
<1> HIDE DEF p, q
<1>6. \A i \in 1 .. Len(s) : p[i] = s[i]
  BY <1>1, <1>2, <1>4
<1>7. \A i \in 1 .. Len(t) : q[i] = t[i]
  <2> TAKE i \in 1 .. Len(t)
  <2>1. /\ Len(s) + i \in 1 .. Len(s) + Len(t) /\ ~(Len(s) + i <= Len(s))
        /\ Len(s) + i - Len(s) = i
    BY <1>2
  <2> QED BY <1>1, <1>5, <2>1
<1>8. p = s
  BY <1>4, <1>6, SeqEqual
<1>9. q = t
  BY <1>5, <1>7, SeqEqual
<1> QED BY <1>8, <1>9 DEF p, q

\* The state in which a call ends that saves a session, and what it saves.
LEMMA SavedNow ==
  ASSUME IInv, Saves
  PROVE  /\ pc = "end" /\ path /\ file'.toks = sess /\ file' # NoFile
         /\ nConsumed # 0
         /\ Ingesting \/ Answering
<1>1. /\ pc = "end" /\ path /\ ~query /\ nConsumed > 0 /\ ~cut
      /\ file' = [toks |-> sess, kv |-> kv, torn |-> torn \/ Uncompared]
  BY DEF Saves, Finish, Ends
<1>2. TypeOK
  BY DEF IInv
<1>3. /\ file'.toks = sess
      /\ [toks |-> sess, kv |-> kv, torn |-> torn \/ Uncompared] \in Session
  <2>1. (torn \/ Uncompared) \in BOOLEAN
    BY <1>2 DEF TypeOK, Uncompared
  <2> QED BY <1>1, <1>2, <2>1 DEF TypeOK, Session
<1>4. Ingesting \/ Answering
  BY <1>1 DEF IInv, Cutting, Loose
<1>5. nConsumed # 0
  BY <1>1, <1>2 DEF TypeOK
<1> QED BY <1>1, <1>3, <1>4, <1>5, FileAssumption

\* What is not reused of what the session and the input share.
LEMMA AgainIs ==
  ASSUME TypeOK, Opening
  PROVE  Reusable = nMatch - DecodedAgain /\ DecodedAgain \in {0, 1}
<1>1. CASE Again
  <2>1. Reusable = nMatch - 1
    BY <1>1, OpeningFacts
  <2>2. DecodedAgain = 1
    BY <1>1 DEF Again, Before, DecodedAgain
  <2> QED BY <2>1, <2>2
<1>2. CASE ~Again
  <2>1. Reusable = nMatch /\ nMatch \in Nat
    BY <1>2, OpeningFacts
  <2>2. DecodedAgain = 0
    BY <1>2 DEF Again, Before, DecodedAgain
  <2> QED BY <2>1, <2>2
<1> QED BY <1>1, <1>2

\* Where such a call stands when it ends while it ingests.
LEMMA IngestedNow ==
  ASSUME IInv, Saves, Ingesting
  PROVE  \/ /\ EndsAtReversePrompt /\ nConsumed = Len(inp)
            /\ Uncompared \/ Len(sess) <= Len(inp)
         \/ /\ nConsumed > Reusable /\ nEval = nConsumed - Reusable
            /\ sess = Prefix(inp, nConsumed) /\ Len(sess) = nConsumed
            /\ nConsumed = Len(inp) \/ (MaxTokens > 0 /\ nEval = MaxTokens)
<1>1. pc = "end" /\ nConsumed # 0
  BY SavedNow
<1>2. /\ TypeOK /\ Opening /\ Counted /\ Len(inp) \in Nat \ {0} /\ Len(sess) \in Nat
  BY <1>1, Numbers
<1>3. /\ nMatch \in Nat /\ nMatch <= Len(inp) /\ nConsumed \in Nat /\ nSess \in Nat
      /\ Reusable \in Nat /\ nConsumed <= Len(inp) /\ inp \in Seq(Vocab)
  BY <1>2, OpeningFacts DEF TypeOK, Counted
<1>4. /\ answer = <<>> /\ nSess <= nConsumed /\ sess = Ingested(nSess)
      /\ nEval = (IF nSess <= Reusable THEN 0 ELSE nSess - Reusable)
      /\ \/ anti
         \/ /\ nSess = nConsumed /\ nSess > Reusable
            /\ nConsumed = Len(inp) \/ (MaxTokens > 0 /\ nEval = MaxTokens)
  BY <1>1 DEF Ingesting
<1>5. nSess > Reusable => Len(sess) = nSess /\ sess = Prefix(inp, nSess)
  BY <1>2, <1>3, <1>4, IngestedFacts
<1>6. CASE anti
  <2>1. EndsAtReversePrompt /\ nConsumed = Len(inp)
    BY <1>2, <1>4, <1>6 DEF EndsAtReversePrompt, Counted
  <2>2. ASSUME ~Uncompared PROVE Len(sess) <= Len(inp)
    <3>1. nSess >= Len(sess) \/ nMatch >= Len(sess)
      BY <1>2, <1>3, <2>2 DEF Uncompared
    <3> QED BY <1>2, <1>3, <1>4, <3>1
  <2> QED BY <2>1, <2>2
<1>7. CASE ~anti
  <2>1. /\ nSess = nConsumed /\ nSess > Reusable
        /\ nConsumed = Len(inp) \/ (MaxTokens > 0 /\ nEval = MaxTokens)
    BY <1>4, <1>7
  <2>2. nEval = nConsumed - Reusable
    BY <1>3, <1>4, <2>1
  <2> QED BY <1>5, <2>1, <2>2
<1> QED BY <1>6, <1>7

\* And when it ends while it answers.
LEMMA AnsweredNow ==
  ASSUME IInv, Saves, Answering
  PROVE  /\ nConsumed = Len(inp) /\ nConsumed >= nMatch /\ answer # <<>>
         /\ nEval = Len(sess) - Reusable /\ nEval >= nConsumed - nMatch
         /\ Len(sess) >= Len(inp)
         /\ Prefix(sess, Len(inp)) = inp
         /\ \/ From(sess, Len(inp) + 1) = answer
            \/ /\ nRemain = 0 \/ anti \/ Len(sess) = NCtx - 1
               /\ answer = From(sess, Len(inp) + 1) \o <<answer[Len(answer)]>>
<1>1. pc = "end"
  BY SavedNow
<1>2. /\ TypeOK /\ Opening /\ Counted /\ Len(inp) \in Nat \ {0}
      /\ Len(sess) \in Nat
  BY <1>1, Numbers
<1>3. /\ nMatch \in Nat /\ nMatch <= Len(inp) /\ inp \in Seq(Vocab)
      /\ Reusable \in Nat /\ Reusable <= nMatch
      /\ answer \in Seq(Vocab) /\ answer # <<>>
  BY <1>2, OpeningFacts DEF TypeOK, Answering
<1>4. nConsumed = Len(inp) /\ nEval = Len(sess) - Reusable
  BY <1>1, <1>2, <1>3 DEF Counted, Answering
<1>5. Stored \/ (Pending /\ (nRemain = 0 \/ anti \/ Len(sess) = NCtx - 1))
  BY <1>1 DEF Answering
<1>6. Len(answer) \in Nat \ {0}
  BY <1>3, EmptySeq
<1> DEFINE most == Prefix(answer, Len(answer) - 1)
<1>7. most \in Seq(Vocab) /\ answer = most \o <<answer[Len(answer)]>>
  <2>1. most \in Seq(Vocab)
    BY <1>3, <1>6, PrefixOf
  <2>2. Len(answer) \in 1 .. Len(answer) /\ 1 \in 1 .. Len(answer)
    BY <1>6
  <2>3. SubSeq(answer, 1, Len(answer)) =
          SubSeq(answer, 1, Len(answer) - 1) \o <<answer[Len(answer)]>>
    BY <1>3, <2>2, SubSeqRecursiveSecond
  <2> QED BY <1>3, <2>1, <2>3, SubSeqFull DEF Prefix
<1> HIDE DEF most
<1>8. CASE Stored
  <2>1. Prefix(sess, Len(inp)) = inp /\ From(sess, Len(inp) + 1) = answer
    BY <1>3, <1>8, PrefixOfConcat DEF Stored
  <2>2. Len(sess) >= Len(inp)
    <3>1. Len(inp \o answer) = Len(inp) + Len(answer)
      BY <1>3, ConcatProperties
    <3> QED BY <1>2, <1>6, <1>8, <3>1 DEF Stored
  <2>3. nEval >= nConsumed - nMatch /\ nConsumed >= nMatch
    BY <1>2, <1>3, <1>4, <2>2
  <2> QED BY <1>3, <1>4, <2>1, <2>2, <2>3
<1>9. CASE ~Stored
  <2>1. sess = inp \o most /\ (nRemain = 0 \/ anti \/ Len(sess) = NCtx - 1)
    BY <1>5, <1>9 DEF Pending, most
  <2>2. Prefix(sess, Len(inp)) = inp /\ From(sess, Len(inp) + 1) = most
    BY <1>3, <1>7, <2>1, PrefixOfConcat
  <2>3. Len(sess) >= Len(inp)
    <3>1. Len(inp \o most) = Len(inp) + Len(most) /\ Len(most) \in Nat
      BY <1>3, <1>7, ConcatProperties, LenProperties
    <3> QED BY <1>2, <2>1, <3>1
  <2>4. nEval >= nConsumed - nMatch /\ nConsumed >= nMatch
    BY <1>2, <1>3, <1>4, <2>3
  <2> QED BY <1>3, <1>4, <1>7, <2>1, <2>2, <2>3, <2>4
<1> QED BY <1>8, <1>9

\* The counts on the wire describe the file that was saved: so many tokens of
\* the prompt, and then so many that were generated.
THEOREM CountsMatchFile == Spec => AccountingMatchesFile
<1>1. ASSUME IInv, Saves, ~EndsAtReversePrompt
      PROVE  LET n == reply'.cached + reply'.decoded
             IN  /\ n + reply'.generated = Len(file'.toks) + DecodedAgain
                 /\ Prefix(file'.toks, n) = Prefix(inp, n)
                 /\ reply'.remaining > 0 => reply'.generated = 0
  <2>1. /\ pc = "end" /\ file'.toks = sess /\ Finish /\ (Ingesting \/ Answering)
    BY <1>1, SavedNow DEF Saves
  <2>2. /\ TypeOK /\ Opening /\ Counted /\ Len(inp) \in Nat \ {0} /\ Len(sess) \in Nat
    BY <1>1, <2>1, Numbers
  <2>3. /\ nMatch \in Nat /\ nConsumed \in Nat /\ nEval \in Nat /\ inp \in Seq(Vocab)
        /\ nConsumed <= Len(inp) /\ sess \in Seq(Vocab)
    BY <2>2 DEF TypeOK, Counted
  <2>4. ASSUME nConsumed >= nMatch, nEval >= nConsumed - nMatch
        PROVE  /\ reply'.cached + reply'.decoded = nConsumed
               /\ reply'.generated = nEval - (nConsumed - nMatch)
               /\ reply'.remaining = Len(inp) - nConsumed
    <3>1. /\ reply'.cached = nMatch /\ reply'.decoded = nConsumed - nMatch
          /\ reply'.generated = nEval - (nConsumed - nMatch)
          /\ reply'.remaining = Len(inp) - nConsumed
      BY <1>1, <2>1, <2>4, CountsAre
    <3>2. nMatch + (nConsumed - nMatch) = nConsumed
      BY <2>3
    <3> QED BY <3>1, <3>2
  <2>5. /\ Reusable \in Nat /\ Reusable <= nMatch /\ DecodedAgain \in {0, 1}
        /\ Reusable = nMatch - DecodedAgain
    BY <2>2, OpeningFacts, AgainIs
  <2>6. CASE /\ nConsumed > Reusable /\ nEval = nConsumed - Reusable
             /\ sess = Prefix(inp, nConsumed) /\ Len(sess) = nConsumed
    <3>1. /\ nConsumed >= nMatch /\ nEval >= nConsumed - nMatch
          /\ nEval - (nConsumed - nMatch) = DecodedAgain
      BY <2>3, <2>5, <2>6
    <3>2. /\ reply'.cached + reply'.decoded = nConsumed
          /\ reply'.generated = DecodedAgain
          /\ reply'.remaining = Len(inp) - nConsumed
      BY <2>4, <3>1
    <3>3. Prefix(sess, nConsumed) = Prefix(inp, nConsumed)
      BY <2>3, <2>6, PrefixFull
    <3>4. Len(inp) - nConsumed > 0 => DecodedAgain = 0
      <4>1. DecodedAgain = 1 => nMatch = Len(inp)
        BY DEF DecodedAgain
      <4> QED BY <2>2, <2>3, <2>5, <2>6, <4>1
    <3> QED BY <2>1, <2>6, <3>2, <3>3, <3>4
  <2>7. CASE Answering
    <3>1. /\ nConsumed = Len(inp) /\ nConsumed >= nMatch
          /\ nEval = Len(sess) - Reusable /\ nEval >= nConsumed - nMatch
          /\ Prefix(sess, Len(inp)) = inp
      BY <1>1, <2>7, AnsweredNow
    <3>2. /\ reply'.cached + reply'.decoded = Len(inp)
          /\ reply'.generated = nEval - (nConsumed - nMatch)
          /\ reply'.remaining = Len(inp) - nConsumed
      BY <2>4, <3>1
    <3>3. /\ Len(inp) + (nEval - (nConsumed - nMatch)) = Len(sess) + DecodedAgain
          /\ Len(inp) - nConsumed = 0
      BY <2>2, <2>3, <2>5, <3>1
    <3>4. Prefix(inp, Len(inp)) = inp
      BY <2>3, PrefixFull
    <3> QED BY <2>1, <3>1, <3>2, <3>3, <3>4
  <2> QED BY <1>1, <2>1, <2>6, <2>7, IngestedNow
<1>2. IInv /\ [Next]_vars =>
        [Saves /\ ~EndsAtReversePrompt =>
           LET n == reply'.cached + reply'.decoded
           IN  /\ n + reply'.generated = Len(file'.toks) + DecodedAgain
               /\ Prefix(file'.toks, n) = Prefix(inp, n)
               /\ reply'.remaining > 0 => reply'.generated = 0]_vars
  BY <1>1
<1> QED BY <1>2, Invariant, PTL DEF Spec, AccountingMatchesFile

\* A call that leaves some of the prompt leaves max_tokens tokens less of it.
THEOREM IngestsItsBudget == Spec => IngestionAdvances
<1>1. ASSUME IInv, Saves, reply'.remaining > 0
      PROVE  /\ MaxTokens > 0
             /\ file'.toks = Prefix(inp, MatchLen(SavedToksOf(undo), inp) + MaxTokens)
  <2>1. /\ pc = "end" /\ file'.toks = sess /\ Finish /\ (Ingesting \/ Answering)
    BY <1>1, SavedNow DEF Saves
  <2>2. /\ TypeOK /\ Opening /\ Counted /\ Len(inp) \in Nat \ {0} /\ MaxTokens \in Nat
    BY <1>1, <2>1, Numbers
  <2>3. /\ nMatch \in Nat /\ nConsumed \in Nat /\ nEval \in Nat
        /\ nMatch = MatchLen(SavedToksOf(undo), inp)
    BY <2>2 DEF TypeOK, Opening, Before
  <2>4. nConsumed # Len(inp)
    <3> SUFFICES ASSUME nConsumed = Len(inp) PROVE reply'.remaining = 0
      BY <1>1
    <3>1. reply'.remaining = (Len(inp) - nConsumed) % Word
      BY <2>1 DEF Finish, Ends, Accounting
    <3>2. Len(inp) - nConsumed = 0 /\ 0 % Word = 0
      BY <2>2, <2>3, SizeAssumption
    <3> QED BY <3>1, <3>2
  <2>5. Ingesting
    BY <1>1, <2>1, <2>4, AnsweredNow
  <2>6. /\ nConsumed > Reusable /\ nEval = nConsumed - Reusable
        /\ sess = Prefix(inp, nConsumed) /\ MaxTokens > 0 /\ nEval = MaxTokens
    BY <1>1, <2>4, <2>5, IngestedNow
  <2>7. Reusable = nMatch
    <3>1. /\ ~Again => Reusable = nMatch
          /\ Again => nMatch = Len(inp) /\ Reusable = nMatch - 1
      BY <2>2, OpeningFacts
    <3>2. nConsumed <= Len(inp)
      BY <2>2 DEF Counted
    <3> QED BY <2>2, <2>3, <2>4, <2>6, <3>1, <3>2
  <2>8. nConsumed = nMatch + MaxTokens
    BY <2>2, <2>3, <2>6, <2>7
  <2> QED BY <2>1, <2>3, <2>6, <2>8
<1>2. IInv /\ [Next]_vars =>
        [Saves /\ reply'.remaining > 0 =>
           /\ MaxTokens > 0
           /\ file'.toks = Prefix(inp, MatchLen(SavedToksOf(undo), inp) + MaxTokens)]_vars
  BY <1>1
<1> QED BY <1>2, Invariant, PTL DEF Spec, IngestionAdvances

\* The output text is what the file holds as generated, but for the last token
\* in the cases that are known.
THEOREM OutputIsStored == Spec => OutputMatchesFile
<1>1. ASSUME IInv, Saves, ~Uncompared
      PROVE  LET stored == From(file'.toks, reply'.cached + reply'.decoded + 1)
                 seen == inp \o answer
             IN  /\ \/ answer = stored
                    \/ /\ nRemain = 0 \/ anti \/ Len(file'.toks) = NCtx - 1
                       /\ answer = stored \o <<answer[Len(answer)]>>
                 /\ reply'.eog => seen[Len(seen)] = Eog \/ inp[Len(inp)] = Eog
                 /\ MaxTokens # 1 /\ NBatch > 1 => Len(echoed) <= 1
  <2> DEFINE n == reply'.cached + reply'.decoded
  <2>1. /\ pc = "end" /\ file'.toks = sess /\ Finish /\ (Ingesting \/ Answering)
    BY <1>1, SavedNow DEF Saves
  <2>2. /\ TypeOK /\ Opening /\ Counted /\ Len(inp) \in Nat \ {0} /\ Len(sess) \in Nat
    BY <1>1, <2>1, Numbers
  <2>3. /\ nMatch \in Nat /\ nMatch <= Len(inp) /\ nConsumed \in Nat /\ nEval \in Nat
        /\ inp \in Seq(Vocab)
        /\ sess \in Seq(Vocab) /\ answer \in Seq(Vocab)
    BY <2>2, OpeningFacts DEF TypeOK
  <2>4. reply'.eog = eog
    BY <2>1 DEF Finish, Ends, Accounting
  <2>5. MaxTokens # 1 /\ NBatch > 1 => Len(echoed) <= 1
    BY <2>1 DEF Ingesting, Answering, EchoedOnce
  <2>6. (nConsumed >= nMatch /\ nEval >= nConsumed - nMatch) => n = nConsumed
    <3> SUFFICES ASSUME nConsumed >= nMatch, nEval >= nConsumed - nMatch
                 PROVE  n = nConsumed
      OBVIOUS
    <3>1. reply'.cached = nMatch /\ reply'.decoded = nConsumed - nMatch
      BY <1>1, <2>1, CountsAre
    <3>2. nMatch + (nConsumed - nMatch) = nConsumed
      BY <2>3
    <3> QED BY <3>1, <3>2
  <2>7. CASE Ingesting
    <3>1. answer = <<>> /\ (eog => inp[Len(inp)] = Eog)
      BY <2>7 DEF Ingesting
    <3>2. n \in Nat /\ Len(sess) < n + 1
      <4>1. Reusable \in Nat /\ Reusable <= nMatch /\ Reusable >= nMatch - 1
        BY <2>2, <2>3, OpeningFacts
      <4>2. CASE EndsAtReversePrompt /\ nConsumed = Len(inp) /\ Len(sess) <= Len(inp)
        <5>1. reply'.cached + reply'.decoded = Len(inp)
          <6>1. /\ nMatch < Word /\ Len(inp) - nMatch < Word /\ Len(inp) - nMatch \in Nat
            BY <1>1, <2>1, <2>3, Numbers, SizeAssumption
          <6>2. \A x \in Nat : x < Word => x % Word = x
            BY SizeAssumption
          <6>3. nMatch % Word = nMatch /\ (Len(inp) - nMatch) % Word = Len(inp) - nMatch
            BY <2>3, <6>1, <6>2
          <6>4. reply'.cached = nMatch /\ reply'.decoded = Len(inp) - nMatch
            BY <2>1, <4>2, <6>3 DEF Finish, Ends, Accounting
          <6>5. nMatch + (Len(inp) - nMatch) = Len(inp)
            BY <2>2, <2>3
          <6> QED BY <6>4, <6>5
        <5> QED BY <2>2, <4>2, <5>1
      <4>3. CASE /\ nConsumed > Reusable /\ nEval = nConsumed - Reusable
                 /\ Len(sess) = nConsumed
        <5>1. nConsumed >= nMatch /\ nEval >= nConsumed - nMatch
          BY <2>3, <4>1, <4>3
        <5>2. n = nConsumed
          BY <2>6, <5>1
        <5> HIDE DEF n
        <5> QED BY <2>3, <4>3, <5>2
      <4> QED BY <1>1, <2>7, <4>2, <4>3, IngestedNow
    <3> HIDE DEF n
    <3>3. From(sess, n + 1) = <<>>
      BY <2>2, <3>2, SubSeqEmpty DEF From
    <3> QED BY <2>1, <2>4, <2>5, <3>1, <3>3 DEF n
  <2>8. CASE Answering
    <3>1. /\ nConsumed = Len(inp) /\ nConsumed >= nMatch /\ answer # <<>>
          /\ nEval >= nConsumed - nMatch
          /\ \/ From(sess, Len(inp) + 1) = answer
             \/ /\ nRemain = 0 \/ anti \/ Len(sess) = NCtx - 1
                /\ answer = From(sess, Len(inp) + 1) \o <<answer[Len(answer)]>>
      BY <1>1, <2>8, AnsweredNow
    <3>2. n = Len(inp)
      BY <2>6, <3>1
    <3>3. eog => (inp \o answer)[Len(inp \o answer)] = Eog \/ inp[Len(inp)] = Eog
      <4>1. eog => inp[Len(inp)] = Eog \/ answer[Len(answer)] = Eog
        BY <2>8 DEF Answering
      <4>2. (inp \o answer)[Len(inp \o answer)] = answer[Len(answer)]
        <5>1. Len(answer) \in Nat \ {0}
          BY <2>3, <3>1, EmptySeq
        <5>2. /\ Len(inp \o answer) = Len(inp) + Len(answer)
              /\ \A i \in 1 .. Len(inp) + Len(answer) :
                   (inp \o answer)[i] = IF i <= Len(inp) THEN inp[i]
                                                         ELSE answer[i - Len(inp)]
          BY <2>3, ConcatProperties
        <5>3. /\ Len(inp) + Len(answer) \in 1 .. Len(inp) + Len(answer)
              /\ ~(Len(inp) + Len(answer) <= Len(inp))
              /\ Len(inp) + Len(answer) - Len(inp) = Len(answer)
          BY <2>2, <5>1
        <5> QED BY <5>2, <5>3
      <4> QED BY <4>1, <4>2
    <3> HIDE DEF n
    <3> QED BY <2>1, <2>4, <2>5, <3>1, <3>2, <3>3 DEF n
  <2> QED BY <2>1, <2>7, <2>8
<1>2. IInv /\ [Next]_vars =>
        [Saves /\ ~Uncompared =>
           LET stored == From(file'.toks, reply'.cached + reply'.decoded + 1)
               seen == inp \o answer
           IN  /\ \/ answer = stored
                  \/ /\ nRemain = 0 \/ anti \/ Len(file'.toks) = NCtx - 1
                     /\ answer = stored \o <<answer[Len(answer)]>>
               /\ reply'.eog => seen[Len(seen)] = Eog \/ inp[Len(inp)] = Eog
               /\ MaxTokens # 1 /\ NBatch > 1 => Len(echoed) <= 1]_vars
  BY <1>1
<1> QED BY <1>2, Invariant, PTL DEF Spec, OutputMatchesFile

-----------------------------------------------------------------------------
(* The calls implement SessionLog *)

LEMMA StartsWithItself ==
  ASSUME NEW s \in Seq(Vocab)
  PROVE  Log!StartsWith(s, s)
BY LenProperties, PrefixFull DEF Log!StartsWith, Prefix

LEMMA ConcatStarts ==
  ASSUME NEW s \in Seq(Vocab), NEW t \in Seq(Vocab)
  PROVE  Log!StartsWith(s \o t, s)
<1>1. Len(s \o t) = Len(s) + Len(t) /\ Len(s) \in Nat /\ Len(t) \in Nat
  BY ConcatProperties, LenProperties
<1>2. Prefix(s \o t, Len(s)) = s
  BY PrefixOfConcat
<1> QED BY <1>1, <1>2 DEF Log!StartsWith, Prefix

LEMMA PrefixStarts ==
  ASSUME NEW s \in Seq(Vocab), NEW n \in Nat, n <= Len(s)
  PROVE  Log!StartsWith(s, Prefix(s, n))
BY PrefixOf DEF Log!StartsWith, Prefix

\* The first n tokens of the input are no less of it than the session shares.
LEMMA PrefixKeepsShared ==
  ASSUME NEW t \in Seq(Vocab), NEW p \in Seq(Vocab), NEW n \in Nat,
         n <= Len(p), MatchLen(t, p) <= n
  PROVE  Log!KeepsShared(Prefix(p, n), t, p)
<1>1. SUFFICES ASSUME NEW m \in 1 .. Len(p), Log!StartsWith(t, SubSeq(p, 1, m))
               PROVE  Log!StartsWith(Prefix(p, n), SubSeq(p, 1, m))
  BY DEF Log!KeepsShared
<1>2. /\ Len(p) \in Nat /\ Len(t) \in Nat /\ m \in Nat /\ m <= Len(p)
  BY LenProperties
<1>3. /\ Prefix(p, m) \in Seq(Vocab) /\ Len(Prefix(p, m)) = m
      /\ \A k \in 1 .. m : Prefix(p, m)[k] = p[k]
  BY <1>2, PrefixOf
<1>4. m <= Len(t) /\ Prefix(t, m) = Prefix(p, m)
  BY <1>1, <1>3 DEF Log!StartsWith, Prefix
<1>5. \A k \in 1 .. m : t[k] = p[k]
  <2>1. \A k \in 1 .. m : Prefix(t, m)[k] = t[k]
    BY <1>2, <1>4, PrefixOf
  <2> QED BY <1>3, <1>4, <2>1
<1>6. m <= MatchLen(t, p)
  <2> DEFINE l == MatchLen(t, p)
  <2>1. /\ l \in Nat /\ l <= Len(t) /\ l <= Len(p)
        /\ l < Len(t) /\ l < Len(p) => t[l + 1] # p[l + 1]
    BY MatchLenType
  <2> HIDE DEF l
  <2> SUFFICES ASSUME l < m PROVE FALSE
    BY <1>2, <2>1 DEF l
  <2>2. l + 1 \in 1 .. m /\ l < Len(t) /\ l < Len(p)
    BY <1>2, <1>4, <2>1
  <2> QED BY <1>5, <2>1, <2>2
<1>7. m <= n
  BY <1>2, <1>6, MatchLenType
<1>8. Len(Prefix(p, n)) = n /\ Prefix(Prefix(p, n), m) = Prefix(p, m)
  BY <1>2, <1>7, PrefixOf, PrefixOfPrefix
<1> QED BY <1>3, <1>7, <1>8 DEF Log!StartsWith, Prefix

\* During a call the text is the session it began with.
LEMMA TextIs ==
  /\ pc # "idle" => CommittedText = Before
  /\ pc = "idle" => CommittedText = SavedToks
  /\ pc' = "idle" => CommittedText' = SavedToksOf(file')
  /\ pc' # "idle" => CommittedText' = SavedToksOf(undo')
BY DEF CommittedText, Before, SavedToks

\* No call is in progress when, and only when, the input is empty.
LEMMA InputIs ==
  ASSUME IInv
  PROVE  pc = "idle" <=> inp = <<>>
BY DEF IInv, Idle, Opening

\* The text becomes the input and something generated.
LEMMA TextAnswers ==
  ASSUME IInv, pc # "idle", NEW t \in Seq(Vocab), CommittedText' = inp \o t
  PROVE  Log!Answered
<1>1. inp \in Seq(Vocab)
  BY Numbers DEF TypeOK
<1> QED BY <1>1, ConcatStarts DEF Log!Answered

\* The text becomes as much of the input as was ingested.
LEMMA TextIngests ==
  ASSUME IInv, pc # "idle", NEW n \in Nat, n <= Len(inp),
         CommittedText' = Ingested(n)
  PROVE  Log!Undone \/ Log!Ingested \/ Log!Rewound
<1>1. TypeOK /\ Opening /\ CommittedText = Before
  BY Numbers, TextIs
<1>2. /\ Before \in Seq(Vocab) /\ inp \in Seq(Vocab)
      /\ Len(inp) \in Nat \ {0} /\ Len(Before) \in Nat
      /\ nMatch \in Nat /\ nMatch <= Len(inp) /\ nMatch <= Len(Before)
      /\ Reusable \in Nat /\ Reusable <= nMatch
      /\ ~Again => Reusable = nMatch /\ Opened = Before
      /\ Again => nMatch = Len(inp) /\ Reusable = nMatch - 1
      /\ nMatch = MatchLen(Before, inp)
  BY <1>1, OpeningFacts DEF Opening
<1>3. CASE n <= Reusable /\ ~Again
  BY <1>1, <1>2, <1>3 DEF Ingested, Log!Undone
<1>4. CASE n <= Reusable /\ Again
  <2>1. /\ CommittedText' = Prefix(Before, Len(inp) - 1)
        /\ nMatch = Len(inp) /\ Len(Before) > Len(inp)
    BY <1>4 DEF Ingested, Opened, Again
  <2>2. Prefix(Before, Len(inp) - 1) = Prefix(inp, Len(inp) - 1)
    <3>1. Len(inp) - 1 \in Nat /\ Len(inp) - 1 <= MatchLen(Before, inp)
      BY <1>2, <2>1
    <3> QED BY <1>2, <3>1, MatchLenPrefix
  <2>3. Prefix(Before, Len(inp)) = inp
    <3>1. Len(inp) \in Nat /\ Len(inp) <= MatchLen(Before, inp)
      BY <1>2, <2>1
    <3>2. Prefix(Before, Len(inp)) = Prefix(inp, Len(inp))
      BY <1>2, <3>1, MatchLenPrefix
    <3> QED BY <1>2, <3>2, PrefixFull
  <2>4. Log!StartsWith(CommittedText, inp)
    BY <1>1, <1>2, <2>1, <2>3 DEF Log!StartsWith, Prefix
  <2> QED BY <1>1, <2>1, <2>2, <2>4 DEF Log!Rewound, Prefix
<1>5. CASE n > Reusable
  <2>1. CommittedText' = Prefix(inp, n) /\ nMatch <= n
    BY <1>2, <1>5 DEF Ingested
  <2>2. Log!StartsWith(inp, CommittedText')
    BY <1>2, <2>1, PrefixStarts
  <2>3. Log!KeepsShared(CommittedText', CommittedText, inp)
    BY <1>1, <1>2, <2>1, PrefixKeepsShared
  <2> QED BY <2>2, <2>3 DEF Log!Ingested
<1> QED BY <1>2, <1>3, <1>4, <1>5

\* How a call may leave the text.
Returned == Log!Undone \/ Log!Ingested \/ Log!Answered \/ Log!Rewound

\* A call that fails, or ends without saving, leaves the file of the early save.
LEMMA TextEarlySaved ==
  ASSUME IInv, pc # "idle", EarlySaved, CommittedText' = SavedToksOf(file)
  PROVE  Returned
<1>1. CASE file = undo
  BY <1>1, TextIs DEF Before, Returned, Log!Undone
<1>2. CASE file # undo
  <2>1. CommittedText' = inp /\ inp \in Seq(Vocab)
    BY <1>2, Numbers DEF EarlySaved, SavedToksOf, TypeOK
  <2>2. inp = inp \o <<>> /\ <<>> \in Seq(Vocab)
    BY <2>1, EmptySeq, ConcatEmptySeq
  <2>3. Log!Answered
    BY <2>1, <2>2, TextAnswers
  <2> QED BY <2>3 DEF Returned
<1> QED BY <1>1, <1>2

\* Whatever a call is doing, its file is the one it began with or the early save.
LEMMA AlwaysEarlySaved ==
  ASSUME IInv, pc # "idle"
  PROVE  EarlySaved
BY DEF IInv, Ingesting, Answering, Cutting, Loose, EarlySaved

\* The final save.
LEMMA TextSaved ==
  ASSUME IInv, pc = "end", path, NBatch <= NCtx - 4, CommittedText' = sess
  PROVE  Returned
<1>1. /\ TypeOK /\ Opening /\ Counted /\ Len(inp) \in Nat \ {0}
      /\ NBatch \in Nat /\ NCtx \in Nat /\ answer \in Seq(Vocab)
  BY Numbers DEF TypeOK
<1>2. CASE Ingesting
  <2>1. sess = Ingested(nSess) /\ nSess \in Nat /\ nSess <= Len(inp)
    <3>1. /\ sess = Ingested(nSess) /\ nSess <= nConsumed /\ nConsumed <= Len(inp)
          /\ nSess \in Nat /\ nConsumed \in Nat
      BY <1>1, <1>2 DEF Ingesting, Counted, TypeOK
    <3> QED BY <1>1, <3>1
  <2> QED BY <2>1, TextIngests DEF Returned
<1>3. CASE Answering
  <2>1. answer # <<>> /\ (Stored \/ Pending)
    BY <1>3 DEF Answering
  <2>2. Prefix(answer, Len(answer) - 1) \in Seq(Vocab)
    <3>1. Len(answer) - 1 \in Nat /\ Len(answer) - 1 <= Len(answer)
      BY <1>1, <2>1, EmptySeq
    <3> QED BY <1>1, <3>1, PrefixOf
  <2> QED BY <1>1, <2>1, <2>2, TextAnswers DEF Stored, Pending, Returned
<1>4. ~Cutting /\ ~Loose
  BY <1>1 DEF Cutting, Loose
<1> QED BY <1>2, <1>3, <1>4 DEF IInv

LEMMA EndsText ==
  ASSUME IInv, NEW r, Ends(r), NBatch <= NCtx - 4
  PROVE  Returned
<1>1. /\ pc = "end" /\ pc' = "idle"
      /\ file' = IF query THEN undo
                 ELSE IF path
                   THEN [toks |-> sess, kv |-> kv, torn |-> torn \/ Uncompared]
                   ELSE file
  BY DEF Ends
<1>2. CASE query
  BY <1>1, <1>2, TextIs DEF Before, Returned, Log!Undone
<1>3. CASE ~query /\ ~path
  BY <1>1, <1>3, TextIs, AlwaysEarlySaved, TextEarlySaved
<1>4. CASE ~query /\ path
  <2> DEFINE s == [toks |-> sess, kv |-> kv, torn |-> torn \/ Uncompared]
  <2>1. s \in Session /\ s.toks = sess /\ file' = s
    <3>1. TypeOK
      BY DEF IInv
    <3> QED BY <1>1, <1>4, <3>1 DEF TypeOK, Session
  <2> HIDE DEF s
  <2>2. CommittedText' = sess
    BY <1>1, <2>1, TextIs, FileAssumption DEF SavedToksOf
  <2> QED BY <1>1, <1>4, <2>2, TextSaved
<1> QED BY <1>2, <1>3, <1>4

LEMMA DecodeFailsText ==
  ASSUME IInv, DecodeFails
  PROVE  Returned
<1>1. /\ pc # "idle" /\ pc' = "idle" /\ file' = IF query THEN undo ELSE file
  BY DEF DecodeFails
<1>2. CASE query
  BY <1>1, <1>2, TextIs DEF Before, Returned, Log!Undone
<1>3. CASE ~query
  BY <1>1, <1>3, TextIs, AlwaysEarlySaved, TextEarlySaved
<1> QED BY <1>2, <1>3

\* However the call ends, it is over, and the text fits the context.
LEMMA ReturnText ==
  ASSUME IInv, Finish \/ ChatSaveFails \/ Trap \/ DecodeFails, NBatch <= NCtx - 4
  PROVE  Log!Return
<1>1. inp # <<>> /\ inp' = <<>> /\ pc' = "idle"
  <2>1. pc # "idle" /\ inp' = <<>> /\ pc' = "idle"
    BY DEF Finish, ChatSaveFails, Trap, DecodeFails, Ends, NoLocals
  <2> QED BY <2>1, InputIs
<1>2. Returned
  <2>1. CASE Finish \/ ChatSaveFails
    BY <2>1, EndsText DEF Finish, ChatSaveFails
  <2>2. CASE Trap
    BY <2>2, TextIs DEF Trap, Before, Returned, Log!Undone
  <2>3. CASE DecodeFails
    BY <2>3, DecodeFailsText
  <2> QED BY <2>1, <2>2, <2>3
<1>3. Len(CommittedText') < NCtx
  <2>1. Sound(file)'
    <3>1. Next
      BY DEF Next, Step, Failure
    <3>2. IInv'
      BY <3>1, NextKeeps
    <3> QED BY <3>2 DEF IInv
  <2>2. CASE file' = NoFile
    <3>1. CommittedText' = <<>>
      BY <1>1, <2>2, TextIs DEF SavedToksOf
    <3> QED BY <3>1, EmptySeq, SizeAssumption
  <2>3. CASE file' # NoFile
    BY <1>1, <2>1, <2>3, TextIs DEF SavedToksOf, Sound
  <2> QED BY <2>2, <2>3
<1> QED BY <1>1, <1>2, <1>3 DEF Log!Return, Returned

\* A call takes a prompt, or the text itself.
LEMMA CallText ==
  ASSUME IInv, Call
  PROVE  Log!Call
<1>1. PICK p \in Prompts : \E n \in NPredicts, q \in BOOLEAN : Run(p, n, q)
  BY DEF Call
<1>2. /\ pc = "idle" /\ pc' = "loop" /\ undo' = file
      /\ inp' = Input(p) /\ Input(p) # <<>>
  BY <1>1 DEF Run, Refused
<1>3. CommittedText = SavedToks /\ CommittedText' = SavedToks
  BY <1>2, TextIs DEF SavedToks
<1>4. inp = <<>> /\ Input(p) \in {Tokenize(x) : x \in Prompts} \cup {SavedToks}
  BY <1>2, InputIs DEF Input
<1> QED BY <1>2, <1>3, <1>4 DEF Log!Call

\* Every step of the calls is a step of SessionLog, or changes neither the text
\* nor the input.
LEMMA StepText ==
  ASSUME IInv, Next, NBatch <= NCtx - 4
  PROVE  Log!Next \/ UNCHANGED <<CommittedText, inp>>
<1>1. CASE Admin \/ \E p \in Prompts : RunRefused(p)
  BY <1>1 DEF Admin, SetMaxTokens, Upgrade, RunRefused, CommittedText, locals
<1>2. CASE LoseFile
  <2>1. pc = "idle" /\ pc' = "idle" /\ file' = NoFile /\ inp' = inp
    BY <1>2 DEF LoseFile, locals
  <2>2. CommittedText' = <<>> /\ inp = <<>>
    BY <2>1, TextIs, InputIs DEF SavedToksOf
  <2> QED BY <2>1, <2>2 DEF Log!Next, Log!Lose
<1>3. CASE Call
  BY <1>3, CallText DEF Log!Next
<1>4. CASE Finish \/ Failure
  BY <1>4, ReturnText DEF Failure, Log!Next
<1>5. CASE \/ LoopEnds \/ FirstPass \/ StopAtFullContext \/ EnterPass
           \/ Reuse \/ AllReused \/ Decode \/ Fill \/ \E t \in Samples : Sample(t)
  <2>1. pc # "idle" /\ pc' # "idle" /\ undo' = undo /\ inp' = inp
    <3>1. CASE LoopEnds \/ FirstPass \/ StopAtFullContext \/ EnterPass
      BY <3>1 DEF LoopEnds, FirstPass, StopAtFullContext, EnterPass, locals
    <3>2. CASE Reuse \/ AllReused \/ Decode
      BY <3>2 DEF Reuse, AllReused, Decode, locals
    <3>3. CASE Fill \/ \E t \in Samples : Sample(t)
      BY <3>3 DEF Fill, Sample
    <3> QED BY <1>5, <3>1, <3>2, <3>3
  <2> QED BY <2>1, TextIs DEF Before
<1> QED BY <1>1, <1>2, <1>3, <1>4, <1>5 DEF Next, Step

\* Whatever the calls and however they end, what they do to the text of the
\* session are steps of SessionLog.  The batch must fit a prompt: one that does
\* not is cut while a session is read, and the rest of the session is lost.
THEOREM ImplementsSessionLog == NBatch <= NCtx - 4 => (Spec => LogSpec)
<1>1. SUFFICES ASSUME NBatch <= NCtx - 4 PROVE Spec => LogSpec
  OBVIOUS
<1>2. Init => Log!Init
  BY DEF Init, Log!Init, CommittedText, SavedToksOf
<1>3. IInv /\ [Next]_vars => [Log!Next]_<<CommittedText, inp>>
  <2>1. CASE UNCHANGED vars
    BY <2>1 DEF vars, locals, CommittedText
  <2> QED BY <1>1, <2>1, StepText
<1> QED BY <1>2, <1>3, Invariant, PTL DEF Spec, LogSpec, Log!Spec
=============================================================================
