------------------------ MODULE ConversationProofs ------------------------
(***************************************************************************)
(* Proofs about Conversation: what the caller relies on, whatever faults   *)
(* come in between.                                                        *)
(*                                                                         *)
(* The calls keep the invariant of InferenceProofs.  On top of it this     *)
(* module relates the saved text to what the caller wants: while it        *)
(* ingests the text is a beginning of its prompt; while it generates the   *)
(* text begins with its prompt; and the text of a good reply is the one    *)
(* that is saved, so that the prompt of the next turn begins with it.      *)
(*                                                                         *)
(* The proofs are for a canister without reverse prompts and context       *)
(* shift, with a batch that a prompt may fill: a reverse prompt, a shift   *)
(* or a cut parts the session from what the caller is told (see            *)
(* EndsAtReversePrompt, EnterPass and Cutting).                            *)
(***************************************************************************)
EXTENDS Conversation, InferenceProofs

Plain == ReversePrompts = {} /\ ~CtxShift /\ NBatch <= NCtx - 4

\* The prompt as the canister reads it.
Wanted == Tokenize(chat)

StartsWith(s, p) == Log!StartsWith(s, p)
BeginsWithBos(s) == AddBos => s # <<>> /\ s[1] = Bos

-----------------------------------------------------------------------------
(* The invariant *)

\* The sessions are whole.
FilesWhole ==
  /\ ~SavedTornOf(file) /\ ~SavedTornOf(undo)
  /\ CommittedText # <<>> => BeginsWithBos(CommittedText)

\* The call in progress is an update that will save what it did, and enters the
\* loop.
InCall ==
  /\ asked /\ ~query /\ path /\ ~anti /\ ~torn /\ BeginsWithBos(inp)
  /\ answer = <<>> => nRemain # 0
  /\ pc = "end" /\ answer = <<>> => nConsumed # 0

\* A call with -n 1 samples one token and does not store it.
InIngestion ==
  /\ inp = Wanted
  /\ answer = <<>> => nRemain = 1
  /\ answer # <<>> => nRemain = 0 /\ pc \in {"loop", "end"} /\ sess = inp

WhileIngesting ==
  /\ StartsWith(Wanted, CommittedText)
  /\ pc # "idle" => InIngestion
  /\ asked /\ pc = "idle" /\ reply.ok /\ reply.remaining = 0 =>
       file = NoFile \/ file.toks = Wanted
  /\ turn > 1 /\ faults = 0 => Len(Wanted) <= Len(CommittedText) + Len(UserTurn)

WhileGenerating ==
  /\ pc # "idle" /\ CommittedText # <<>> => inp = CommittedText
  /\ asked /\ pc = "idle" /\ reply.ok =>
       /\ said # <<>> /\ BeginsWithBos(said)
       /\ CommittedText = said \/ (CommittedText = <<>> /\ faults > 0)

CInv ==
  /\ IInv /\ ClientTypeOK /\ chat # <<>>
  /\ FilesWhole
  /\ pc # "idle" => InCall
  /\ phase = "setup" => pc = "idle" /\ ~asked /\ turn = 1 /\ CommittedText = <<>>
  /\ phase = "over" => pc = "idle"
  /\ phase = "ingest" => WhileIngesting
  /\ phase = "generate" => WhileGenerating
  /\ phase \in {"generate", "over"} /\ ~lost => StartsWith(CommittedText, Wanted)

-----------------------------------------------------------------------------
(* A call goes on *)

\* What a call does between its first and its last step.
Inner ==
  \/ LoopEnds \/ FirstPass \/ StopAtFullContext \/ EnterPass
  \/ Reuse \/ AllReused \/ Decode \/ Fill \/ \E t \in Samples : Sample(t)

\* A call that is not torn and will save ingests or answers.
LEMMA OnTrack ==
  ASSUME IInv, pc # "idle", path, ~torn
  PROVE  /\ Ingesting \/ Answering
         /\ ~Again
BY DEF IInv, Cutting, Loose, Ingesting, Answering

LEMMA InnerFrame ==
  ASSUME IInv, Inner
  PROVE  /\ IInv' /\ pc # "idle" /\ pc' # "idle" /\ pc # "end"
         /\ UNCHANGED <<undo, inp, query, reply>>
         /\ CommittedText' = CommittedText
<1>1. /\ pc # "idle" /\ pc' # "idle" /\ pc # "end"
      /\ UNCHANGED <<undo, inp, query, reply>>
  <2>1. CASE LoopEnds \/ FirstPass \/ StopAtFullContext \/ EnterPass
    BY <2>1 DEF LoopEnds, FirstPass, StopAtFullContext, EnterPass, locals
  <2>2. CASE Reuse \/ AllReused \/ Decode
    BY <2>2 DEF Reuse, AllReused, Decode, locals
  <2>3. CASE Fill \/ \E t \in Samples : Sample(t)
    BY <2>3 DEF Fill, Sample
  <2> QED BY <2>1, <2>2, <2>3 DEF Inner
<1>2. Next
  BY DEF Inner, Next, Step
<1>3. IInv'
  BY <1>2, NextKeeps
<1> QED BY <1>1, <1>3, TextIs DEF Before

\* Tokens of the prompt are only in embd once the fill loop has run.
LEMMA FedFirst ==
  ASSUME IInv, Ingesting, pc \in {"loop", "decode"}, embd # <<>>
  PROVE  nConsumed # 0
<1>1. embd = SubSeq(inp, nSess + 1, nConsumed) /\ nSess \in Nat
  BY DEF Ingesting, IInv, TypeOK
<1>2. ASSUME nConsumed = 0 PROVE FALSE
  <2>1. nConsumed < nSess + 1
    BY <1>1, <1>2
  <2> QED BY <1>1, <1>2, <2>1, SubSeqEmpty
<1> QED BY <1>2

LEMMA InnerInCall ==
  ASSUME Plain, IInv, InCall, Inner, UNCHANGED asked
  PROVE  InCall'
<1>1. /\ asked /\ ~query /\ path /\ ~anti /\ ~torn /\ BeginsWithBos(inp)
      /\ answer = <<>> => nRemain # 0
      /\ pc # "idle" /\ inp' = inp /\ query' = query
  BY InnerFrame DEF InCall
<1>2. (Ingesting \/ Answering) /\ BeginsWithBos(inp)'
  BY <1>1, OnTrack DEF BeginsWithBos
<1>3. answer = <<>> => Ingesting
  BY <1>2 DEF Answering
<1>4. CASE LoopEnds
  BY <1>1, <1>2, <1>4 DEF LoopEnds, LoopGoesOn, InCall, locals, counters, output
<1>5. CASE FirstPass \/ AllReused
  <2>1. pc' = "feed" /\ UNCHANGED locals
    BY <1>5 DEF FirstPass, AllReused
  <2> QED BY <1>1, <1>2, <2>1 DEF InCall, locals, counters, output
<1>6. CASE StopAtFullContext
  <2>1. answer = <<>> => nConsumed # 0
    BY <1>3, <1>6, FedFirst DEF StopAtFullContext
  <2> QED BY <1>1, <1>2, <1>6, <2>1 DEF StopAtFullContext, InCall, counters, output
<1>7. CASE EnterPass
  <2>1. ~(Len(embd) > NCtx - 4)
    <3>1. Len(embd) <= NBatch /\ NBatch \in Nat /\ NCtx \in Nat /\ Len(embd) \in Nat
      BY <1>1, Numbers DEF Limits
    <3> QED BY <3>1 DEF Plain
  <2>2. ~torn' /\ path'
    BY <1>1, <1>7, <2>1 DEF EnterPass, TooLong, Plain
  <2> QED BY <1>1, <1>2, <1>7, <2>2 DEF EnterPass, InCall, output
<1>8. CASE Reuse
  BY <1>1, <1>2, <1>8 DEF Reuse, InCall, output
<1>9. CASE Decode
  <2>1. answer = <<>> => nConsumed # 0
    BY <1>3, <1>9, FedFirst DEF Decode
  <2> QED BY <1>1, <1>2, <1>9, <2>1 DEF Decode, InCall, output
<1>10. CASE Fill
  BY <1>1, <1>2, <1>10 DEF Fill, Next_embd, InCall, Plain
<1>11. CASE \E t \in Samples : Sample(t)
  <2>1. PICK t \in Samples : Sample(t)
    BY <1>11
  <2>2. answer' # <<>>
    <3>1. answer' = Append(answer, t) /\ answer \in Seq(Vocab) /\ t \in Vocab
      BY <1>1, <2>1, Numbers, TokenAssumption DEF Sample, TypeOK
    <3>2. Len(answer') = Len(answer) + 1 /\ Len(answer) \in Nat
      BY <3>1, AppendProperties, LenProperties
    <3> QED BY <3>2, EmptySeq
  <2>3. pc' = "loop" /\ ~anti'
    BY <1>1, <2>1 DEF Sample, Next_embd, Plain
  <2> QED BY <1>1, <1>2, <2>1, <2>2, <2>3 DEF Sample, InCall
<1> QED BY <1>4, <1>5, <1>6, <1>7, <1>8, <1>9, <1>10, <1>11 DEF Inner

LEMMA InnerInIngestion ==
  ASSUME Plain, IInv, InCall, InIngestion, Inner, UNCHANGED chat
  PROVE  InIngestion'
<1>1. /\ path /\ ~anti /\ ~torn /\ pc # "idle" /\ inp' = inp
      /\ inp = Wanted /\ Wanted' = Wanted
  BY InnerFrame DEF InCall, InIngestion, Wanted, Tokenize
<1>2. Ingesting \/ Answering
  BY <1>1, OnTrack
<1>3. answer # <<>> => nRemain = 0 /\ pc \in {"loop", "end"} /\ sess = inp
  BY DEF InIngestion
<1>4. CASE LoopEnds
  BY <1>1, <1>3, <1>4 DEF LoopEnds, InIngestion, locals, counters, output
<1>5. CASE FirstPass \/ StopAtFullContext \/ EnterPass
  BY <1>1, <1>3, <1>5 DEF FirstPass, StopAtFullContext, EnterPass, LoopGoesOn,
     InIngestion, locals, counters, output
<1>6. CASE Reuse \/ AllReused \/ Decode \/ Fill
  BY <1>1, <1>3, <1>6 DEF Reuse, AllReused, Decode, Fill, InIngestion, locals,
     counters, output
<1>7. CASE \E t \in Samples : Sample(t)
  <2>1. PICK t \in Samples : Sample(t)
    BY <1>7
  <2>2. answer = <<>> /\ nRemain = 1 /\ Ingesting /\ pc = "feed" /\ PromptConsumed
    BY <1>2, <1>3, <2>1 DEF Sample, InIngestion, Answering
  <2>3. nRemain' = 0 /\ pc' = "loop" /\ sess' = sess
    BY <2>1, <2>2 DEF Sample
  <2>4. sess = inp
    <3>1. /\ TypeOK /\ Opening /\ nSess = nConsumed /\ nConsumed = Len(inp)
          /\ sess = Ingested(nSess) /\ Len(inp) \in Nat
      BY <1>1, <2>2, Numbers DEF Ingesting, PromptConsumed, Counted, TypeOK
    <3> QED BY <3>1, IngestedFacts
  <2>5. answer' # <<>>
    <3>1. answer' = Append(answer, t) /\ answer \in Seq(Vocab) /\ t \in Vocab
      BY <1>1, <2>1, Numbers, TokenAssumption DEF Sample, TypeOK
    <3>2. Len(answer') = Len(answer) + 1 /\ Len(answer) \in Nat
      BY <3>1, AppendProperties, LenProperties
    <3> QED BY <3>2, EmptySeq
  <2> QED BY <1>1, <2>3, <2>4, <2>5 DEF InIngestion
<1> QED BY <1>4, <1>5, <1>6, <1>7 DEF Inner

LEMMA InnerKeeps ==
  ASSUME Plain, CInv, Inner, UNCHANGED <<client, said, faults>>
  PROVE  CInv'
<1>1. /\ IInv /\ IInv' /\ pc # "idle" /\ pc' # "idle" /\ InCall
      /\ UNCHANGED <<undo, inp, query, reply>>
      /\ CommittedText' = CommittedText
      /\ UNCHANGED <<phase, chat, turn, asked, lost, said, faults>>
  BY InnerFrame DEF CInv, client
<1>2. InCall'
  BY <1>1, InnerInCall
<1>3. phase = "ingest" => InIngestion'
  BY <1>1, InnerInIngestion DEF CInv, WhileIngesting
<1>4. FilesWhole'
  <2>1. ~SavedTornOf(file)'
    <3>1. CASE file' = file
      BY <3>1 DEF CInv, FilesWhole, SavedTornOf
    <3>2. CASE file' = [toks |-> sess, kv |-> kv, torn |-> torn]
      BY <1>1, <3>2 DEF SavedTornOf, InCall
    <3>3. file' = file \/ file' = [toks |-> sess, kv |-> kv, torn |-> torn]
      <4>1. CASE \E t \in Samples : Sample(t)
        BY <4>1 DEF Sample
      <4>2. CASE ~ \E t \in Samples : Sample(t)
        BY <4>2 DEF Inner, LoopEnds, FirstPass, StopAtFullContext, EnterPass,
           Reuse, AllReused, Decode, Fill
      <4> QED BY <4>1, <4>2
    <3> QED BY <3>1, <3>2, <3>3
  <2> QED BY <1>1, <2>1 DEF CInv, FilesWhole, SavedTornOf, BeginsWithBos
<1>5. Wanted' = Wanted
  BY <1>1 DEF Wanted, Tokenize
<1>6. ClientTypeOK'
  BY <1>1 DEF CInv, ClientTypeOK
<1>7. (phase = "ingest" => WhileIngesting)'
  BY <1>1, <1>3, <1>5 DEF CInv, WhileIngesting, StartsWith, Log!StartsWith
<1>8. (phase = "generate" => WhileGenerating)'
  BY <1>1 DEF CInv, WhileGenerating
<1>9. (phase \in {"generate", "over"} /\ ~lost => StartsWith(CommittedText, Wanted))'
  BY <1>1, <1>5 DEF CInv, StartsWith, Log!StartsWith
<1> QED BY <1>1, <1>2, <1>4, <1>6, <1>7, <1>8, <1>9 DEF CInv

-----------------------------------------------------------------------------
(* Texts *)

LEMMA TextType ==
  ASSUME TypeOK
  PROVE  CommittedText \in Seq(Vocab)
BY BeforeType, TextIs

LEMMA WantedType ==
  ASSUME ClientTypeOK, chat # <<>>
  PROVE  Wanted \in Seq(Vocab) /\ Wanted # <<>>
<1>1. chat \in Seq(Vocab) /\ Wanted \in Seq(Vocab)
  BY TokenizeType DEF ClientTypeOK, Wanted
<1>2. CASE AddBos
  <2>1. <<Bos>> \in Seq(Vocab) /\ Len(<<Bos>>) = 1
    BY TokenAssumption
  <2>2. Wanted = <<Bos>> \o chat
    BY <1>2 DEF Wanted, Tokenize
  <2>3. Len(<<Bos>> \o chat) = 1 + Len(chat) /\ Len(chat) \in Nat
    BY <1>1, <2>1, ConcatProperties, LenProperties
  <2>4. Len(Wanted) # 0
    BY <2>2, <2>3
  <2> QED BY <1>1, <2>4, EmptySeq
<1>3. CASE ~AddBos
  BY <1>1, <1>3 DEF Wanted, Tokenize
<1> QED BY <1>1, <1>2, <1>3

LEMMA StartsWithAll ==
  ASSUME NEW s \in Seq(Vocab)
  PROVE  StartsWith(s, s) /\ StartsWith(s, <<>>)
<1>1. StartsWith(s, s)
  BY StartsWithItself DEF StartsWith
<1>2. Len(<<>>) = 0 /\ Len(s) \in Nat /\ SubSeq(s, 1, 0) = <<>>
  BY EmptySeq, LenProperties, SubSeqEmpty
<1> QED BY <1>1, <1>2 DEF StartsWith, Log!StartsWith

LEMMA StartsTrans ==
  ASSUME NEW s \in Seq(Vocab), NEW t \in Seq(Vocab), NEW u \in Seq(Vocab),
         StartsWith(s, t), StartsWith(t, u)
  PROVE  StartsWith(s, u)
<1>1. /\ Len(t) <= Len(s) /\ Prefix(s, Len(t)) = t
      /\ Len(u) <= Len(t) /\ Prefix(t, Len(u)) = u
      /\ Len(s) \in Nat /\ Len(t) \in Nat /\ Len(u) \in Nat
  BY LenProperties DEF StartsWith, Log!StartsWith, Prefix
<1>2. Prefix(Prefix(s, Len(t)), Len(u)) = Prefix(s, Len(u))
  BY <1>1, PrefixOfPrefix
<1> QED BY <1>1, <1>2 DEF StartsWith, Log!StartsWith, Prefix

\* A beginning is what the two texts share.
LEMMA StartsMatch ==
  ASSUME NEW s \in Seq(Vocab), NEW t \in Seq(Vocab), StartsWith(t, s)
  PROVE  MatchLen(s, t) = Len(s)
<1>1. /\ Len(s) \in Nat /\ Len(t) \in Nat /\ Len(s) <= Len(t)
      /\ Prefix(t, Len(s)) = s
  BY LenProperties DEF StartsWith, Log!StartsWith, Prefix
<1>2. \A i \in 1 .. Len(s) : s[i] = t[i]
  BY <1>1, PrefixOf
<1>3. Agree(s, t, Len(s))
  BY <1>1, <1>2 DEF Agree, Least
<1> QED BY <1>3, MatchLenIs

-----------------------------------------------------------------------------
(* A call ends *)

\* Where a call ends, and what it saves.
LEMMA EndsWhole ==
  ASSUME IInv, InCall, pc = "end"
  PROVE  /\ nSess = Len(sess) /\ sess \in Seq(Vocab) /\ sess # <<>>
         /\ BeginsWithBos(sess)
         /\ \/ /\ Ingesting /\ sess = Prefix(inp, nConsumed)
               /\ Len(sess) = nConsumed /\ nConsumed > nMatch
            \/ Answering /\ StartsWith(sess, inp)
<1>1. /\ TypeOK /\ Opening /\ Counted /\ Len(inp) \in Nat \ {0} /\ sess \in Seq(Vocab)
      /\ inp \in Seq(Vocab) /\ nConsumed \in Nat /\ nConsumed <= Len(inp)
      /\ nMatch \in Nat /\ answer \in Seq(Vocab)
  BY Numbers DEF TypeOK, Counted
<1>2. /\ path /\ ~anti /\ ~torn /\ BeginsWithBos(inp)
      /\ answer = <<>> => nConsumed # 0
  BY DEF InCall
<1>3. (Ingesting \/ Answering) /\ ~Again
  BY <1>2, OnTrack
<1>4. CASE Ingesting
  <2>1. /\ nSess = nConsumed /\ nSess > nMatch /\ Reusable = nMatch
        /\ sess = Ingested(nSess)
    BY <1>2, <1>3, <1>4 DEF Ingesting, Reusable
  <2>2. sess = Prefix(inp, nConsumed) /\ Len(sess) = nConsumed
    BY <1>1, <2>1, IngestedFacts
  <2>3. 1 \in 1 .. nConsumed /\ sess[1] = inp[1]
    <3>1. 1 \in 1 .. nConsumed
      BY <1>1, <2>1
    <3>2. Prefix(inp, nConsumed)[1] = inp[1]
      BY <1>1, <3>1, PrefixOf
    <3> QED BY <2>2, <3>1, <3>2
  <2>4. sess # <<>>
    BY <1>1, <2>1, <2>2, EmptySeq
  <2> QED BY <1>1, <1>2, <1>4, <2>1, <2>2, <2>3, <2>4 DEF BeginsWithBos
<1>5. CASE Answering
  <2>1. PICK t \in Seq(Vocab) : sess = inp \o t
    <3>1. answer # <<>> /\ (Stored \/ Pending)
      BY <1>5 DEF Answering
    <3>2. Len(answer) - 1 \in Nat /\ Len(answer) - 1 <= Len(answer)
      BY <1>1, <3>1, EmptySeq, LenProperties
    <3>3. Prefix(answer, Len(answer) - 1) \in Seq(Vocab)
      BY <1>1, <3>2, PrefixOf
    <3> QED BY <1>1, <3>1, <3>3 DEF Stored, Pending
  <2>2. StartsWith(sess, inp)
    BY <1>1, <2>1, ConcatStarts DEF StartsWith
  <2>3. /\ Len(inp \o t) = Len(inp) + Len(t) /\ Len(t) \in Nat
        /\ 1 \in 1 .. Len(inp) + Len(t) => (inp \o t)[1] = inp[1]
    BY <1>1, ConcatProperties, LenProperties
  <2>4. sess # <<>> /\ sess[1] = inp[1]
    BY <1>1, <2>1, <2>3, EmptySeq
  <2>5. nSess = Len(sess)
    BY <1>5 DEF Answering
  <2> QED BY <1>1, <1>2, <1>5, <2>2, <2>4, <2>5 DEF BeginsWithBos
<1> QED BY <1>3, <1>4, <1>5

LEMMA EndsSaves ==
  ASSUME CInv, NEW r, Ends(r)
  PROVE  /\ pc = "end" /\ pc' = "idle" /\ reply' = r /\ IInv /\ InCall
         /\ file' # NoFile /\ file'.toks = sess /\ CommittedText' = sess
         /\ FilesWhole'
<1>1. /\ pc = "end" /\ pc' = "idle" /\ reply' = r /\ IInv /\ InCall /\ undo' = NoFile
  BY DEF Ends, CInv
<1>2. /\ nSess = Len(sess) /\ BeginsWithBos(sess) /\ Len(sess) \in Nat /\ TypeOK
      /\ path /\ ~query /\ ~torn
  BY <1>1, EndsWhole, LenProperties DEF InCall, IInv
<1> DEFINE s == [toks |-> sess, kv |-> kv, torn |-> torn \/ Uncompared]
<1>3. /\ file' = s /\ s \in Session /\ s.toks = sess /\ s.torn = (torn \/ Uncompared)
  <2>1. (torn \/ Uncompared) \in BOOLEAN
    BY <1>2 DEF TypeOK, Uncompared
  <2> QED BY <1>2, <2>1 DEF Ends, TypeOK, Session
<1> HIDE DEF s
<1>4. file' # NoFile /\ file'.toks = sess /\ ~file'.torn
  <2>1. ~Uncompared
    BY <1>2 DEF Uncompared
  <2>2. ~(torn \/ Uncompared)
    BY <1>2, <2>1
  <2> QED BY <1>3, <2>2, FileAssumption
<1>5. CommittedText' = sess
  BY <1>1, <1>4, TextIs DEF SavedToksOf
<1>6. FilesWhole'
  BY <1>1, <1>2, <1>4, <1>5 DEF FilesWhole, SavedTornOf, BeginsWithBos
<1> QED BY <1>1, <1>4, <1>5, <1>6

\* While the caller ingests, the text grows along the prompt.
LEMMA IngestionEnding ==
  ASSUME IInv, InCall, pc = "end", ClientTypeOK, chat # <<>>,
         StartsWith(Wanted, CommittedText), InIngestion
  PROVE  /\ StartsWith(Wanted, sess) /\ Len(CommittedText) <= Len(sess)
         /\ nConsumed = Len(inp) => sess = Wanted
<1>1. /\ TypeOK /\ Opening /\ Counted /\ inp \in Seq(Vocab) /\ Len(inp) \in Nat
      /\ nConsumed \in Nat /\ nConsumed <= Len(inp) /\ nMatch \in Nat
  BY Numbers DEF TypeOK, Counted
<1>2. /\ inp = Wanted /\ CommittedText = Before /\ Before \in Seq(Vocab)
      /\ nMatch = Len(Before) /\ Len(Before) \in Nat /\ Len(Before) <= Len(inp)
  <2>1. inp = Wanted /\ CommittedText = Before /\ Before \in Seq(Vocab)
    BY <1>1, TextIs, BeforeType DEF InIngestion
  <2>2. nMatch = Len(Before)
    BY <1>1, <2>1, StartsMatch DEF Opening
  <2> QED BY <2>1, <2>2, LenProperties DEF StartsWith, Log!StartsWith
<1>3. CASE Ingesting /\ sess = Prefix(inp, nConsumed) /\ Len(sess) = nConsumed
           /\ nConsumed > nMatch
  <2>1. StartsWith(inp, sess)
    BY <1>1, <1>3, PrefixStarts DEF StartsWith
  <2>2. nConsumed = Len(inp) => sess = inp
    BY <1>1, <1>3, PrefixFull
  <2> QED BY <1>1, <1>2, <1>3, <2>1, <2>2
<1>4. CASE Answering
  <2>1. sess = inp
    BY <1>4 DEF Answering, InIngestion
  <2> QED BY <1>1, <1>2, <2>1, StartsWithAll
<1> QED BY <1>3, <1>4, EndsWhole

\* While it generates, the text is continued.
LEMMA GenerationEnding ==
  ASSUME IInv, InCall, pc = "end", inp = CommittedText
  PROVE  StartsWith(sess, CommittedText)
<1>1. /\ TypeOK /\ Opening /\ Counted /\ inp = Before /\ Len(inp) \in Nat
      /\ nConsumed \in Nat /\ nConsumed <= Len(inp)
  BY Numbers, TextIs DEF TypeOK, Counted
<1>2. nMatch = Len(inp)
  BY <1>1, WholeSession
<1>3. ~(nConsumed > nMatch)
  BY <1>1, <1>2
<1> QED BY <1>3, EndsWhole

LEMMA FinishKeeps ==
  ASSUME Plain, CInv, Finish, said' = Conversed, UNCHANGED <<client, faults>>
  PROVE  CInv'
<1>1. Ends(Accounting)
  BY DEF Finish
<1>2. /\ pc = "end" /\ pc' = "idle" /\ reply' = Accounting /\ IInv /\ InCall
      /\ file' # NoFile /\ file'.toks = sess /\ CommittedText' = sess
      /\ FilesWhole'
  BY <1>1, EndsSaves
<1>3. UNCHANGED <<phase, chat, turn, asked, lost, faults>>
  BY DEF client
<1>4. IInv'
  <2>1. Next
    BY DEF Next, Step
  <2> QED BY <1>2, <2>1, NextKeeps
<1>5. /\ sess \in Seq(Vocab) /\ sess # <<>> /\ BeginsWithBos(sess) /\ said' = sess
  <2>1. /\ nSess = Len(sess) /\ sess \in Seq(Vocab) /\ sess # <<>> /\ BeginsWithBos(sess)
    BY <1>2, EndsWhole
  <2> QED BY <2>1, PrefixFull DEF Conversed
<1>6. ClientTypeOK' /\ Wanted' = Wanted /\ ClientTypeOK /\ chat # <<>>
  BY <1>3, <1>5 DEF CInv, ClientTypeOK, Wanted, Tokenize
<1>7. (phase = "ingest" => WhileIngesting)'
  <2> SUFFICES ASSUME phase = "ingest" PROVE WhileIngesting'
    BY <1>3
  <2>1. /\ StartsWith(Wanted, CommittedText) /\ InIngestion
        /\ turn > 1 /\ faults = 0 => Len(Wanted) <= Len(CommittedText) + Len(UserTurn)
    BY <1>2 DEF CInv, WhileIngesting
  <2>2. /\ StartsWith(Wanted, sess) /\ Len(CommittedText) <= Len(sess)
        /\ nConsumed = Len(inp) => sess = Wanted
    BY <1>2, <1>6, <2>1, IngestionEnding
  <2>3. reply'.remaining = 0 => nConsumed = Len(inp)
    <3>1. /\ Len(inp) - nConsumed \in Nat /\ Len(inp) - nConsumed < Word
          /\ Len(inp) \in Nat /\ nConsumed \in Nat
      <4>1. /\ Len(inp) \in Nat /\ Len(inp) < NCtx /\ NCtx \in Nat
            /\ nConsumed \in Nat /\ nConsumed <= Len(inp)
        BY <1>2, Numbers DEF TypeOK, Counted
      <4> QED BY <4>1, SizeAssumption
    <3>2. \A x \in Nat : x < Word => x % Word = x
      BY SizeAssumption
    <3>3. reply'.remaining = Len(inp) - nConsumed
      BY <1>2, <3>1, <3>2 DEF Accounting
    <3> QED BY <3>1, <3>3
  <2>4. turn > 1 /\ faults = 0 => Len(Wanted) <= Len(sess) + Len(UserTurn)
    <3>1. /\ Len(Wanted) \in Nat /\ Len(CommittedText) \in Nat /\ Len(sess) \in Nat
          /\ Len(UserTurn) \in Nat
      BY <1>2, <1>5, <1>6, WantedType, TextType, LenProperties, ConversationAssumption
         DEF IInv
    <3> QED BY <2>1, <2>2, <3>1
  <2> QED BY <1>2, <1>3, <1>6, <2>2, <2>3, <2>4
          DEF WhileIngesting, StartsWith, Log!StartsWith
<1>8. (phase = "generate" => WhileGenerating)'
  BY <1>2, <1>5 DEF WhileGenerating, BeginsWithBos
<1>9. (phase \in {"generate", "over"} /\ ~lost => StartsWith(CommittedText, Wanted))'
  <2> SUFFICES ASSUME phase = "generate", ~lost PROVE StartsWith(sess, Wanted)
    BY <1>2, <1>3, <1>6 DEF CInv, StartsWith, Log!StartsWith
  <2>1. StartsWith(CommittedText, Wanted) /\ Wanted \in Seq(Vocab) /\ Wanted # <<>>
        /\ CommittedText \in Seq(Vocab)
    BY <1>2, <1>6, WantedType, TextType DEF CInv, IInv
  <2>2. CommittedText # <<>>
    <3>1. Len(Wanted) <= Len(CommittedText) /\ Len(Wanted) \in Nat \ {0}
      BY <2>1, EmptySeq DEF StartsWith, Log!StartsWith
    <3> QED BY <2>1, <3>1, EmptySeq
  <2>3. inp = CommittedText
    BY <1>2, <2>2 DEF CInv, WhileGenerating
  <2>4. StartsWith(sess, CommittedText)
    BY <1>2, <2>3, GenerationEnding
  <2> QED BY <1>5, <2>1, <2>4, StartsTrans
<1> QED BY <1>2, <1>3, <1>4, <1>6, <1>7, <1>8, <1>9 DEF CInv

\* What a fault leaves the text.
LEMMA FaultKeeps ==
  ASSUME CInv, IInv', FilesWhole', pc' = "idle", ~reply'.ok,
         phase \in {"ingest", "generate"}, UNCHANGED <<client, said>>,
         faults' \in 1 .. MaxFaults,
         phase = "ingest" => StartsWith(Wanted, CommittedText'),
         phase = "generate" /\ CommittedText # <<>> =>
           StartsWith(CommittedText', CommittedText)
  PROVE  CInv'
<1>1. UNCHANGED <<phase, chat, turn, asked, lost, said>>
  BY DEF client
<1>2. ClientTypeOK' /\ Wanted' = Wanted /\ ClientTypeOK /\ chat # <<>>
  BY <1>1, ConversationAssumption DEF CInv, ClientTypeOK, Wanted, Tokenize
<1>3. faults' # 0
  BY ConversationAssumption
<1>4. (phase = "ingest" => WhileIngesting)'
  BY <1>1, <1>2, <1>3 DEF WhileIngesting, StartsWith, Log!StartsWith
<1>5. (phase = "generate" => WhileGenerating)'
  BY DEF WhileGenerating
<1>6. (phase \in {"generate", "over"} /\ ~lost => StartsWith(CommittedText, Wanted))'
  <2> SUFFICES ASSUME phase = "generate", ~lost PROVE StartsWith(CommittedText', Wanted)
    BY <1>1, <1>2 DEF StartsWith, Log!StartsWith
  <2>1. /\ StartsWith(CommittedText, Wanted) /\ Wanted \in Seq(Vocab) /\ Wanted # <<>>
        /\ CommittedText \in Seq(Vocab)
    BY <1>2, WantedType, TextType DEF CInv, IInv
  <2>2. CommittedText' \in Seq(Vocab)
    <3>1. TypeOK'
      BY DEF IInv
    <3>2. \A f \in Session \cup {NoFile} : SavedToksOf(f) \in Seq(Vocab)
      BY EmptySeq DEF SavedToksOf, Session
    <3> QED BY <3>1, <3>2, TextIs DEF TypeOK
  <2>3. CommittedText # <<>>
    <3>1. Len(Wanted) <= Len(CommittedText) /\ Len(Wanted) \in Nat \ {0}
      BY <2>1, EmptySeq DEF StartsWith, Log!StartsWith
    <3> QED BY <2>1, <3>1, EmptySeq
  <2> QED BY <2>1, <2>2, <2>3, StartsTrans
<1> QED BY <1>1, <1>2, <1>4, <1>5, <1>6 DEF CInv

LEMMA LoseKeeps ==
  ASSUME CInv, LoseFile, phase \in {"ingest", "generate"},
         faults' \in 1 .. MaxFaults,
         lost' = (lost \/ phase = "generate"),
         UNCHANGED <<phase, chat, turn, asked, said>>
  PROVE  CInv'
<1>1. /\ pc = "idle" /\ pc' = "idle" /\ file' = NoFile /\ UNCHANGED <<undo, reply>>
      /\ IInv'
  <2>1. IInv'
    BY AdminKeeps DEF CInv
  <2> QED BY <2>1 DEF LoseFile
<1>2. CommittedText' = <<>>
  BY <1>1, TextIs DEF SavedToksOf
<1>3. FilesWhole'
  BY <1>1, <1>2 DEF CInv, FilesWhole, SavedTornOf
<1>4. ClientTypeOK' /\ Wanted' = Wanted /\ ClientTypeOK /\ chat # <<>>
  <2>1. lost' \in BOOLEAN
    OBVIOUS
  <2> QED BY <2>1, ConversationAssumption DEF CInv, ClientTypeOK, Wanted, Tokenize
<1>5. (phase = "ingest" => WhileIngesting)'
  <2>1. StartsWith(Wanted, <<>>)
    BY <1>4, WantedType, StartsWithAll
  <2> QED BY <1>1, <1>2, <1>4, <2>1, ConversationAssumption
          DEF WhileIngesting, StartsWith, Log!StartsWith
<1>6. (phase = "generate" => WhileGenerating)'
  BY <1>1, <1>2 DEF CInv, WhileGenerating, BeginsWithBos
<1> QED BY <1>1, <1>3, <1>4, <1>5, <1>6 DEF CInv

LEMMA FailureKeeps ==
  ASSUME CInv, Failure, phase \in {"ingest", "generate"}, UNCHANGED <<client, said>>,
         faults' \in 1 .. MaxFaults
  PROVE  CInv'
<1>1. IInv'
  <2>1. Next /\ IInv
    BY DEF Next, CInv
  <2> QED BY <2>1, NextKeeps
<1>2. /\ TypeOK /\ ClientTypeOK /\ chat # <<>> /\ CommittedText \in Seq(Vocab)
      /\ Wanted \in Seq(Vocab)
  BY TextType, WantedType DEF CInv, IInv
<1>3. ~NoReply.ok
  BY DEF NoReply
<1>4. CASE Trap \/ DecodeFails
  <2>1. /\ pc # "idle" /\ pc' = "idle" /\ reply' = NoReply /\ undo' = NoFile
        /\ file' = undo \/ file' = file
    BY <1>4 DEF Trap, DecodeFails
  <2>2. InCall /\ IInv
    BY <2>1 DEF CInv
  <2>3. CommittedText' = CommittedText \/ CommittedText' = inp
    <3>1. CASE file' = undo
      BY <2>1, <3>1, TextIs DEF Before
    <3>2. CASE file' = file
      <4>1. EarlySaved
        BY <2>1, <2>2, AlwaysEarlySaved
      <4> QED BY <2>1, <3>2, <4>1, TextIs DEF EarlySaved, Before, SavedToksOf
    <3> QED BY <2>1, <3>1, <3>2
  <2>4. BeginsWithBos(inp) /\ inp \in Seq(Vocab)
    BY <1>2, <2>2 DEF InCall, TypeOK
  <2>5. FilesWhole'
    BY <2>1, <2>3, <2>4 DEF CInv, FilesWhole, SavedTornOf, BeginsWithBos
  <2>6. phase = "ingest" => StartsWith(Wanted, CommittedText')
    BY <1>2, <2>1, <2>3, StartsWithAll DEF CInv, WhileIngesting, InIngestion
  <2>7. phase = "generate" /\ CommittedText # <<>> =>
          StartsWith(CommittedText', CommittedText)
    BY <1>2, <2>1, <2>3, StartsWithAll DEF CInv, WhileGenerating
  <2> QED BY <1>1, <1>3, <2>1, <2>5, <2>6, <2>7, FaultKeeps
<1>5. CASE ChatSaveFails
  <2>1. Ends(NoReply)
    BY <1>5 DEF ChatSaveFails
  <2>2. /\ pc = "end" /\ pc' = "idle" /\ reply' = NoReply /\ IInv /\ InCall
        /\ CommittedText' = sess /\ FilesWhole'
    BY <2>1, EndsSaves
  <2>3. phase = "ingest" => StartsWith(Wanted, CommittedText')
    BY <1>2, <2>2, IngestionEnding DEF CInv, WhileIngesting
  <2>4. phase = "generate" /\ CommittedText # <<>> =>
          StartsWith(CommittedText', CommittedText)
    BY <2>2, GenerationEnding DEF CInv, WhileGenerating
  <2> QED BY <1>1, <1>3, <2>2, <2>3, <2>4, FaultKeeps
<1> QED BY <1>4, <1>5 DEF Failure

-----------------------------------------------------------------------------
(* The caller *)

LEMMA InputBegins ==
  ASSUME TypeOK, FilesWhole, pc = "idle", NEW p \in Seq(Vocab), Input(p) # <<>>
  PROVE  /\ BeginsWithBos(Input(p)) /\ Input(p) \in Seq(Vocab)
         /\ p # <<>> => Input(p) = Tokenize(p)
         /\ p = <<>> /\ CommittedText # <<>> => Input(p) = CommittedText
<1>1. CommittedText = SavedToks /\ SavedToks \in Seq(Vocab) /\ Tokenize(p) \in Seq(Vocab)
  BY TextIs, BeforeType, TokenizeType
<1>2. BeginsWithBos(Tokenize(p))
  <2> SUFFICES ASSUME AddBos PROVE Tokenize(p) # <<>> /\ Tokenize(p)[1] = Bos
    BY DEF BeginsWithBos
  <2>1. Tokenize(p) = <<Bos>> \o p /\ <<Bos>> \in Seq(Vocab) /\ Len(<<Bos>>) = 1
    BY TokenAssumption DEF Tokenize
  <2>2. /\ Len(<<Bos>> \o p) = 1 + Len(p) /\ Len(p) \in Nat
        /\ 1 \in 1 .. 1 + Len(p) => (<<Bos>> \o p)[1] = <<Bos>>[1]
    BY <2>1, ConcatProperties, LenProperties
  <2> QED BY <1>1, <2>1, <2>2, EmptySeq
<1> QED BY <1>1, <1>2 DEF Input, FilesWhole

LEMMA AskKeeps ==
  ASSUME CInv, NEW p \in Seq(Vocab), NEW n \in Int, n # 0, Asks(p, n),
         \/ phase = "ingest" /\ p = chat /\ n = 1
         \/ phase = "generate" /\ p = <<>>
  PROVE  CInv'
<1>1. /\ UNCHANGED <<phase, chat, said, turn, faults, lost>> /\ asked' = TRUE
      /\ IInv /\ TypeOK /\ ClientTypeOK /\ chat # <<>> /\ FilesWhole
      /\ Wanted \in Seq(Vocab) /\ Wanted' = Wanted
  BY WantedType DEF Asks, CInv, IInv, Wanted, Tokenize
<1>2. ClientTypeOK'
  BY <1>1 DEF ClientTypeOK
<1>3. CASE RunRefused(p)
  <2>1. IInv'
    BY <1>1, <1>3, AdminKeeps
  <2>2. /\ pc = "idle" /\ pc' = "idle" /\ file' = file /\ undo' = undo
        /\ ~reply'.ok
    BY <1>3 DEF RunRefused, NoReply
  <2>3. CommittedText' = CommittedText
    BY <2>2 DEF CommittedText
  <2>4. FilesWhole'
    BY <1>1, <2>2, <2>3 DEF FilesWhole, SavedTornOf, BeginsWithBos
  <2>5. (phase = "ingest" => WhileIngesting)'
    BY <1>1, <2>2, <2>3 DEF CInv, WhileIngesting, StartsWith, Log!StartsWith
  <2>6. (phase = "generate" => WhileGenerating)'
    BY <2>2 DEF WhileGenerating
  <2>7. (phase \in {"generate", "over"} /\ ~lost => StartsWith(CommittedText, Wanted))'
    BY <1>1, <2>3 DEF CInv, StartsWith, Log!StartsWith
  <2> QED BY <1>1, <1>2, <2>1, <2>2, <2>4, <2>5, <2>6, <2>7 DEF CInv
<1>4. CASE Run(p, n, FALSE)
  <2>1. IInv'
    BY <1>1, <1>4, RunKeeps
  <2>2. /\ pc = "idle" /\ pc' = "loop" /\ file' = file /\ undo' = file
        /\ query' = FALSE /\ path' = TRUE /\ nRemain' = n /\ anti' = anti
        /\ inp' = Input(p) /\ Input(p) # <<>> /\ answer' = answer
        /\ kv' \in Remainders(MatchLen(SavedToks, Input(p)))
        /\ torn' = \/ SavedTorn
                   \/ /\ MatchLen(SavedToks, Input(p)) = Len(Input(p))
                      /\ Len(SavedToks) > Len(Input(p))
                   \/ Len(kv') > MatchLen(SavedToks, Input(p))
    BY <1>4 DEF Run, Refused, output
  <2>3. ~anti /\ answer = <<>>
    BY <1>1, <2>2 DEF IInv, Idle
  <2>4. /\ CommittedText' = CommittedText /\ CommittedText = SavedToks
        /\ SavedToks \in Seq(Vocab)
    BY <1>1, <2>2, TextIs, BeforeType DEF SavedToks
  <2>5. /\ BeginsWithBos(inp') /\ inp' \in Seq(Vocab)
        /\ phase = "ingest" => inp' = Wanted
        /\ phase = "generate" /\ CommittedText # <<>> => inp' = CommittedText
    BY <1>1, <2>2, InputBegins DEF Wanted
  <2>6. /\ Len(SavedToks) \in Nat /\ Len(inp') \in Nat /\ ~(Len(SavedToks) > Len(inp'))
        /\ MatchLen(SavedToks, Input(p)) = Len(SavedToks)
    <3>1. StartsWith(inp', SavedToks)
      <4>1. CASE phase = "ingest"
        BY <2>4, <2>5, <4>1 DEF CInv, WhileIngesting, StartsWith, Log!StartsWith
      <4>2. CASE phase = "generate" /\ CommittedText # <<>>
        BY <2>4, <2>5, <4>2, StartsWithItself DEF StartsWith
      <4>3. CASE phase = "generate" /\ CommittedText = <<>>
        BY <2>4, <2>5, <4>3, StartsWithAll
      <4> QED BY <4>1, <4>2, <4>3
    <3>2. MatchLen(SavedToks, inp') = Len(SavedToks)
      BY <2>4, <2>5, <3>1, StartsMatch
    <3> QED BY <2>2, <2>4, <2>5, <3>1, <3>2, LenProperties DEF StartsWith, Log!StartsWith
  <2>7. ~torn'
    <3>1. SavedKv = SavedToks
      BY <1>1 DEF FilesWhole, SavedTornOf, IInv, Sound, SavedKv, SavedToks, SavedToksOf
    <3>2. kv' = SavedKv
      <4>1. Least(Len(SavedToks), Len(SavedKv)) = Len(SavedKv)
        BY <2>6, <3>1 DEF Least
      <4>2. Prefix(SavedKv, Len(SavedKv)) = SavedKv
        BY <2>4, <3>1, PrefixFull
      <4> QED BY <2>2, <2>6, <4>1, <4>2 DEF Remainders
    <3>3. ~(Len(kv') > MatchLen(SavedToks, Input(p)))
      BY <2>6, <3>1, <3>2
    <3> QED BY <1>1, <2>2, <2>6, <3>3 DEF FilesWhole, SavedTorn, SavedTornOf
  <2>8. FilesWhole'
    BY <1>1, <2>2, <2>4 DEF FilesWhole, SavedTornOf, BeginsWithBos
  <2>9. InCall'
    BY <1>1, <2>2, <2>3, <2>5, <2>7 DEF InCall, BeginsWithBos
  <2>10. (phase = "ingest" => WhileIngesting)'
    <3> SUFFICES ASSUME phase = "ingest" PROVE WhileIngesting'
      BY <1>1
    <3>1. InIngestion'
      BY <1>1, <2>2, <2>3, <2>5 DEF InIngestion
    <3> QED BY <1>1, <2>2, <2>4, <3>1
            DEF CInv, WhileIngesting, StartsWith, Log!StartsWith
  <2>11. (phase = "generate" => WhileGenerating)'
    BY <1>1, <2>2, <2>4, <2>5 DEF WhileGenerating
  <2>12. (phase \in {"generate", "over"} /\ ~lost => StartsWith(CommittedText, Wanted))'
    BY <1>1, <2>4 DEF CInv, StartsWith, Log!StartsWith
  <2> QED BY <1>1, <1>2, <2>1, <2>2, <2>8, <2>9, <2>10, <2>11, <2>12 DEF CInv
<1> QED BY <1>3, <1>4 DEF Asks

LEMMA SameState ==
  ASSUME UNCHANGED vars
  PROVE  /\ UNCHANGED <<file, undo, budget, pc, reply>>
         /\ CommittedText' = CommittedText /\ FilesWhole' = FilesWhole
         /\ IInv => IInv'
<1>1. IInv => IInv'
  BY NextKeeps
<1> QED BY <1>1 DEF vars, CommittedText, FilesWhole, SavedTornOf, BeginsWithBos

LEMMA ReadIngestedKeeps ==
  ASSUME CInv, ReadIngested
  PROVE  CInv'
<1>1. /\ phase = "ingest" /\ asked /\ pc = "idle" /\ asked' = FALSE
      /\ phase' = IF reply.ok /\ reply.remaining = 0 THEN "generate" ELSE "ingest"
      /\ lost' = (file = NoFile)
      /\ UNCHANGED <<vars, said, faults, chat, turn>>
  BY DEF ReadIngested, Answered
<1>2. /\ UNCHANGED <<file, undo, budget, pc, reply>>
      /\ CommittedText' = CommittedText /\ FilesWhole' /\ IInv'
  BY <1>1, SameState DEF CInv
<1>3. /\ ClientTypeOK' /\ Wanted' = Wanted /\ ClientTypeOK /\ chat # <<>>
      /\ Wanted \in Seq(Vocab)
  BY <1>1, WantedType DEF CInv, ClientTypeOK, Wanted, Tokenize
<1>4. (phase = "ingest" => WhileIngesting)'
  BY <1>1, <1>2, <1>3 DEF CInv, WhileIngesting, StartsWith, Log!StartsWith
<1>5. (phase = "generate" => WhileGenerating)'
  BY <1>1, <1>2 DEF WhileGenerating
<1>6. (phase \in {"generate", "over"} /\ ~lost => StartsWith(CommittedText, Wanted))'
  <2> SUFFICES ASSUME reply.ok, reply.remaining = 0, file # NoFile
               PROVE  StartsWith(CommittedText, Wanted)
    BY <1>1, <1>2, <1>3 DEF StartsWith, Log!StartsWith
  <2>1. file.toks = Wanted
    BY <1>1 DEF CInv, WhileIngesting
  <2>2. CommittedText = Wanted
    BY <1>1, <2>1, TextIs DEF SavedToks, SavedToksOf
  <2> QED BY <1>3, <2>2, StartsWithAll
<1> QED BY <1>1, <1>2, <1>3, <1>4, <1>5, <1>6 DEF CInv

LEMMA ReadGeneratedKeeps ==
  ASSUME CInv, ReadGenerated
  PROVE  CInv'
<1>1. /\ phase = "generate" /\ pc = "idle" /\ asked' = FALSE
      /\ UNCHANGED <<vars, said, faults, phase, chat, turn, lost>>
  BY DEF ReadGenerated, Answered
<1>2. /\ UNCHANGED <<file, undo, budget, pc, reply>>
      /\ CommittedText' = CommittedText /\ FilesWhole' /\ IInv'
  BY <1>1, SameState DEF CInv
<1>3. ClientTypeOK' /\ Wanted' = Wanted
  BY <1>1 DEF CInv, ClientTypeOK, Wanted, Tokenize
<1>4. (phase = "generate" => WhileGenerating)'
  BY <1>1, <1>2 DEF WhileGenerating
<1> QED BY <1>1, <1>2, <1>3, <1>4 DEF CInv, StartsWith, Log!StartsWith

\* The next prompt is what was said and the next turn of the user.
LEMMA NextPrompt ==
  ASSUME NEW s \in Seq(Vocab), BeginsWithBos(s)
  PROVE  /\ WithoutBos(s) \o UserTurn \in Seq(Vocab) \ {<<>>}
         /\ Tokenize(WithoutBos(s) \o UserTurn) = s \o UserTurn
<1>1. /\ UserTurn \in Seq(Vocab) /\ UserTurn # <<>> /\ <<Bos>> \in Seq(Vocab)
      /\ Len(UserTurn) \in Nat \ {0} /\ Len(s) \in Nat
  BY ConversationAssumption, TokenAssumption, EmptySeq
<1>2. WithoutBos(s) \in Seq(Vocab) /\ (AddBos => <<Bos>> \o WithoutBos(s) = s)
  <2>1. CASE AddBos
    <3>1. s # <<>> /\ s[1] = Bos /\ Len(s) # 0
      BY <1>1, <2>1, EmptySeq DEF BeginsWithBos
    <3>2. /\ 1 \in Nat /\ 1 <= Len(s) /\ WithoutBos(s) = SubSeq(s, 2, Len(s))
      BY <1>1, <2>1, <3>1 DEF WithoutBos, From
    <3>3. WithoutBos(s) \in Seq(Vocab)
      BY <1>1, <3>2, Piece
    <3>4. /\ Prefix(s, 1) \in Seq(Vocab) /\ Len(Prefix(s, 1)) = 1
          /\ Prefix(s, 1)[1] = s[1]
      <4>1. /\ Prefix(s, 1) \in Seq(Vocab) /\ Len(Prefix(s, 1)) = 1
            /\ \A k \in 1 .. 1 : Prefix(s, 1)[k] = s[k]
        <5> HIDE DEF Prefix
        <5> QED BY <3>2, PrefixOf
      <4> QED BY <4>1
    <3>5. Prefix(s, 1) = <<Bos>>
      <4>1. Len(<<Bos>>) = 1 /\ <<Bos>>[1] = Bos
        OBVIOUS
      <4>2. \A i \in 1 .. 1 : Prefix(s, 1)[i] = <<Bos>>[i]
        BY <3>1, <3>4, <4>1
      <4> QED BY <1>1, <3>4, <4>1, <4>2, SeqEqual
    <3>6. Prefix(s, 1) \o SubSeq(s, 1 + 1, Len(s)) = Prefix(s, Len(s))
      BY <1>1, <3>2, PrefixGrows
    <3> QED BY <3>2, <3>3, <3>5, <3>6, PrefixFull
  <2>2. CASE ~AddBos
    BY <2>2 DEF WithoutBos
  <2> QED BY <2>1, <2>2
<1>3. /\ WithoutBos(s) \o UserTurn \in Seq(Vocab)
      /\ Len(WithoutBos(s) \o UserTurn) = Len(WithoutBos(s)) + Len(UserTurn)
      /\ Len(WithoutBos(s)) \in Nat
  BY <1>1, <1>2, ConcatProperties, LenProperties
<1>4. WithoutBos(s) \o UserTurn # <<>>
  <2>1. Len(WithoutBos(s) \o UserTurn) # 0
    BY <1>1, <1>3
  <2> QED BY <1>3, <2>1, EmptySeq
<1>5. <<Bos>> \o (WithoutBos(s) \o UserTurn) = (<<Bos>> \o WithoutBos(s)) \o UserTurn
  BY <1>1, <1>2, ConcatAssociative
<1>6. Tokenize(WithoutBos(s) \o UserTurn) = s \o UserTurn
  <2>1. CASE AddBos
    BY <1>2, <1>5, <2>1 DEF Tokenize
  <2>2. CASE ~AddBos
    BY <2>2 DEF Tokenize, WithoutBos
  <2> QED BY <2>1, <2>2
<1> QED BY <1>3, <1>4, <1>6

LEMMA ReadEndKeeps ==
  ASSUME CInv, ReadEnd
  PROVE  CInv'
<1>1. /\ phase = "generate" /\ asked /\ pc = "idle" /\ reply.ok /\ asked' = FALSE
      /\ UNCHANGED <<vars, said, faults, lost>>
  BY DEF ReadEnd, Answered
<1>2. /\ UNCHANGED <<file, undo, budget, pc, reply>>
      /\ CommittedText' = CommittedText /\ FilesWhole' /\ IInv'
  BY <1>1, SameState DEF CInv
<1>3. /\ BeginsWithBos(said) /\ said \in Seq(Vocab)
      /\ CommittedText = said \/ (CommittedText = <<>> /\ faults > 0)
  BY <1>1 DEF CInv, WhileGenerating, ClientTypeOK
<1>4. CASE turn < MaxTurns
  <2>1. phase' = "ingest" /\ turn' = turn + 1 /\ chat' = WithoutBos(said) \o UserTurn
    BY <1>4 DEF ReadEnd
  <2>2. /\ chat' \in Seq(Vocab) /\ chat' # <<>> /\ Wanted' = said \o UserTurn
    BY <1>3, <2>1, NextPrompt DEF Wanted, Tokenize
  <2>3. ClientTypeOK'
    <3>1. turn' \in 1 .. MaxTurns
      BY <1>4, <2>1, ConversationAssumption DEF CInv, ClientTypeOK
    <3> QED BY <1>1, <2>1, <2>2, <3>1 DEF CInv, ClientTypeOK
  <2>4. StartsWith(said \o UserTurn, CommittedText)
    <3>1. StartsWith(said \o UserTurn, said) /\ said \o UserTurn \in Seq(Vocab)
      BY <1>3, ConcatStarts, ConcatProperties, ConversationAssumption DEF StartsWith
    <3> QED BY <1>3, <3>1, StartsWithAll
  <2>5. faults = 0 => Len(said \o UserTurn) <= Len(CommittedText) + Len(UserTurn)
    <3> SUFFICES ASSUME faults = 0
                 PROVE  Len(said \o UserTurn) <= Len(CommittedText) + Len(UserTurn)
      OBVIOUS
    <3>1. CommittedText = said
      BY <1>3
    <3>2. /\ Len(said \o UserTurn) = Len(said) + Len(UserTurn)
          /\ Len(said) \in Nat /\ Len(UserTurn) \in Nat
      BY <1>3, ConcatProperties, LenProperties, ConversationAssumption
    <3> QED BY <3>1, <3>2
  <2>6. WhileIngesting'
    BY <1>1, <1>2, <2>2, <2>4, <2>5 DEF WhileIngesting, StartsWith, Log!StartsWith
  <2> QED BY <1>1, <1>2, <2>1, <2>2, <2>3, <2>6 DEF CInv
<1>5. CASE ~(turn < MaxTurns)
  <2>1. phase' = "over" /\ UNCHANGED <<chat, turn>>
    BY <1>5 DEF ReadEnd
  <2>2. ClientTypeOK' /\ Wanted' = Wanted
    BY <1>1, <2>1 DEF CInv, ClientTypeOK, Wanted, Tokenize
  <2> QED BY <1>1, <1>2, <2>1, <2>2 DEF CInv, StartsWith, Log!StartsWith
<1> QED BY <1>4, <1>5

LEMMA SetupKeeps ==
  ASSUME CInv, Setup
  PROVE  CInv'
<1>1. PICK n \in Budgets \ {0} : SetMaxTokens(n, 0)
  BY DEF Setup
<1>2. /\ phase = "setup" /\ phase' = "ingest"
      /\ UNCHANGED <<chat, said, turn, asked, lost, faults>>
      /\ pc = "idle" /\ pc' = "idle" /\ file' = file /\ undo' = undo
      /\ ~asked /\ turn = 1 /\ CommittedText = <<>>
  BY <1>1 DEF Setup, SetMaxTokens, CInv
<1>3. CommittedText' = CommittedText
  BY <1>2 DEF CommittedText
<1>4. IInv'
  <2>1. Admin
    BY <1>1, SizeAssumption DEF Admin
  <2> QED BY <2>1, AdminKeeps DEF CInv
<1>5. /\ ClientTypeOK' /\ Wanted' = Wanted /\ ClientTypeOK /\ chat # <<>>
      /\ Wanted \in Seq(Vocab)
  BY <1>2, WantedType DEF CInv, ClientTypeOK, Wanted, Tokenize
<1>6. FilesWhole'
  BY <1>2, <1>3 DEF CInv, FilesWhole, SavedTornOf, BeginsWithBos
<1>7. WhileIngesting'
  <2>1. StartsWith(Wanted, <<>>)
    BY <1>5, StartsWithAll
  <2> QED BY <1>2, <1>3, <1>5, <2>1 DEF WhileIngesting, StartsWith, Log!StartsWith
<1> QED BY <1>2, <1>4, <1>5, <1>6, <1>7 DEF CInv

LEMMA CInitHolds == CInit => CInv
<1> SUFFICES ASSUME CInit PROVE CInv
  OBVIOUS
<1>1. IInv
  BY InitHolds DEF CInit
<1>2. CommittedText = <<>> /\ file = NoFile /\ undo = NoFile /\ pc = "idle"
  BY DEF CInit, Init, CommittedText, SavedToksOf
<1>3. ClientTypeOK /\ chat # <<>>
  <2>1. chat \in Seq(Vocab) /\ chat # <<>> /\ said \in Seq(Vocab)
    BY ConversationAssumption, EmptySeq DEF CInit
  <2>2. turn \in 1 .. MaxTurns /\ faults \in 0 .. MaxFaults
    BY ConversationAssumption DEF CInit
  <2> QED BY <2>1, <2>2 DEF CInit, ClientTypeOK
<1>4. FilesWhole
  BY <1>2 DEF FilesWhole, SavedTornOf
<1> QED BY <1>1, <1>2, <1>3, <1>4 DEF CInv, CInit

LEMMA CNextKeeps ==
  ASSUME Plain, CInv, [CNext]_cvars
  PROVE  CInv'
<1>1. CASE Setup
  BY <1>1, SetupKeeps
<1>2. CASE AskPrompt
  BY <1>2, AskKeeps DEF AskPrompt, CInv, ClientTypeOK
<1>3. CASE AskMore
  BY <1>3, AskKeeps, EmptySeq, ConversationAssumption DEF AskMore
<1>4. CASE ReadIngested
  BY <1>4, ReadIngestedKeeps
<1>5. CASE ReadGenerated
  BY <1>5, ReadGeneratedKeeps
<1>6. CASE ReadEnd
  BY <1>6, ReadEndKeeps
<1>7. CASE Canister
  <2>1. CASE Inner
    <3>1. pc # "end"
      BY <2>1, InnerFrame DEF CInv
    <3> QED BY <1>7, <2>1, <3>1, InnerKeeps DEF Canister
  <2>2. CASE Finish
    <3>1. pc = "end"
      BY <2>2 DEF Finish, Ends
    <3> QED BY <1>7, <2>2, <3>1, FinishKeeps DEF Canister
  <2> QED BY <1>7, <2>1, <2>2 DEF Canister, Step, Inner
<1>8. CASE Fault
  <2>1. faults' \in 1 .. MaxFaults
    BY <1>8, ConversationAssumption DEF Fault, CInv, ClientTypeOK
  <2>2. CASE Failure /\ UNCHANGED client
    BY <1>8, <2>1, <2>2, FailureKeeps DEF Fault
  <2>3. CASE /\ LoseFile
             /\ lost' = (lost \/ phase = "generate")
             /\ UNCHANGED <<phase, chat, turn, asked>>
    BY <1>8, <2>1, <2>3, LoseKeeps DEF Fault
  <2> QED BY <1>8, <2>2, <2>3 DEF Fault
<1>9. CASE UNCHANGED cvars
  <2>1. UNCHANGED vars /\ UNCHANGED <<phase, chat, said, turn, asked, faults, lost>>
    BY <1>9 DEF cvars, client
  <2>2. /\ UNCHANGED <<file, undo, budget, pc, reply>>
        /\ CommittedText' = CommittedText /\ FilesWhole' /\ IInv'
    BY <2>1, SameState DEF CInv
  <2>3. UNCHANGED <<query, inp, sess, nConsumed, nRemain, anti, path, torn, answer>>
    BY <2>1 DEF vars, locals, counters, output
  <2>4. InCall' = InCall /\ Wanted' = Wanted
    BY <2>1, <2>2, <2>3 DEF InCall, BeginsWithBos, Wanted, Tokenize
  <2>5. InIngestion' = InIngestion
    BY <2>2, <2>3, <2>4 DEF InIngestion
  <2>6. WhileIngesting' = WhileIngesting
    BY <2>1, <2>2, <2>4, <2>5 DEF WhileIngesting, StartsWith, Log!StartsWith
  <2>7. WhileGenerating' = WhileGenerating
    BY <2>1, <2>2, <2>3 DEF WhileGenerating, BeginsWithBos
  <2> QED BY <2>1, <2>2, <2>4, <2>6, <2>7
          DEF CInv, ClientTypeOK, StartsWith, Log!StartsWith
<1> QED BY <1>1, <1>2, <1>3, <1>4, <1>5, <1>6, <1>7, <1>8, <1>9 DEF CNext, Caller, Stop

\* The inductive invariant.
THEOREM ConversationInvariant == Plain => (CSpec => []CInv)
<1>1. SUFFICES ASSUME Plain PROVE CSpec => []CInv
  OBVIOUS
<1>2. CInit => CInv
  BY CInitHolds
<1>3. CInv /\ [CNext]_cvars => CInv'
  BY <1>1, CNextKeeps
<1> QED BY <1>2, <1>3, PTL DEF CSpec

-----------------------------------------------------------------------------
(* What the caller relies on *)

\* Unless the file was lost, what the caller gets generated is the answer to its
\* whole prompt, through traps, failed decodes and answers that got lost.
THEOREM AnswersThePrompt == Plain => (CSpec => []AnswerContinuesPrompt)
<1>1. CInv => AnswerContinuesPrompt
  <2> SUFFICES ASSUME CInv, phase \in {"generate", "over"}, ~lost
               PROVE  /\ file # NoFile
                      /\ Prefix(file.toks, Least(Len(file.toks), Len(Wanted))) = Wanted
    BY DEF AnswerContinuesPrompt, Wanted
  <2>1. /\ StartsWith(CommittedText, Wanted) /\ Wanted \in Seq(Vocab) /\ Wanted # <<>>
        /\ CommittedText \in Seq(Vocab) /\ Len(Wanted) \in Nat \ {0}
    BY WantedType, TextType, EmptySeq DEF CInv, IInv
  <2>2. /\ Len(Wanted) <= Len(CommittedText) /\ Len(CommittedText) \in Nat
        /\ Prefix(CommittedText, Len(Wanted)) = Wanted
    BY <2>1, LenProperties DEF StartsWith, Log!StartsWith, Prefix
  <2>3. CommittedText # <<>>
    BY <2>1, <2>2, EmptySeq
  <2>4. file # NoFile /\ file.toks = CommittedText
    <3>1. CASE pc = "idle"
      BY <2>3, <3>1, TextIs DEF SavedToks, SavedToksOf
    <3>2. CASE pc # "idle"
      <4>1. inp = Before /\ CommittedText = Before /\ EarlySaved /\ TypeOK /\ Opening
        BY <2>3, <3>2, TextIs, AlwaysEarlySaved, Numbers DEF CInv, WhileGenerating
      <4>2. nMatch = Len(inp) /\ Len(inp) \in Nat
        BY <4>1, WholeSession, OpeningFacts
      <4>3. file = undo
        BY <4>1, <4>2 DEF EarlySaved
      <4> QED BY <2>3, <4>1, <4>3 DEF Before, SavedToksOf
    <3> QED BY <3>1, <3>2
  <2> QED BY <2>1, <2>2, <2>4 DEF Least
<1> QED BY <1>1, ConversationInvariant, PTL

\* When the caller is told that its prompt is ingested, the saved session is
\* that prompt, token for token.
THEOREM IngestsExactly == Plain => (CSpec => IngestedExactly)
<1>1. ASSUME CInv, ReadIngested, phase' = "generate", file # NoFile
      PROVE  file.toks = Tokenize(chat)
  <2>1. phase = "ingest" /\ asked /\ pc = "idle" /\ reply.ok /\ reply.remaining = 0
    BY <1>1 DEF ReadIngested, Answered
  <2> QED BY <1>1, <2>1 DEF CInv, WhileIngesting, Wanted
<1>2. CInv /\ [CNext]_cvars =>
        [ReadIngested /\ phase' = "generate" /\ file # NoFile
           => file.toks = Tokenize(chat)]_cvars
  BY <1>1
<1> QED BY <1>2, ConversationInvariant, PTL DEF CSpec, IngestedExactly

\* Without faults a call of a later turn decodes no more than that turn.
THEOREM LaterTurnsAreCached == Plain => (CSpec => NextTurnIsCached)
<1>1. ASSUME CInv, AskPrompt, pc' # "idle", faults = 0, turn > 1
      PROVE  nMatch' >= Len(Tokenize(chat)) - Len(UserTurn)
  <2>1. /\ phase = "ingest" /\ Run(chat, 1, FALSE) /\ pc = "idle" /\ chat # <<>>
        /\ TypeOK /\ chat \in Seq(Vocab)
    BY <1>1 DEF AskPrompt, Asks, RunRefused, Run, CInv, IInv, ClientTypeOK
  <2>2. nMatch' = MatchLen(SavedToks, Wanted)
    BY <2>1 DEF Run, Input, Wanted
  <2>3. /\ StartsWith(Wanted, SavedToks) /\ SavedToks \in Seq(Vocab)
        /\ Wanted \in Seq(Vocab) /\ Len(Wanted) <= Len(SavedToks) + Len(UserTurn)
    BY <1>1, <2>1, TextIs, TextType, WantedType DEF CInv, WhileIngesting
  <2>4. nMatch' = Len(SavedToks)
    BY <2>2, <2>3, StartsMatch
  <2>5. /\ Len(Wanted) \in Nat /\ Len(SavedToks) \in Nat /\ Len(UserTurn) \in Nat
    BY <2>3, LenProperties, ConversationAssumption
  <2> QED BY <2>3, <2>4, <2>5 DEF Wanted
<1>2. CInv /\ [CNext]_cvars =>
        [AskPrompt /\ pc' # "idle" /\ faults = 0 /\ turn > 1
           => nMatch' >= Len(Tokenize(chat)) - Len(UserTurn)]_cvars
  BY <1>1
<1> QED BY <1>2, ConversationInvariant, PTL DEF CSpec, NextTurnIsCached

\* The KV cache of the caller's session is always that of its tokens, even when
\* nothing can be removed from the memory of the model.
THEOREM CachesStayWhole == Plain => (CSpec => []CacheIsWhole)
<1>1. CInv => CacheIsWhole
  BY DEF CInv, FilesWhole, SavedTornOf, IInv, Sound, CacheIsWhole
<1> QED BY <1>1, ConversationInvariant, PTL
=============================================================================
