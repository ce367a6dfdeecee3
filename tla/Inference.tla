----------------------------- MODULE Inference -----------------------------
(***************************************************************************)
(* One call of run_update or run_query on one prompt cache: the loop of    *)
(* main_() that spreads the ingestion of a prompt, and then the generation *)
(* of an answer, over many calls of at most max_tokens decoded tokens.     *)
(*                                                                         *)
(* Nothing but the session file carries state from one call to the next:   *)
(* a call restores the KV cache and the session tokens from the file,      *)
(* skips what they share with its prompt, decodes some more, and saves.    *)
(*                                                                         *)
(* A call takes several steps here, one per block of the loop, because it  *)
(* can end inside any of them: the Internet Computer traps a call that     *)
(* runs out of instructions and undoes what it wrote, while a decode that  *)
(* fails returns an error and keeps what it wrote.  Calls do not           *)
(* interleave.                                                             *)
(*                                                                         *)
(* Tokens are values; texts are token sequences.  A reverse prompt is one  *)
(* token.  Interactive mode, encoders and Self-Extend are left out: a      *)
(* canister has no console, and main_ switches conversation mode off.      *)
(***************************************************************************)
EXTENDS Integers, Sequences, FiniteSets

CONSTANTS
  Vocab,             \* tokens
  Bos, Eog,          \* beginning of sequence, end of generation
  Samples,           \* tokens the sampler can return
  AddBos,            \* whether the vocabulary asks for a Bos
  NCtx,              \* --ctx-size
  NBatch,            \* --batch-size of the context
  CtxShift,          \* --context-shift
  Recurrent,         \* the memory of the model is recurrent, or in part
  Prompts,           \* prompts a caller sends (the empty one continues)
  NPredicts,         \* values of -n
  ReversePrompts,    \* tokens given with --reverse-prompt
  Budgets,           \* values of max_tokens, 0 is no limit
  InstructionLimit,  \* tokens the IC lets one call decode
  Word,              \* 2^64
  NoFile

ASSUME TokenAssumption ==
  /\ Bos \in Vocab /\ Eog \in Vocab
  /\ Samples \subseteq Vocab /\ ReversePrompts \subseteq Vocab
  /\ Prompts \subseteq Seq(Vocab)
ASSUME SizeAssumption ==
  /\ NCtx \in Nat /\ NCtx > 4
  /\ NBatch \in Nat \ {0}
  /\ NPredicts \subseteq Int /\ Budgets \subseteq Nat /\ 0 \in Budgets
  /\ InstructionLimit \in Nat
  /\ Word \in Nat /\ NCtx < Word /\ InstructionLimit < Word
ASSUME FlagAssumption ==
  AddBos \in BOOLEAN /\ CtxShift \in BOOLEAN /\ Recurrent \in BOOLEAN

VARIABLES
  file,       \* the session file: its tokens, its KV cache, and (history)
              \* whether some call took a step that parts the two
  undo,       \* the file when the call began, restored if it traps
  budget,     \* max_tokens_update and max_tokens_query
  pc,         \* where main_ is
  query,      \* run_query rather than run_update
  inp,        \* embd_inp
  nMatch,     \* n_matching_session_tokens
  sess,       \* session_tokens
  kv,         \* the tokens in the context's memory, by position
  embd,       \* the tokens about to be decoded
  nPast, nSess, nConsumed, nRemain, nEval,
  eog,        \* generated_eog
  anti,       \* is_antiprompt
  needSave,   \* need_to_save_session
  path,       \* path_session is not empty
  echoed,     \* output_ss: prompt tokens taken for generated ones, which come
  answer,     \* first, and the tokens generated by this call
  torn,       \* history: as file.torn, for sess and kv
  cut,        \* history: a batch of this call was longer than a prompt may be
  reply       \* the record on the wire

counters == <<nPast, nSess, nConsumed, nRemain, nEval>>
output == <<echoed, answer>>
locals == <<query, inp, nMatch, sess, kv, embd, counters, eog, anti, needSave,
            path, torn, cut, output>>
vars == <<file, undo, budget, pc, locals, reply>>

Least(m, n) == IF m <= n THEN m ELSE n
Prefix(s, n) == SubSeq(s, 1, n)
From(s, n) == SubSeq(s, n, Len(s))

\* The length of the longest common prefix.
MatchLen(s, t) ==
  CHOOSE n \in 0 .. Least(Len(s), Len(t)) :
     /\ \A i \in 1 .. n : s[i] = t[i]
     /\ n < Least(Len(s), Len(t)) => s[n + 1] # t[n + 1]

\* common_tokenize
Tokenize(p) == IF AddBos THEN <<Bos>> \o p ELSE p

\* max_tokens of the call in progress
MaxTokens == IF query THEN budget.query ELSE budget.update

\* n_keep: --keep is 0, and a Bos is always kept.
NKeep == IF AddBos THEN 1 ELSE 0

Session == [toks : Seq(Vocab), kv : Seq(Vocab), torn : BOOLEAN]
ASSUME FileAssumption == NoFile \notin Session
Reply == [ok : BOOLEAN, eog : BOOLEAN, prompt : 0 .. Word - 1, cached : 0 .. Word - 1,
          decoded : 0 .. Word - 1,
          generated : 0 .. Word - 1, remaining : 0 .. Word - 1]
\* An error, or no reply yet.
NoReply == [ok |-> FALSE, eog |-> FALSE, prompt |-> 0, cached |-> 0, decoded |-> 0, generated |-> 0, remaining |-> 0]

TypeOK ==
  /\ file \in Session \cup {NoFile} /\ undo \in Session \cup {NoFile}
  /\ budget \in [update : Budgets, query : Budgets]
  /\ pc \in {"idle", "loop", "reuse", "decode", "feed", "end"}
  /\ query \in BOOLEAN
  /\ inp \in Seq(Vocab) /\ sess \in Seq(Vocab)
  /\ kv \in Seq(Vocab) /\ embd \in Seq(Vocab)
  /\ nMatch \in Nat /\ nPast \in Nat /\ nSess \in Nat
  /\ nConsumed \in Nat /\ nRemain \in Int /\ nEval \in Nat
  /\ eog \in BOOLEAN /\ anti \in BOOLEAN /\ needSave \in BOOLEAN /\ path \in BOOLEAN
  /\ torn \in BOOLEAN /\ cut \in BOOLEAN
  /\ echoed \in Seq(Vocab) /\ answer \in Seq(Vocab)
  /\ reply \in Reply

\* The locals of main_ are dead between calls.
NoLocals ==
  /\ query' = FALSE /\ inp' = <<>> /\ nMatch' = 0 /\ sess' = <<>> /\ kv' = <<>>
  /\ embd' = <<>> /\ nPast' = 0 /\ nSess' = 0 /\ nConsumed' = 0 /\ nRemain' = 0
  /\ nEval' = 0 /\ eog' = FALSE /\ anti' = FALSE /\ needSave' = FALSE
  /\ path' = FALSE /\ torn' = FALSE /\ cut' = FALSE /\ echoed' = <<>> /\ answer' = <<>>

Init ==
  /\ file = NoFile /\ undo = NoFile
  /\ budget = [update |-> 0, query |-> 0]
  /\ pc = "idle"
  /\ query = FALSE /\ inp = <<>> /\ nMatch = 0 /\ sess = <<>> /\ kv = <<>>
  /\ embd = <<>> /\ nPast = 0 /\ nSess = 0 /\ nConsumed = 0 /\ nRemain = 0
  /\ nEval = 0 /\ eog = FALSE /\ anti = FALSE /\ needSave = FALSE
  /\ path = FALSE /\ torn = FALSE /\ cut = FALSE /\ echoed = <<>> /\ answer = <<>>
  /\ reply = NoReply

-----------------------------------------------------------------------------
(* Between calls *)

\* set_max_tokens, by an admin
SetMaxTokens(u, q) ==
  /\ pc = "idle"
  /\ budget' = [update |-> u, query |-> q]
  /\ UNCHANGED <<file, undo, pc, locals, reply>>

\* An upgrade resets the budgets; the file stays.
Upgrade ==
  /\ pc = "idle"
  /\ budget' = [update |-> 0, query |-> 0]
  /\ UNCHANGED <<file, undo, pc, locals, reply>>

\* The file is removed: remove_prompt_cache, cleanup, or found stale.
LoseFile ==
  /\ pc = "idle" /\ file # NoFile
  /\ file' = NoFile
  /\ UNCHANGED <<undo, budget, pc, locals, reply>>

-----------------------------------------------------------------------------
(* The call *)

SavedToksOf(f) == IF f = NoFile THEN <<>> ELSE f.toks
SavedToks == SavedToksOf(file)
SavedKv == IF file = NoFile THEN <<>> ELSE file.kv
SavedTorn == file # NoFile /\ file.torn

\* Mutant: an empty prompt is a prompt.
InputAlwaysPrompt(p) == Tokenize(p)

\* An empty prompt continues the session, if there is one.
Input(p) == IF p = <<>> /\ SavedToks # <<>> THEN SavedToks ELSE Tokenize(p)

\* embd_inp is refused: it is empty, or too long and not the session itself.
Refused(p) ==
  \/ Input(p) = <<>>
  \/ Len(Input(p)) > NCtx - 4 /\ ~(p = <<>> /\ SavedToks # <<>>)

\* What llama_memory_seq_rm can leave of the memory of the session from position
\* n on: nothing, or, when the memory is recurrent and cannot be removed in part,
\* everything, of which main_ only warns.
Remainders(n) ==
  {Prefix(SavedKv, Least(n, Len(SavedKv)))}
    \cup {k \in {SavedKv} : Recurrent /\ n > 0}

\* run() up to the loop of main_.
Run(p, n, q) ==
  LET in == Input(p)
      match == MatchLen(SavedToks, in)
      again == match = Len(in) /\ Len(SavedToks) > Len(in)
  IN  /\ pc = "idle" /\ ~Refused(p)
      /\ pc' = "loop" /\ undo' = file /\ query' = q
      /\ inp' = in /\ nMatch' = match
      /\ kv' \in Remainders(match)
      /\ sess' = IF again THEN Prefix(SavedToks, Len(in) - 1) ELSE SavedToks
      /\ torn' = (SavedTorn \/ again \/ Len(kv') > match)
      /\ needSave' = (match < Len(in))
      /\ nRemain' = n /\ path' = TRUE
      /\ reply' = NoReply
      /\ UNCHANGED <<file, budget, embd, nPast, nSess, nConsumed, nEval, eog,
                     anti, cut, output>>

RunRefused(p) ==
  /\ pc = "idle" /\ Refused(p)
  /\ reply' = NoReply
  /\ UNCHANGED <<file, undo, budget, pc, locals>>

\* A call in progress runs out of instructions, or an assertion of llama.cpp
\* fails: the Internet Computer undoes what it wrote.
Trap ==
  /\ pc # "idle"
  /\ pc' = "idle" /\ file' = undo /\ undo' = NoFile
  /\ reply' = NoReply
  /\ NoLocals
  /\ UNCHANGED budget

-----------------------------------------------------------------------------
(* The loop *)

\* Mutant: -n is ignored.
LoopGoesOnWithoutEnd == ~anti
LoopGoesOn == nRemain # 0 /\ ~anti

LoopEnds ==
  /\ pc = "loop" /\ ~LoopGoesOn
  /\ pc' = "end"
  /\ UNCHANGED <<file, undo, budget, locals, reply>>

FirstPass ==
  /\ pc = "loop" /\ LoopGoesOn /\ embd = <<>>
  /\ pc' = "feed"
  /\ UNCHANGED <<file, undo, budget, locals, reply>>

\* embd is cut to what a prompt may hold.
TooLong == Len(embd) > NCtx - 4
Cut == Prefix(embd, Least(Len(embd), NCtx - 4))
\* Mutant: one token too many fits.
ContextFullLate == nPast + Len(Cut) > NCtx
ContextFull == nPast + Len(Cut) >= NCtx

StopAtFullContext ==
  /\ pc = "loop" /\ LoopGoesOn /\ embd # <<>>
  /\ ContextFull /\ (~CtxShift \/ nRemain = -2)
  /\ pc' = "end" /\ embd' = Cut
  /\ UNCHANGED <<file, undo, budget, query, inp, nMatch, sess, kv, counters, eog,
                 anti, needSave, path, torn, cut, output, reply>>

\* Mutant: the session path survives a context shift.
EnterPassKeepingPath ==
  LET nDiscard == (nPast - NKeep) \div 2
  IN  /\ pc = "loop" /\ LoopGoesOn /\ embd # <<>>
      /\ pc' = "reuse" /\ embd' = Cut
      /\ torn' = (torn \/ TooLong) /\ cut' = (cut \/ TooLong)
      /\ IF ContextFull
           THEN /\ CtxShift /\ nRemain # -2
                /\ kv' = Prefix(kv, Least(NKeep, Len(kv)))
                         \o From(kv, NKeep + nDiscard + 1)
                /\ nPast' = nPast - nDiscard
           ELSE UNCHANGED <<kv, nPast>>
      /\ UNCHANGED <<file, undo, budget, query, inp, nMatch, sess, nSess, nConsumed,
                     nRemain, nEval, eog, anti, needSave, path, output, reply>>

\* With a full context half of it is thrown away, and nothing of the call is
\* saved any more.
EnterPass ==
  LET nDiscard == (nPast - NKeep) \div 2
  IN  /\ pc = "loop" /\ LoopGoesOn /\ embd # <<>>
      /\ pc' = "reuse" /\ embd' = Cut
      /\ torn' = (torn \/ TooLong) /\ cut' = (cut \/ TooLong)
      /\ IF ContextFull
           THEN /\ CtxShift /\ nRemain # -2
                /\ kv' = Prefix(kv, Least(NKeep, Len(kv)))
                         \o From(kv, NKeep + nDiscard + 1)
                /\ nPast' = nPast - nDiscard
                /\ path' = FALSE
           ELSE UNCHANGED <<kv, nPast, path>>
      /\ UNCHANGED <<file, undo, budget, query, inp, nMatch, sess, nSess, nConsumed,
                     nRemain, nEval, eog, anti, needSave, output, reply>>

\* Mutant: the rest of a session that differs is kept.
ReuseKeepingRest ==
  LET k == MatchLen(embd, From(sess, nSess + 1))
  IN  /\ pc = "reuse"
      /\ pc' = "decode"
      /\ embd' = From(embd, k + 1)
      /\ nPast' = nPast + k /\ nSess' = nSess + k
      /\ UNCHANGED <<file, undo, budget, query, inp, nMatch, sess, kv, nConsumed,
                     nRemain, nEval, eog, anti, needSave, path, torn, cut, output,
                     reply>>

\* Tokens of embd that the session already holds are not decoded again; the
\* rest of the session is dropped at the first that differs.
Reuse ==
  LET k == MatchLen(embd, From(sess, nSess + 1))
  IN  /\ pc = "reuse"
      /\ pc' = "decode"
      /\ embd' = From(embd, k + 1)
      /\ sess' = IF k < Len(embd) /\ nSess + k < Len(sess)
                   THEN Prefix(sess, nSess + k) ELSE sess
      /\ nPast' = nPast + k /\ nSess' = nSess + k
      /\ UNCHANGED <<file, undo, budget, query, inp, nMatch, kv, nConsumed, nRemain,
                     nEval, eog, anti, needSave, path, torn, cut, output, reply>>

AllReused ==
  /\ pc = "decode" /\ embd = <<>>
  /\ pc' = "feed"
  /\ UNCHANGED <<file, undo, budget, locals, reply>>

\* The batch llama_decode gets: embd holds one batch at most, see OneBatch.
Chunk ==
  LET n == Least(Len(embd), NBatch)
  IN  IF MaxTokens > 0 /\ n >= MaxTokens THEN MaxTokens ELSE n

\* The memory has a cell for each token of the context: llama_decode finds one
\* for each token of the batch, or fails.
HasRoom == Len(kv) + Chunk <= NCtx

\* Mutant: the tokens decoded last are not appended when the budget is spent,
\* as upstream does without --prompt-cache-all.
DecodeForgettingLast ==
  LET ends == eog \/ (MaxTokens > 0 /\ nEval + Chunk >= MaxTokens)
  IN  /\ pc = "decode" /\ embd # <<>>
      /\ nEval + Chunk <= InstructionLimit /\ HasRoom
      /\ kv' = kv \o Prefix(embd, Chunk)
      /\ nPast' = nPast + Chunk /\ nEval' = nEval + Chunk
      /\ sess' = IF path /\ ~ends THEN sess \o embd ELSE sess
      /\ nSess' = IF path /\ ~ends THEN Len(sess') ELSE nSess
      /\ IF ends THEN pc' = "end" /\ UNCHANGED embd
                 ELSE pc' = "feed" /\ embd' = <<>>
      /\ UNCHANGED <<file, undo, budget, query, inp, nMatch, nConsumed, nRemain, eog,
                     anti, needSave, path, torn, cut, output, reply>>

\* Mutant: the budget may be overspent.
DecodeOverBudget ==
  /\ pc = "decode" /\ embd # <<>>
  /\ nEval + Chunk <= InstructionLimit /\ HasRoom
  /\ kv' = kv \o Prefix(embd, Chunk)
  /\ nPast' = nPast + Chunk /\ nEval' = nEval + Chunk
  /\ IF path
       THEN /\ sess' = sess \o Prefix(embd, Chunk)
            /\ nSess' = Len(sess')
       ELSE UNCHANGED <<sess, nSess>>
  /\ IF eog \/ (MaxTokens > 0 /\ nEval' > MaxTokens)
       THEN pc' = "end" /\ UNCHANGED embd
       ELSE pc' = "feed" /\ embd' = <<>>
  /\ UNCHANGED <<file, undo, budget, query, inp, nMatch, nConsumed, nRemain, eog,
                 anti, needSave, path, torn, cut, output, reply>>

\* llama.cpp appends the tokens of a batch without positions to the memory.
\* The loop is left when the budget is spent, or the end of generation stored.
Decode ==
  /\ pc = "decode" /\ embd # <<>>
  /\ nEval + Chunk <= InstructionLimit /\ HasRoom
  /\ kv' = kv \o Prefix(embd, Chunk)
  /\ nPast' = nPast + Chunk /\ nEval' = nEval + Chunk
  /\ IF path
       THEN /\ sess' = sess \o Prefix(embd, Chunk)
            /\ nSess' = Len(sess')
       ELSE UNCHANGED <<sess, nSess>>
  /\ IF eog \/ (MaxTokens > 0 /\ nEval' >= MaxTokens)
       THEN pc' = "end" /\ UNCHANGED embd
       ELSE pc' = "feed" /\ embd' = <<>>
  /\ UNCHANGED <<file, undo, budget, query, inp, nMatch, nConsumed, nRemain, eog,
                 anti, needSave, path, torn, cut, output, reply>>

\* The call returns its error without the final save; an early save remains.
DecodeFails ==
  /\ pc = "decode" /\ embd # <<>>
  /\ pc' = "idle" /\ undo' = NoFile
  /\ file' = IF query THEN undo ELSE file
  /\ reply' = NoReply
  /\ NoLocals
  /\ UNCHANGED budget

-----------------------------------------------------------------------------
(* The next tokens *)

PromptConsumed == Len(inp) <= nConsumed

\* What the loop does with the tokens it will decode next: look for a reverse
\* prompt and for the end of generation.
Next_embd(toks, consumed) ==
  LET all == Len(inp) <= consumed
      last == toks[Len(toks)]
  IN  /\ embd' = toks
      /\ anti' = IF all /\ ReversePrompts # {} THEN last \in ReversePrompts ELSE anti
      /\ eog' = (eog \/ (all /\ last = Eog))

\* The session is saved before the first token is sampled.
Sample(t) ==
  /\ pc = "feed" /\ PromptConsumed
  /\ pc' = "loop"
  /\ IF path /\ needSave
       THEN file' = [toks |-> sess, kv |-> kv, torn |-> torn] /\ needSave' = FALSE
       ELSE UNCHANGED <<file, needSave>>
  /\ nRemain' = IF nRemain > 0 THEN nRemain - 1 ELSE nRemain
  /\ Next_embd(<<t>>, nConsumed)
  /\ answer' = Append(answer, t)
  /\ UNCHANGED <<undo, budget, query, inp, nMatch, sess, kv, nPast, nSess, nConsumed,
                 nEval, path, torn, cut, echoed, reply>>

\* Mutants: the fill loop ignores the batch, or the budget.
FillIgnoringBatch ==
  LET left == Len(inp) - nConsumed
      room == nMatch + MaxTokens - nConsumed
  IN  IF MaxTokens = 0 THEN left ELSE Least(left, IF room < 1 THEN 1 ELSE room)
FillIgnoringBudget == Least(Len(inp) - nConsumed, NBatch)

\* How many prompt tokens the fill loop forwards: its two breaks come after a
\* token was forwarded.
FillCount ==
  LET left == Len(inp) - nConsumed
      room == nMatch + MaxTokens - nConsumed
      most == Least(left, NBatch)
  IN  IF MaxTokens = 0 THEN most ELSE Least(most, IF room < 1 THEN 1 ELSE room)

\* Tokens are displayed as output when they come alone, wherever they come from.
Fill ==
  /\ pc = "feed" /\ ~PromptConsumed
  /\ pc' = "loop"
  /\ nConsumed' = nConsumed + FillCount
  /\ Next_embd(SubSeq(inp, nConsumed + 1, nConsumed + FillCount), nConsumed')
  /\ echoed' = IF FillCount = 1 THEN echoed \o embd' ELSE echoed
  /\ UNCHANGED <<file, undo, budget, query, inp, nMatch, sess, kv, nPast, nSess,
                 nRemain, nEval, needSave, path, torn, cut, answer, reply>>

-----------------------------------------------------------------------------
(* The end of the call *)

\* Mutant: the cached tokens count as decoded, and nothing wraps.
AccountingAllConsumed ==
  [ok |-> TRUE, eog |-> eog, prompt |-> Len(inp),
   cached |-> nMatch, decoded |-> nConsumed, generated |-> nEval - nConsumed,
   remaining |-> Len(inp) - nConsumed]

\* Token accounting, in unsigned 64-bit integers.
Accounting ==
  LET decoded == nConsumed - nMatch
  IN  [ok |-> TRUE, eog |-> eog, prompt |-> Len(inp) % Word,
       cached |-> nMatch % Word, decoded |-> decoded % Word,
       generated |-> (nEval - decoded) % Word,
       remaining |-> (Len(inp) - nConsumed) % Word]

\* Mutant: no final save, as upstream does without --prompt-cache-all.
FinishWithoutSave ==
  /\ pc = "end"
  /\ pc' = "idle" /\ undo' = NoFile
  /\ file' = IF query THEN undo ELSE file
  /\ reply' = Accounting
  /\ NoLocals
  /\ UNCHANGED budget

\* The loop was left before it came to where the prompt parts from the session:
\* the session tokens are all still there, and the memory was removed from there
\* on.  That is so with -n 0, or when the prompt ends with a reverse prompt and
\* its last batch was not looked at.
Uncompared == nSess < Len(sess) /\ nMatch < Len(sess)

\* The final save; what a query writes is thrown away.
Ends(r) ==
  /\ pc = "end"
  /\ pc' = "idle" /\ undo' = NoFile
  /\ file' = IF query THEN undo
             ELSE IF path
               THEN [toks |-> sess, kv |-> kv, torn |-> torn \/ Uncompared]
               ELSE file
  /\ reply' = r
  /\ NoLocals
  /\ UNCHANGED budget

Finish == Ends(Accounting)

\* The session is saved, and then the chat cannot be: an error is answered.
ChatSaveFails == Ends(NoReply)

-----------------------------------------------------------------------------

Admin == (\E u, q \in Budgets : SetMaxTokens(u, q)) \/ Upgrade

Call == \E p \in Prompts, n \in NPredicts, q \in BOOLEAN : Run(p, n, q)

Step ==
  \/ LoopEnds \/ FirstPass \/ StopAtFullContext \/ EnterPass
  \/ Reuse \/ AllReused \/ Decode
  \/ Fill \/ \E t \in Samples : Sample(t)
  \/ Finish

Failure == Trap \/ DecodeFails \/ ChatSaveFails

Next ==
  \/ Admin \/ LoseFile
  \/ Call \/ \E p \in Prompts : RunRefused(p)
  \/ Step \/ Failure

Spec == Init /\ [][Next]_vars
-----------------------------------------------------------------------------
(* Properties *)

\* The fill loop never gathers more than one batch, so that the chunk a call is
\* left in the middle of is the whole of embd (comments at main_.cpp:1081 and
\* main_.cpp:1160); a larger batch would trap in llama_decode.
OneBatch == Len(embd) <= NBatch

\* The tokens saved are the tokens of the KV cache saved with them, whichever
\* way the calls that built the file ended: a budget spent in the middle of a
\* prompt, an error after the early save, a trap, a divergent prompt that was
\* compared with the session.  Four steps of the code do part them, and a session
\* they touched is excluded (torn): tokens that a recurrent memory does not
\* remove (main_.cpp:636), a last token that is decoded twice (main_.cpp:651), a
\* batch that is cut (main_.cpp:896), and a loop left before a divergent session
\* is trimmed (Uncompared, main_.cpp:982).
KvIsSession == file # NoFile /\ ~file.torn => file.kv = file.toks

\* A saved session leaves room for a token, so that the next call can load it:
\* llama_state_load_file refuses more than n_ctx tokens.
FileFits == file # NoFile => Len(file.toks) < NCtx

\* A call decodes at most max_tokens tokens, prompt and answer together.
BudgetRespected == pc # "idle" /\ MaxTokens > 0 => nEval <= MaxTokens

\* A call of run_update that entered the loop, cut no batch, and ends in a saved
\* session.
Saves == Finish /\ path /\ ~query /\ nConsumed > 0 /\ ~cut

\* The loop ended at a reverse prompt that the prompt ends with: the tokens that
\* count as decoded were not decoded.
EndsAtReversePrompt == anti /\ answer = <<>>

\* The session went on after the prompt: its last token is decoded again, which
\* counts as generated (main_.cpp:1497).
DecodedAgain == IF nMatch = Len(inp) /\ Len(SavedToksOf(undo)) > Len(inp) THEN 1 ELSE 0

\* The counts on the wire describe the file: the first cached + decoded tokens
\* are the prompt's, and what follows was generated by this call.  Nothing is
\* generated while some of the prompt remains.
AccountingMatchesFile ==
  [][Saves /\ ~EndsAtReversePrompt =>
       LET n == reply'.cached + reply'.decoded
       IN  /\ n + reply'.generated = Len(file'.toks) + DecodedAgain
           /\ Prefix(file'.toks, n) = Prefix(inp, n)
           /\ reply'.remaining > 0 => reply'.generated = 0]_vars

\* While some of the prompt remains, a call that is sent it again spends its
\* whole budget on it: the next call reuses max_tokens tokens more.
IngestionAdvances ==
  [][Saves /\ reply'.remaining > 0 =>
       /\ MaxTokens > 0
       /\ file'.toks = Prefix(inp, MatchLen(SavedToksOf(undo), inp) + MaxTokens)]_vars

\* The output text is what the file got to hold as generated, if the session was
\* compared with the prompt.  Only when the loop ended because -n was used up, on
\* a reverse prompt or at a full context the last token shown is missing in the
\* file, and the next call samples it anew.  An end of generation is that of the
\* output, or of the prompt.  Without a budget of one, at most one prompt token is
\* shown as generated.
OutputMatchesFile ==
  [][Saves /\ ~Uncompared =>
       LET stored == From(file'.toks, reply'.cached + reply'.decoded + 1)
           seen == inp \o answer
       IN  /\ \/ answer = stored
              \/ /\ nRemain = 0 \/ anti \/ Len(file'.toks) = NCtx - 1
                 /\ answer = stored \o <<answer[Len(answer)]>>
           /\ reply'.eog => seen[Len(seen)] = Eog \/ inp[Len(inp)] = Eog
           /\ MaxTokens # 1 /\ NBatch > 1 => Len(echoed) <= 1]_vars

\* The counts on the wire add up, so that none of them is a negative number cast
\* to 64 bits (comment at main_.cpp:1490), in all but two cases: the loop was
\* never entered, or the prompt ends with a reverse prompt, which ends the loop
\* before the tokens counted as decoded are.
CountsAddUp ==
  [][Finish => \/ nConsumed = 0
               \/ EndsAtReversePrompt
               \/ /\ reply'.cached + reply'.decoded + reply'.remaining = reply'.prompt
                  /\ reply'.decoded + reply'.generated = nEval]_vars

\* What the calls do to the text of the session, step for step.
CommittedText == SavedToksOf(IF pc = "idle" THEN file ELSE undo)
Log == INSTANCE SessionLog WITH text <- CommittedText, input <- inp,
         Inputs <- {Tokenize(p) : p \in Prompts}, Limit <- NCtx
LogSpec == Log!Spec

=============================================================================
