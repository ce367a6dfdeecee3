---------------------------- MODULE Conversation ----------------------------
(***************************************************************************)
(* A caller that follows the README against run_update: it sends its       *)
(* prompt with -n 1 until nothing of it remains, then an empty prompt      *)
(* until the end of generation, and starts the next turn with the whole    *)
(* conversation so far as its prompt.  An error makes it repeat the call.  *)
(*                                                                         *)
(* Calls can trap or fail, and the session file can disappear between two  *)
(* of them, MaxFaults times in all.                                        *)
(***************************************************************************)
EXTENDS Inference

CONSTANTS
  UserTurn,   \* what the user says, in every turn
  MaxTurns,   \* turns of the conversation
  NGenerate,  \* -n while generating
  MaxFaults   \* traps, failed decodes and lost files

ASSUME ConversationAssumption ==
  /\ UserTurn \in Seq(Vocab) \ {<<>>}
  /\ MaxTurns \in Nat \ {0} /\ MaxFaults \in Nat
  /\ NGenerate \in Int \ {0, 1}

VARIABLES
  phase,   \* "setup", "ingest", "generate" or "over"
  chat,    \* the conversation so far and the user's turn: the prompt
  said,    \* the conversation of the last reply, as tokens
  turn,
  asked,   \* a call was made and its reply not read
  faults,  \* faults so far
  lost     \* history: the file disappeared in the generation of this turn

client == <<phase, chat, turn, asked, lost>>
cvars == <<vars, client, said, faults>>

ClientTypeOK ==
  /\ phase \in {"setup", "ingest", "generate", "over"}
  /\ chat \in Seq(Vocab) /\ said \in Seq(Vocab)
  /\ turn \in 1 .. MaxTurns
  /\ asked \in BOOLEAN /\ lost \in BOOLEAN
  /\ faults \in 0 .. MaxFaults

CInit ==
  /\ Init
  /\ phase = "setup" /\ chat = UserTurn /\ said = <<>> /\ turn = 1
  /\ asked = FALSE /\ faults = 0 /\ lost = FALSE

\* The admin sets a budget the instruction limit allows.
Setup ==
  /\ phase = "setup"
  /\ \E n \in Budgets \ {0} : n <= InstructionLimit /\ SetMaxTokens(n, 0)
  /\ phase' = "ingest"
  /\ UNCHANGED <<chat, said, turn, asked, lost, faults>>

Asks(p, n) ==
  /\ ~asked /\ asked' = TRUE
  /\ Run(p, n, FALSE) \/ RunRefused(p)
  /\ UNCHANGED <<phase, chat, said, turn, faults, lost>>

AskPrompt == phase = "ingest" /\ Asks(chat, 1)
AskMore == phase = "generate" /\ Asks(<<>>, NGenerate)

\* conversation_ss: the tokens a call reused or decoded, without the Bos.
Conversed == Prefix(sess, nSess)
WithoutBos(s) == IF AddBos THEN From(s, 2) ELSE s

Answered ==
  asked /\ pc = "idle" /\ asked' = FALSE /\ UNCHANGED <<vars, said, faults>>

ReadIngested ==
  /\ phase = "ingest" /\ Answered
  /\ phase' = IF reply.ok /\ reply.remaining = 0 THEN "generate" ELSE "ingest"
  /\ lost' = (file = NoFile)
  /\ UNCHANGED <<chat, turn>>

ReadGenerated ==
  /\ phase = "generate" /\ Answered
  /\ ~(reply.ok /\ reply.eog)
  /\ UNCHANGED <<phase, chat, turn, lost>>

ReadEnd ==
  /\ phase = "generate" /\ Answered
  /\ reply.ok /\ reply.eog
  /\ IF turn < MaxTurns
       THEN /\ phase' = "ingest" /\ turn' = turn + 1
            /\ chat' = WithoutBos(said) \o UserTurn
       ELSE phase' = "over" /\ UNCHANGED <<chat, turn>>
  /\ UNCHANGED lost

Fault ==
  /\ faults < MaxFaults /\ faults' = faults + 1
  /\ phase \in {"ingest", "generate"}
  /\ UNCHANGED said
  /\ \/ Failure /\ UNCHANGED client
     \/ /\ LoseFile
        /\ lost' = (lost \/ phase = "generate")
        /\ UNCHANGED <<phase, chat, turn, asked>>

\* The conversation is over.
Stop == phase = "over" /\ UNCHANGED cvars

Caller == AskPrompt \/ AskMore \/ ReadIngested \/ ReadGenerated \/ ReadEnd
Canister ==
  /\ Step /\ UNCHANGED <<client, faults>>
  /\ said' = IF pc = "end" THEN Conversed ELSE said

CNext == Setup \/ Caller \/ Canister \/ Fault \/ Stop

\* A call runs to its end, the caller goes on, and the admin sets a budget.
CSpec ==
  CInit /\ [][CNext]_cvars
    /\ WF_cvars(Setup) /\ WF_cvars(Caller) /\ WF_cvars(Canister)

-----------------------------------------------------------------------------
(* Properties *)

\* When the caller turns to generation the session is exactly its prompt:
\* whatever was interrupted and repeated, nothing is missing, doubled or
\* already generated.
IngestedExactly ==
  [][ReadIngested /\ phase' = "generate" /\ file # NoFile
       => file.toks = Tokenize(chat)]_cvars

\* Unless the file was lost on the way, the answer continues the prompt.
AnswerContinuesPrompt ==
  phase \in {"generate", "over"} /\ ~lost =>
     file # NoFile /\ Prefix(file.toks, Least(Len(file.toks), Len(Tokenize(chat))))
                        = Tokenize(chat)

\* No call of such a caller takes one of the steps that part the KV cache from
\* the tokens saved with it (see KvIsSession): a prompt it repeats or continues
\* always begins with the whole session, so that there is nothing to remove from
\* a memory that may refuse it, whatever failed and was repeated before.
CacheIsWhole == file # NoFile => file.kv = file.toks

\* No token is decoded twice for want of a saved session: without faults a call
\* of the second turn finds the first turn cached.
NextTurnIsCached ==
  [][AskPrompt /\ pc' # "idle" /\ faults = 0 /\ turn > 1
       => nMatch' >= Len(Tokenize(chat)) - Len(UserTurn)]_cvars

\* Every prompt that fits is ingested, in spite of the faults.
IngestionEnds == (phase = "ingest" /\ ~Refused(chat)) ~> phase # "ingest"

\* Every conversation comes to its end or fills the context; generation never
\* stalls in between.
OutOfContext == Refused(chat) \/ Len(SavedToks) = NCtx - 1
ConversationEnds == <>(phase = "over" \/ OutOfContext)

-----------------------------------------------------------------------------
(* What the repository says and the code does not do *)

\* The caller that repeats its call gets its end of generation.
AlwaysAnswered == phase = "generate" ~> reply.eog
=============================================================================
