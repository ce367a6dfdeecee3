------------------------------ MODULE Uploader ------------------------------
(***************************************************************************)
(* scripts/upload.py against the canister: it sends the chunks of a local  *)
(* file in order, tries each up to MaxRetries times, compares the size and *)
(* the digest of the last answer with its own, and then those that the     *)
(* details endpoint returns.                                               *)
(*                                                                         *)
(* An attempt that timed out at the client is in one of three states: the  *)
(* canister executed it and the answer was lost, it will never execute it, *)
(* or it has yet to, after messages that were sent later.                  *)
(***************************************************************************)
EXTENDS Upload

CONSTANTS
  Local,        \* the chunks of the local file
  MaxRetries,   \* attempts for one chunk
  MaxLate,      \* bound: attempts still on their way
  MayUpgrade, MayRemove   \* whether an upgrade or a removal may intervene

ASSUME LocalAssumption == Local \in Seq(Chunks) /\ Len(Local) \in 1 .. MaxOffset + 1
ASSUME RetriesAssumption == MaxRetries \in Nat \ {0} /\ MaxLate \in Nat

VARIABLES
  step,       \* "send", "wait", "compare", "verify", "success" or "failed"
  index,      \* chunks acknowledged
  attempt,    \* of the current chunk
  executed,   \* the canister has executed the current attempt
  late,       \* late[i]: attempts for chunk i the client gave up, still to come
  last,       \* last answer the client saw
  overtaken,  \* history: a late attempt was executed
  removed,    \* history: the file was removed
  upgraded    \* history: the canister was upgraded

script == <<step, index, attempt, executed, late, last>>
history == <<overtaken, removed, upgraded>>
upvars == <<uvars, script, history>>

Indices == 0 .. Len(Local) - 1

ScriptTypeOK ==
  /\ step \in {"send", "wait", "compare", "verify", "success", "failed"}
  /\ index \in 0 .. Len(Local)
  /\ attempt \in 1 .. MaxRetries
  /\ executed \in BOOLEAN
  /\ late \in [Indices -> 0 .. MaxLate]
  /\ overtaken \in BOOLEAN /\ removed \in BOOLEAN /\ upgraded \in BOOLEAN

UpInit ==
  /\ UInit
  /\ step = "send" /\ index = 0 /\ attempt = 1 /\ executed = FALSE
  /\ late = [i \in Indices |-> 0] /\ last = Err
  /\ overtaken = FALSE /\ removed = FALSE /\ upgraded = FALSE

-----------------------------------------------------------------------------
(* The script *)

Send ==
  /\ step = "send"
  /\ step' = "wait" /\ executed' = FALSE
  /\ UNCHANGED <<uvars, index, attempt, late, last, history>>

\* The canister executes the attempt the client waits for.
Execute ==
  /\ step = "wait" /\ ~executed
  /\ Chunk(index, Local[index + 1])
  /\ executed' = TRUE
  /\ UNCHANGED <<step, index, attempt, late, last, history>>

\* The answer arrives.
Receive ==
  /\ step = "wait" /\ executed
  /\ last' = reply
  /\ IF ~reply.ok THEN step' = "failed" /\ UNCHANGED <<index, attempt>>
     ELSE /\ index' = index + 1 /\ attempt' = 1
          /\ step' = IF index + 1 = Len(Local) THEN "compare" ELSE "send"
  /\ UNCHANGED <<uvars, executed, late, history>>

\* Mutant: attempts without end.
TimeOutNever ==
  /\ step = "wait"
  /\ step' = "send"
  /\ UNCHANGED <<uvars, index, attempt, executed, late, last, history>>

\* The client gives up on the attempt: its answer is lost, or it never ran and
\* is dropped or still on its way.
TimeOut ==
  /\ step = "wait"
  /\ \/ late' = late
     \/ /\ ~executed /\ late[index] < MaxLate
        /\ late' = [late EXCEPT ![index] = @ + 1]
  /\ IF attempt < MaxRetries THEN step' = "send" /\ attempt' = attempt + 1
                             ELSE step' = "failed" /\ UNCHANGED attempt
  /\ UNCHANGED <<uvars, index, executed, last, history>>

Matches(r) == r.ok /\ r.size = Len(Local) /\ r.sha = Local

Compare ==
  /\ step = "compare"
  /\ step' = IF Matches(last) THEN "verify" ELSE "failed"
  /\ UNCHANGED <<uvars, index, attempt, executed, late, last, history>>

\* uploaded_file_details
Details == IF meta = NoMeta THEN Err ELSE OkReply(meta)

Verify ==
  /\ step = "verify"
  /\ last' = Details
  /\ step' = IF Matches(Details) THEN "success" ELSE "failed"
  /\ UNCHANGED <<uvars, index, attempt, executed, late, history>>

-----------------------------------------------------------------------------
(* The rest of the world *)

ExecuteLate(i) ==
  /\ late[i] > 0
  /\ Chunk(i, Local[i + 1])
  /\ late' = [late EXCEPT ![i] = @ - 1]
  /\ overtaken' = TRUE
  /\ UNCHANGED <<step, index, attempt, executed, last, removed, upgraded>>

Removed ==
  /\ MayRemove /\ ~removed
  /\ RemoveFile \/ CleanupFile
  /\ removed' = TRUE
  /\ UNCHANGED <<script, overtaken, upgraded>>

Upgraded ==
  /\ MayUpgrade /\ ~upgraded
  /\ UpgradeUpload
  /\ upgraded' = TRUE
  /\ UNCHANGED <<script, overtaken, removed>>

Ended == step \in {"success", "failed"} /\ UNCHANGED upvars

Script == Send \/ Execute \/ Receive \/ TimeOut \/ Compare \/ Verify

UpNext ==
  \/ Script
  \/ \E i \in Indices : ExecuteLate(i)
  \/ Removed \/ Upgraded
  \/ Ended

UpSpec == UpInit /\ [][UpNext]_upvars /\ WF_upvars(Script)

-----------------------------------------------------------------------------
(* Properties *)

\* A chunk between the first and the last is like no other.
InnerChunksDiffer ==
  \A i \in 2 .. Len(Local) - 1, j \in 1 .. Len(Local) : Local[i] = Local[j] => i = j

\* What the script congratulates on is in the canister: whatever was retried,
\* overtaken or upgraded, two equal digests mean equal bytes, unless the file
\* was removed in between, or has equal chunks that late attempts can put in
\* the digest in place of each other.
SuccessIsIntact ==
  [][Verify /\ step' = "success" /\ ~removed /\ (~overtaken \/ InnerChunksDiffer)
       => bytes = Local]_upvars

\* The chunk session makes retries harmless: an upload of which every attempt
\* ran before the client gave it up, or never, only fails for want of retries.
LostAnswersAreHarmless ==
  [][step' = "failed" /\ step # "failed" /\ ~overtaken /\ ~removed /\ ~upgraded
       => step = "wait" /\ attempt = MaxRetries]_upvars

\* The script ends.
UploadEnds == <>(step \in {"success", "failed"})
=============================================================================
