# llama_cpp_canister in TLA+

Specifications of the C++ canister under `src/src/`, which runs llama.cpp on
the Internet Computer: models of its stateful parts, TLC configurations that
check them on small instances, and TLAPS proofs that hold for all instances.
Line numbers refer to the files of this commit.

Contents: 1 the system, 2 the modules, 3 the runs, 4 the proofs, 5 what the
code does otherwise than it says, 6 limits of the models, 7 plan.

To check: `tlc -config <cfg> <module>` for each run of section 3, and
`tlapm <module>` for the modules whose name ends in `Proofs`.

## 1. The system

The canister answers calls from outside. An update call runs alone and either
commits everything it wrote, in memory and in the file system, or traps and
commits nothing; a query runs alone and commits nothing. A call may decode only
so many tokens before it runs out of instructions and traps. So nothing in the
canister runs concurrently *within* a call; what is hard is what happens
*between* calls. One answer of the model takes many calls, each of which
restores what the previous one left in a file, and any other call, an upgrade
or a timer tick can come in between.

| Component | State | Operations | Talks to |
|---|---|---|---|
| Inference (`main_.cpp`, `run.cpp`) | the locals of one call; the session file | `run_update`, `run_query` | prompt cache, token budgets, saved chats |
| Prompt caches (`promptcache.cpp`) | per principal: session files and their sidecar stamps `*.icppfmt` | `new_chat`, `remove_`, `copy_`, `upload_`, `download_prompt_cache…`, discard on use | inference writes them; upload, cleanup and file endpoints touch the same files |
| Model (`model.cpp`, `ready.cpp`) | the loaded model, its context, `ready_for_inference` | `load_model`, `ready`, implicit load by a run | decides which stamps are current |
| Token budgets (`max_tokens.cpp`) | `max_tokens_update`, `max_tokens_query` | `set_`/`get_max_tokens` | read by inference |
| Uploads (`upload.cpp`, `scripts/upload.py`) | file bytes, metadata record on disk, running digest in memory | `file_upload_chunk`, `uploaded_file_details`; a script that retries | prompt caches, cleanup |
| Cache cleanup (`cache_cleanup.cpp`) | configuration, a timer, statistics | start, stop, now, configure, tick | deletes cache and stamp files and upload records |
| Access (`auth.cpp`) | access level, admin roles | `set_access`, `assignAdminRole`, `revokeAdminRole` | guards every endpoint |
| Saved chats (`db_chats.cpp`) | a switch; up to three chat files a principal | `chats_resume`, `chats_pause`, `get_chats`; written by `new_chat` and `run` | inference |
| Cycle balance (`cycle_balance.cpp`) | last balance and its time, a timer | start, stop, get, tick | the runtime's timers, which the cleanup uses too |
| Downloads (`download.cpp`, `promptcache.cpp`, `scripts/download.py`) | none in the canister; a local file and an offset in the script | `file_download_chunk`, `download_prompt_cache_chunk`; a script that loops | any file, while others write it |
| File endpoints, logs, health | none of their own | read, list, remove | any file |

What makes each correct, and what is hard about it:

* **Inference.** A prompt is ingested exactly once, however many calls it takes
  and however they end; the KV cache and the token list saved with it are the
  same tokens; a call never overspends its budget and always gets further; the
  counts on the wire describe what was saved. Hard: the loop has two places
  that append tokens, two that save and five that leave, and upstream llama.cpp
  assumes that they run in one process.
* **Prompt caches.** llama.cpp traps on a session of another build or model. A
  stamp must therefore never vouch for bytes it does not describe, through model
  swaps, upgrades, copies, uploads and runs that fail half way. Hard: two files,
  written and removed by different functions of different source files.
* **Uploads.** What the script reports as uploaded is in the canister. Hard:
  retries of calls that already ran, will never run, or run late; a digest that
  is lost by an upgrade while the record survives.
* **Cleanup.** A used cache stays warm, an old one goes, and there is never more
  than one timer. Hard: ages of two files that belong together, a cap that ends
  a tick in the middle, configuration changes while armed.
* **The caller.** A caller that follows the README and repeats its call on
  errors gets its prompt ingested and its conversation finished.
* **Saved chats.** A chat holds the text of the conversation it was opened for,
  and goes only when enough newer ones were opened. Hard: a run writes to the
  newest file of its caller, whichever conversation it continues, and the
  recording is switched off and on by anybody who is admitted.
* **Access.** One role for each principal, none after a revocation, and no update
  by whom the rules do not admit. Hard: two mechanisms that admit, both lost by an
  upgrade.
* **Downloads.** What the script reports as downloaded is the file. Hard: each
  chunk is a query of its own, and the file may change between two of them.
* **Cycle balance.** A balance that is told is recent. Hard: its timer shares the
  runtime with the one of the cleanup, and either is known only by an id kept in a
  variable.

## 2. The modules

| Module | Models | Extends |
|---|---|---|
| `PromptCache` | caches, stamps, loaded model, readiness | |
| `Inference` | one call of `run`, block by block of the loop of `main_`, on one cache | |
| `SessionLog` | abstract: what a caller may rely on about the text of a session | |
| `Conversation` | a caller of several turns, with faults, around `Inference` | `Inference` |
| `Upload` | `file_upload_chunk_` and everything else that touches one file | |
| `Uploader` | `scripts/upload.py` with lost and late attempts, around `Upload` | `Upload` |
| `Downloader` | `scripts/download.py`, around a file to which all of `Upload` happens | `Upload` |
| `CacheCleanup` | tick, timer, configuration, ages of caches and stamps | |
| `CycleBalance` | the monitor's timer and the age of its reading, next to the cleanup timer | `CacheCleanup` |
| `Access` | access level, roles, the checks of endpoints; has no specification of its own | |
| `Chats` | saved chats of several principals, under the checks of `Access` | `Access` |
| `PromptCacheProofs`, `InferenceProofs`, `UploadProofs`, `ChatsProofs` | theorems | the module of that name |
| `ConversationProofs` | theorems | `Conversation`, `InferenceProofs` |
| `UploaderProofs`, `DownloaderProofs` | theorems | the module of that name, `UploadProofs` |
| `TimerProofs` | theorems of `CacheCleanup` and `CycleBalance` | `CycleBalance` |
| `MC…` | constants for TLC | the module of that name |

`PROJECT.json` maps every definition to its lines. Definitions marked *Mutant*
are what the code would be with a plausible bug; no specification uses them.

### PromptCache

`cache[c]` is what a cache file holds, abstracted to who wrote it: a build and a
model, an empty file, garbage (bytes no build wrote), or no file. `stamp[c]` is
what its sidecar says: the format line, for which the build stands, and the model
description, as `prompt_cache_write_format_stamp` writes them
(promptcache.cpp:115). `FormatIsCurrent` is `prompt_cache_format_is_current`,
which compares only the format while no model is loaded (:82). Every endpoint is
one action; a run has one action for each way it can end that the two files can
tell apart: with the final save, with nothing saved, or after the early save at
the first sampled token (main_.cpp:1121) but without the final one. A call that
traps changes nothing and is a stuttering step. `hole[c]` is a history variable:
the bytes changed and the stamp was neither rewritten nor dropped.

### Inference

The variables are those of `main_`: `embd_inp` (`inp`), `session_tokens`
(`sess`), `embd`, `n_past`, `n_session_consumed`, `n_consumed`, `n_remain`,
`n_eval_total`, `generated_eog`, `is_antiprompt`, `need_to_save_session`; and
`kv`, the tokens in the context's memory by position. `pc` names the block the
loop is in:

    idle --Run--> loop --EnterPass--> reuse --Reuse--> decode --Decode--> feed --Sample/Fill--> loop
                    |  \--FirstPass------------------------------------------^
                    \--LoopEnds, StopAtFullContext--> end --Finish--> idle     (Decode may also go to end)

`Run` is everything before the loop: restoring the session, the choice of the
input (an empty prompt continues the session), the longest common prefix, and the
case of a strict prefix, whose last token is decoded again. `Trap` and
`DecodeFails` end a call anywhere; a trap restores the file (`undo`), a failed
decode keeps an early save. `Finish` saves, unless it is a query, and computes
the accounting in unsigned `Word`-bounded integers; `ChatSaveFails` does all that
and answers an error, because the chat is saved after the session (run.cpp:198).
`Remainders` is what `llama_memory_seq_rm` can leave of the restored memory: what
it should, or, for a recurrent memory (`Recurrent`; the hybrid models that the
repository deploys have one), all of it, of which `main_` only warns
(main_.cpp:636).

Two histories. `torn` marks a session whose token list and KV cache were parted,
which four steps of the code do: a recurrent memory that keeps what should be
removed, a last token that is decoded twice, a batch that is cut, and a loop left
before a divergent session is trimmed (`Uncompared`). Section 5 discusses each.
`cut` marks a call in which the third happened. Only `KvIsSession` excludes all
four; the properties of counts and texts exclude the third, and
`OutputMatchesFile` the fourth too.

The output text is two sequences of tokens: `answer`, what the sampler produced in
this call, and `echoed`, prompt tokens that main_.cpp:1212 takes for generated
ones because they came alone. The code appends both to one stream, `echoed` first.

`SessionLog` says what a call may do to the text of a session. It has three
actions. `Call` begins a call with an input, a prompt or the text itself; `Return` ends it,
and the text is what it was (`Undone`), or a part of the input no shorter than
before (`Ingested`), or the input and what follows it (`Answered`), or the input
without its last token, when the text went on after it (`Rewound`); `Lose` removes
the file. It is checked as a property of `Inference` under the mapping `text <-
CommittedText` (the tokens of the file as of the last committed call), `input <-
inp`. That a call is tied to its own input is what makes it say something: no
call mixes two prompts, leaves a gap, or shortens what is of use to its caller.

### Conversation

The caller of `test/test_qwen3.py` (`_run_update`, `_ingest`, `_generate`): it
sends its prompt with `-n 1` until nothing remains, then an empty prompt until
`generated_eog`, then the next turn with the whole conversation as prompt. The
repetition after an error is the README's advice and an assumption about
callers. `Fault` is a trap, a failed decode or a lost file, `MaxFaults` times.

### Upload and Uploader

A chunk is one unit and offsets count units; a digest is the sequence of chunks
it was fed, so that equal digests mean equal sequences. `bytes`, `meta`
(the record in `uploaded_files_metadata.dat`) and `session` (`upload_sessions`)
are the three places of the code. `Chunk` is `file_upload_chunk_` on its
successful paths; refusals, a file that cannot be opened and the overflow check
that comes too late are actions of their own. `Uploader` adds the script's loop
(upload.py:153-236), its final verification (:238-275) and the three fates of an
attempt that the client gave up.

### Downloader

`got` is the local file, and its length the script's offset. `Receive` is one
query and the script's handling of its answer: `ChunkAt` reads what there is from
the offset, `IsDone` compares the offset and the size *asked for* with a file
size measured anew in each query (download.cpp:60, :83). `Meanwhile` is any
action of `Upload` between two queries. `extended` (history) says that since the
script began the file only grew.

### CacheCleanup

`age[f]` is the time since file `f` was written; the bytes and the stamp of a
cache are two files. `Cleanup(met, bad)` is the body of a tick: of the files the
iterators yield, the first `cap` are examined, those at least `ttl` old are
deleted unless they fail. `Report` is what its statistics say. `live` is the
runtime's set of timers, so that `timer` (the id the canister remembers) can be
compared with what will really fire; a timer carries `what` it calls, as other
parts of the canister have timers too. `alone[c]` (history) says that the bytes
were written without the stamp.

### CycleBalance

`btimer` is the id that `cycle_balance.cpp` keeps, `updated` the time since the
balance was read; of the balance itself nothing depends on the value. The module
adds these to `CacheCleanup` without files, so that `live` holds the timers of
both parts and every endpoint that arms or cancels one acts on the same set. A
tick may be late by any time, in which case the reading grows older than a period.

### Access and Chats

`roles` is the vector `admin_role_assignments` as a set, which `OneRoleEach`
(proved) justifies. `chats[p]` maps the second a file was opened in (its name) to the
conversation it was opened for and the one it holds. `NewChat` and
`NewChatRefused` share `RecordChat`, because `new_chat` opens and prunes files
before it parses its arguments; `RunUpdate` is the save at the end of `run`.
Two histories: `latest[p]`, the conversation of the last `new_chat` if it was
recorded, and `crossed[p]`, that a caller ran any other one while recording was
on. The switch belongs to nobody: whoever may call updates may pause everybody's
recording.

## 3. The runs

| Run | Question | Result |
|---|---|---|
| `cache_sound` | Does a stamp ever vouch for bytes it does not describe? Two builds, two models, two caches, all endpoints, also those that bypass `promptcache.cpp`. | holds unless `hole` |
| `inference_calls` | Any sequence of calls with prompts that extend, repeat and diverge; traps and failures anywhere; what is saved, counted and shown; refinement of `SessionLog`. | holds |
| `inference_corners` | Batches, saved sessions and the limit of the context, with a context shift, `-n` -2, -1, 0, a reverse prompt, a batch larger than a prompt may be. | holds |
| `conversation_turns` | Two turns, every allowed budget, two faults: exactly-once ingestion, reuse of the first turn, termination. | holds |
| `transfers` | Any sequence of chunks and of what else touches a file, while the download script reads it: does the record describe the bytes, is a download the file, does it end? | holds for chunks in order, and for a file that only grows |
| `uploader_retries` | The script with three attempts a chunk, two late ones, a removal, an upgrade: is a success intact, do lost answers hurt, does it end? | holds |
| `cleanup_ticks` | Used caches stay warm, honest statistics, old files go. | holds |
| `timers` | Two kinds of timers in one runtime, started, stopped, configured and fired late: is there one of each, and is a balance that is told recent? | holds |
| `chats_calls` | Three principals, all access rules and the switch changing under them: whose text is in a chat, which chats go, what a revocation leaves. | holds unless `crossed` |
| `cache_midway` | The comment of promptcache.h:41. | violated |
| `conversation_eog` | "Repeat this call until `generated_eog=true`" (README of the repository, line 354). | violated |
| `cleanup_starves` | "The next tick continues the cleanup" (cache_cleanup.h:7). | violated |

What the properties say is in the comment above each. The ones that carry most:

* `SoundUnlessHole`, `StampIsExact`, `CopyStaysWarm` (`PromptCache`): a stamp is exact, is never refreshed by a model that only
  looked at the file, travels with copies and keeps a cache warm through a swap
  of the model out and back in.
* `KvIsSession`, `AccountingMatchesFile`, `IngestionAdvances`,
  `BudgetRespected`, `OneBatch`, `FileFits`, `LogSpec` (`Inference`): what is
  saved, counted and spent agree, and a budgeted call makes exactly its budget of
  progress. `CountsAddUp`: no count is a negative number cast to unsigned, in all
  but the two cases it names. `OutputMatchesFile`: what the caller is shown is
  what the session got to hold, but for one last token in the cases it names.
  The counts of a call that ends at a reverse prompt in the prompt itself are
  excluded (`EndsAtReversePrompt`, section 5), and so is a call that never
  entered the loop. When a strict prefix of the session is sent, the counts are
  off by the token that is decoded again, and by no more (`DecodedAgain`).
* `IngestedExactly`, `NextTurnIsCached`, `IngestionEnds`, `ConversationEnds`
  (`Conversation`): the promise to the caller. `CacheIsWhole` is `KvIsSession`
  with nothing excluded: no call of such a caller takes one of the four steps that
  part the KV cache from the session, whatever failed before, since what it
  sends always begins with all of the session.
* `MetaIsContent`, `SuccessIsIntact`, `LostAnswersAreHarmless` (`Upload`,
  `Uploader`): the record describes the bytes, a success is in the canister, and
  only late attempts, removals and upgrades make a script fail before its retries
  are used up.
* `DownloadIsIntact`, `DownloadEnds` (`Downloader`): a success is a copy of the
  file, also of the chunks that an upload added in the meantime.
* `OneTimer`, `FreshStaysWarm`, `CleanMeansClean`, `OldFilesGo`
  (`CacheCleanup`); `RecentOrRefused`, `BalanceRefreshed` (`CycleBalance`).
* `OwnChat`, `LatestHasFile`, `LostOnlyToNewer`, `RevokeIsComplete` (`Chats`).

### Bounds

* `PromptCache`: two of each kind. An unsound stamp needs a writer and a reader
  that differ in build or model, and a copy needs two caches; no action involves
  three. Builds only grow, so two are all differences.
* `Inference`: a context of 8 (14 in `conversation_turns`, 7 in
  `inference_corners`) tokens, batches of 3 (5 in `inference_corners`, longer than
  a prompt may be there), prompts of up to 5 tokens, a budget of 2 (1, 2 and 4 with the caller): a prompt
  takes two batches, a budget divides a batch or the end of a prompt, and the
  context fills. One prompt ends with an end of generation. The vocabulary has a
  token of each kind that the code tells apart, and two ordinary ones so that
  prompts diverge. The memory is one that can be cut in `inference_calls`, and a
  recurrent one, which may or may not be, in the other runs. `InstructionLimit` bounds
  the tokens of a call without budget and stands for the IC's limit. `Word` is 64
  instead of 2^64: counts are below it, negative ones wrap.
* `Upload` and `Downloader`: offsets 0..2, digests of three and two kinds of
  chunks give gaps, overlaps, retries and restarts; the script asks for 0, 1, 2 or
  3 units where 2 are allowed, so that a file of three takes one to three queries,
  ends inside a chunk or with one, and asking for nothing and for too much occur.
  `Uploader`: three chunks, the first and the last equal (a digest must not hide a
  swap), three attempts for each, two late ones for each chunk. A file of four
  equal chunks shows a success that is not intact (section 5), which is why
  `SuccessIsIntact` asks that inner chunks differ once a late attempt ran.
* `CacheCleanup`: two caches, four files, a time to live of 1 or 0 units and
  `MaxAge` 1, since a file is only ever younger than the time to live or not; caps
  1 and 4 (clamped), with `cap` 4 all files fit; two timer ids, as only one may be
  alive.
* `CycleBalance`: the cleanup has a period of 2, or 1 or 3 once configured, the
  balance one of 3, so that they fall due together and apart; four ids, of which
  the code uses two at a time, so that a second timer of a kind finds one.
* `Chats`: `MaxChats` is 2 (3 in the code) and three calls of `new_chat` in three
  seconds fill a directory and overflow it, also within one second; a controller,
  a user and the anonymous principal are the kinds of caller the checks tell
  apart. Roles are given to the last two, controllers need none.

### Fairness

* `Conversation`: weak fairness of `Setup` (an admin sets a budget), `Caller`
  (the caller goes on) and `Canister` (a call that started runs on): a call is
  executed to its end by the IC, and a caller that stops has no claim to an
  answer. Faults are bounded instead, since nothing ends if every call traps.
* `Uploader`: weak fairness of the script, which is a sequential loop with
  timeouts. None for late attempts: they may never come.
* `Downloader`: weak fairness of the script's next request, a sequential loop in
  which a request has an answer or makes the script exit.
* `CycleBalance`: weak fairness of time and of a due balance tick: the IC fires a
  due timer, and this tick calls nothing that can fail.
* `CacheCleanup`: weak fairness of time, strong fairness of a tick without
  failures: the IC fires a due timer, and a file system that fails every time
  deletes nothing. Ticks with failures may come in between any number of times.

## 4. The proofs

The proofs use no bound: any set of models, caches, chunks, timer ids, any
configuration that satisfies the named assumptions (`ASSUME`) of the modules,
which TLC evaluates in the runs.

* `PromptCacheProofs`: `TypeCorrect`, `StampsAreExact`, `StampsAreSound`,
  `CopiesStayWarm`, `NewChatsAreUsable`. The inductive invariant is `TypeOK` and `StampIsExact`.
  `SoundUnlessHole` alone is not inductive: a stamp that is merely accepted may
  describe another model of that description, and a copy or a later swap would
  expose it; that the stamp names the *writer* of the bytes is what survives every
  step. Soundness, the warmth of copies and what `new_chat` leaves follow from it.
* `InferenceProofs`: `TypeCorrect`, `SavedCacheIsSession`, `SavedFits`,
  `BatchBound`, `BudgetKept`, `CountsAlwaysAddUp`, `CountsMatchFile`,
  `IngestsItsBudget`, `OutputIsStored`, and the refinement `ImplementsSessionLog`:
  every safety property that the runs check of `Inference`, for any context of more than 4
  tokens, any batch, prompts, budgets and `-n`. None of them is inductive.
  `IInv` follows one call through the loop. What it shares with the file
  (`Opening`), the numbers (`Limits`) and the progress of the prompt (`Counted`)
  hold throughout; besides, the call is in one of four modes. *Ingesting*: the
  session, and unless `torn` the KV cache, are a prefix of the input, and `embd` is
  what follows it, so that no budget, batch or end of the loop leaves a gap. *Answering*: they
  are the input and the answer, and at most the last token of it is still to be
  decoded. *Cutting* and *Loose*: a batch larger than a prompt may be was cut,
  or the context was shifted; of the session nothing is claimed (it is torn, or
  no longer saved), but budgets, batches and counts still hold. The other three
  steps that part the cache from the tokens leave the call in its mode: the
  tokens go on as before, which is why counts, output and refinement are proved
  for them, and only what is said of `kv` is under `~torn`. The action properties are
  what `IInv` gives at `Finish`; that prefixes match exactly (`MatchLenAgrees`)
  needs the well-founded order of the numbers. Assumed are `SizeAssumption`
  (`Word` is larger than the context and than what one call can decode, as
  2^64 is; without it counts wrap), `TokenAssumption`, `FlagAssumption` and
  `FileAssumption`. The refinement has one hypothesis, `NBatch <= NCtx - 4`:
  with a larger batch TLC finds a continued session that is cut and saved, which
  no clause of `SessionLog` allows (section 5). llama.cpp takes the smaller of
  `n_ctx` and `--batch-size`, so that it holds for contexts that are larger than a batch
  by 4 and may fail for smaller ones.
* `ConversationProofs`: `AnswersThePrompt`, `IngestsExactly`,
  `LaterTurnsAreCached`, `CachesStayWhole`. `CInv` adds to `IInv` what the caller wants
  (`Wanted`, its prompt as the canister reads it): while it ingests, the saved
  text is a prefix of that, a call in progress has it as input, and a reply with nothing
  remaining means that the text *is* it; while it generates, the text begins with
  it, and after a good reply it is what the caller was told (`said`), from
  which the prompt of the next turn is made. The input of every call thus
  begins with the whole session, so that `Remainders` has one element and no
  session is ever torn (`FilesWhole`), which is `CachesStayWhole`. That holds through any number of
  traps, failures and losses of the file. The hypothesis `Plain` excludes what parts
  the session from what a caller is told: reverse prompts, a context shift,
  and the large batch above; the documented callers use none of them.
* `UploadProofs`: `UploadTypeCorrect`, `RecordIsTrue`. The record is true of the
  bytes because the running digest is (`DigestIsContent`), and after an upgrade,
  which loses the digest, no chunk but one at offset 0 can continue the upload;
  the invariant is the conjunction of both with the types.
* `UploaderProofs`: `SuccessesAreIntact`, `LostAnswersDoNoHarm`, for any local
  file, any number of retries and of late attempts. Equal digests do not give
  equal bytes by themselves, since the record is computed from the chunks that
  came by. What holds (`Kept`) is that each chunk a digest was fed is in
  the file at its own offset: only a chunk at offset 0 truncates, and that
  begins the digest anew. A digest equal to that of the local file was therefore
  fed a chunk equal to each of its chunks, and if inner ones differ, each of
  them. Without late attempts the file is a prefix of the local one
  (`InOrder`); without upgrades either, session and record follow the file
  (`Steady`), so that every answer is Ok and both comparisons succeed.
* `DownloaderProofs`: `DownloadsAreIntact`, `RecordIsTrueBesides`. While the file
  only grew, what the script got is a beginning of it; `IsDone` then says that it
  is all of it. The second half of `DownloadIsIntact` is the invariant of
  `UploadProofs`, which the script's steps leave alone.
* `TimerProofs`, of `CacheCleanup`: `CleanupTypeCorrect`, `OneTimerAtMost`,
  `TicksLeaveUsedCaches`, `CleanIsClean`. Here all timers of the runtime are the cleanup's
  (`OnlyCleanup`). `TicksLeaveUsedCaches` needs that the two files of a cache have one
  age (`StampsAge`), an invariant of the calls that write them: a tick, which
  knows nothing of pairs, then judges them alike. `CleanIsClean` rests on
  `WalkEndsAtCap`: a walk that leaves out a file has looked at exactly as many as
  the cap, so that statistics below it mean a complete walk; it needs that
  there are finitely many caches.
* `TimerProofs`, of `CycleBalance`: `OneTimerBesides`, `BalanceIsRecent`. That there is one
  timer of each kind is not inductive: cancelling the timer of one kind must not
  hit the other, so the two have different ids; for a new id to be new, the ids
  the canister remembers must be alive, and there may be no third timer.
  `BInv` says all of this, with the time each timer has left.
* `ChatsProofs`: types, `ChatsAreBounded`, `LatestIsSaved`, `ChatsAreOwn`,
  `ChatsGoInOrder`, `RolesAreUnique`, `OnlyAdmittedWriteChats`,
  `RevokedAdminsAreOut`. `OwnChat` is not inductive: the file a run writes to has
  to be the one opened for its conversation, which is `LatestHasFile`. That in
  turn rests on the clean-up sparing the file just opened (`KeptNewest`), and the
  bound on its leaving no more than `max_chats` of *any* finite directory
  (`KeptBound`), whose proof looks at the earliest file kept. `ChatsGoInOrder`
  looks at the latest file deleted (`LostBound`). `RevokeIsComplete` is a
  consequence of `OneRoleEach`.

Proved and left out of the runs, which would say less: `AtMostMaxChats` (`ChatsAreBounded`), `OneRoleEach`
(`RolesAreUnique`), `OnlyAdmittedWrite` (`OnlyAdmittedWriteChats`),
`NewChatIsUsable` (`NewChatsAreUsable`) and `DigestIsContent`, a part of
`RecordIsTrue`.

Only model-checked: the liveness properties (`IngestionEnds`, `ConversationEnds`,
`UploadEnds`, `DownloadEnds`, `OldFilesGo`, `BalanceRefreshed`), which TLAPS
cannot prove. Every other property of a passing run is the statement of a
theorem. No module uses a recursive operator.

## 5. What the code does otherwise than it says

Shown by a run, and listed in `PROJECT.json`:

* A run that saves early and fails later leaves a stamp that does not describe
  the bytes (`cache_midway`).
* At a full context every call is answered Ok, with `generated_eog` false and no
  progress, forever (`conversation_eog`).
* The cleanup cap restarts from the front; old files behind fresh ones stay
  (`cleanup_starves`).

Met while modelling, without a run:

* A retry of the last chunk is recognised by its offset (upload.cpp:258), as the
  comment at upload.cpp:20 promises for timeouts. An attempt that scripts/upload.py
  gave up (:154) and that runs after a later chunk was acknowledged is not: its
  bytes overwrite or are added to the digest again, at offset 0 the upload begins
  anew, and the script's final comparison fails. `LostAnswersAreHarmless` excludes
  it.
* Such late attempts can also make a success of an incomplete file. The digest
  is fed the chunks in the order in which they are executed, whatever their
  offsets, and the size on record is the end of the last one: in a file of four
  equal chunks, a late first chunk (which truncates), then the last, a late third
  and the last again give the size and the digest of the whole, while the second
  is a gap. TLC finds it with `Local` of four equal chunks, `MaxOffset` 3 and one
  late attempt a chunk; it needs chunks that are equal, as in a run of zeros.
  `SuccessIsIntact` excludes it, and the proof shows that nothing else is needed.
* A download is checked by nothing. If the file was begun anew, overwritten or
  shortened between two chunks, the script reports the pieces of two files as a
  success. `DownloadIsIntact` excludes it. With `--chunksize 0` the script never
  ends (download.cpp:83), which `DownloadEnds` excludes.
* `ready` stays Ok after a failed `load_model` freed the model loaded before:
  `load_model` frees it first (model.cpp:51), and nothing resets
  `ready_for_inference`. `ModelLoadFails` models it.
* A chat is overwritten by another conversation of its principal when both are
  run in turn, when the second began while recording was paused or was refused,
  and lost when both began within one second. `crossed` marks the first cases.
* The first run after `chats_resume` without a `new_chat` saves its session and
  then answers an error, because there is no chat file to write to
  (db_chats.cpp:195, run.cpp:198).
* files.cpp:263 and :363 say that on the IC the time of a file is that of its
  creation. The cleanup takes it for the last modification (cache_cleanup.h:4):
  if the comment is right, a cache in daily use is deleted one time to live after
  it was made. `CacheCleanup` follows cache_cleanup.h; `Chats` does not depend on
  it.
* `prompt_cache_model_id` is llama.cpp's description of architecture, size and
  quantisation (promptcache.cpp:60): two fine-tunes of one base share it, and the
  cache of one counts as current for the other. `Desc` need not be injective, and
  the properties speak of descriptions.
* A single prompt token that is forwarded alone is appended to the output text
  (main_.cpp:1212): `echoed`. With a budget of one, every prompt token is shown so.
* A prompt that ends with an end-of-generation token makes `generated_eog` true
  although nothing was sampled (main_.cpp:1424): the second case of
  `OutputMatchesFile`.
* With `-n` used up, the token sampled last is returned, and `generated_eog`
  reported for it, but it is not decoded or stored (main_.cpp:888); the next call
  samples from before it. `OutputMatchesFile` allows this one token.
* `llama_memory_seq_rm` removes from the restored memory what follows the common
  prefix (main_.cpp:636). For a recurrent memory, or a hybrid one such as that of
  the LFM2.5 models the repository deploys, it can refuse; the code logs
  "unable to reuse common prefix (for example, when the memory is recurrent)" and
  goes on. The session tokens are trimmed all the same (main_.cpp:982), so that a
  prompt that diverges from its session is evaluated behind the old
  conversation, and the session saved has a KV cache that is not that of its
  tokens. `Remainders` in `Run`; it sets `torn`.
* The session tokens are trimmed only when the loop compares them with the prompt
  (main_.cpp:978-984). A prompt that diverges from its session and is sent with
  `-n 0`, or that ends with a reverse prompt, can end the loop before that: the
  final save (main_.cpp:1455) then writes the whole old token list beside a KV
  cache that was cut at the common prefix. A later call that continues the session
  takes tokens for evaluated that the cache does not have. `Uncompared` in
  `Ends`; it sets `torn`.
* A caller of the documented protocol meets neither, nor the next two:
  `CacheIsWhole`.
* Resending a strict prefix of a session decodes its last token again: it is
  counted as generated (main_.cpp:1497), which `DecodedAgain` of
  `AccountingMatchesFile` says, and as batches without positions are
  appended to the memory, the KV cache grows by one more than the token list.
  `again` in `Run`; it sets `torn`. If the loop ends before that decode, with `-n
  0` or at a reverse prompt, the session saved ends before the last token:
  `Rewound` of `SessionLog`.
* "All values are non-negative under normal operation" (main_.cpp:1490) has two
  exceptions, which `CountsAddUp` names: with `-n 0` and a warm cache, and with a
  prompt that ends with a reverse prompt, tokens are counted that the loop left
  before decoding, and a difference wraps around (main_.cpp:1492-1499).
* An error while saving the chat is answered for a run whose tokens are in the
  session (run.cpp:198). A caller that repeats the call loses nothing while it
  ingests, and one piece of the answer while it generates: `ChatSaveFails`.
* Continuing a session of more than `n_ctx - 4` tokens with a batch as large
  truncates `embd` (main_.cpp:896) although those tokens are in the KV cache.
  `EnterPass`; it sets `torn`. The session that is saved has lost its tail, and
  what is generated next follows a token it did not follow before. Batches within
  `n_ctx - 4` exclude it, which is the hypothesis of `ImplementsSessionLog`.
* A cache that is lost while its answer is generated is not reported: the next
  empty prompt begins a text of its own (main_.cpp:555) and is answered Ok.
  `AnswerContinuesPrompt` excludes that turn (`lost`).
* A chunk that would overflow the offset is refused after the session took its
  offset (upload.cpp:293): the same call sent again is taken for a retry and
  answered Ok. `OverflowingChunk` of `Upload`.
* `new_chat` opens a chat file and deletes the oldest one too many before it
  parses its arguments (run.cpp:66): a call that is refused has done both.
  `NewChatRefused` of `Chats`.
* `copy_prompt_cache` of a cache onto itself removes the cache and fails
  (promptcache.cpp:305).
* `filesystem_remove` leaves the upload record and session (files.cpp:161): a
  removed file still validates. `SuccessIsIntact` excludes it.
* The metadata record is not updated when a run or a copy overwrites an uploaded
  cache; `whole` excludes it.
* A cache name with a slash makes a subdirectory, although the comment at
  promptcache.cpp:177 says slashes are replaced; the cleanup skips subdirectories.

## 6. Limits of the models

* Interactive mode, encoders and Self-Extend are left out of `Inference`: a
  canister has no console and `main_` switches conversation mode off.
  `--prompt-cache-ro` acts on the file as a query does. Runs without a cache keep
  nothing between calls.
* A reverse prompt is one token; the tail of the output that the code searches
  for it is one token too. Retokenising the text of a conversation gives the
  tokens it came from.
* `NCtx` and the batch are constants: a model reloaded with a smaller context is
  not modelled.
* Memory has a cell for each token of the context, as llama.cpp's attention and
  hybrid memories do (`HasRoom`): a memory that is recurrent throughout has no such limit
  and is not modelled. Removing *all* of a memory never fails.
* `Upload` assumes that opening a file for writing without `trunc` keeps its
  bytes, as `test/test_promptcache.py` relies on for the canister's file system.
  ISO C++ truncates there; a native build would keep the last chunk only. The
  definition `OpenedTruncating` is that behaviour, and `SuccessIsIntact` fails
  with it. The removal of the metadata file itself is not modelled.
* `Chats` orders files by the second they were opened in, which is their order by
  time of creation and of last write, since only the newest is ever written to.
  Files that an admin puts into or removes from the directory by the file
  endpoints, and faults of the file system, are left out.
* `Downloader` makes a request and its answer one step: a query changes nothing,
  and the script waits for it. It downloads one file once.
* `CacheCleanup` has the directory of one caller: other principals' directories
  come before or after it in the walk, which to it is a smaller cap or an iterator
  that ends early. Whether a call finds a cache stale is a free choice. A tick
  that runs out of instructions commits nothing and is a stuttering step.
* llama.cpp itself, the file system and the IC are external: what the code needs
  of them is stated where it is used.

Not modelled, and why: logs, health, memory status and HTTP helpers change no
state that anything depends on. `list`, `exists` and the sizes of the file
endpoints only read; creating directories has no effect that another part could
miss. The WASI shims are stubs that trap. The build and
deployment scripts act outside the canister.

## 7. Plan

In the order of how much of the system rests on them:

1. `PromptCache` and proofs: done.
2. `Inference`, the refinement of `SessionLog`, and proofs of both: done.
3. `Conversation` and proofs: done.
4. `Upload` and proofs, `Uploader` and proofs: done.
5. `CacheCleanup` and proofs: done.
6. `Access`, `Chats` and proofs: done.
7. `CycleBalance` and proofs, with the timer of `CacheCleanup`: done.
8. `Downloader` and proofs: done.
9. `ConversationProofs` without `Plain`: what a caller may rely on when a reverse
   prompt or a shift ends its turn, which needs weaker properties first.
10. Compositions: `Inference` with `PromptCache` (a session that is discarded,
   copied or restored between two calls of a conversation), and with `Chats`.
   A context size that changes when a model is loaded again, for sessions that
   are longer than the new one (main_.cpp:492).
