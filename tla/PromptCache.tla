---------------------------- MODULE PromptCache ----------------------------
(***************************************************************************)
(* The prompt caches (session files) of one caller, the sidecar stamps     *)
(* "<cache>.icppfmt" that say who wrote them, and the loaded model.        *)
(*                                                                         *)
(* llama.cpp traps on, or silently misreads, a session file that another   *)
(* build or another model wrote.  promptcache.cpp guards it with the stamp *)
(* alone: the bytes of a cache and its stamp are two files, written and    *)
(* removed by different functions.  This module follows both files through *)
(* every call that touches either, so that the stamp can be compared with  *)
(* the true writer of the bytes.                                           *)
(*                                                                         *)
(* A call is one step: the Internet Computer runs an update call           *)
(* atomically, and a call that traps leaves no trace, so that a trap is a  *)
(* stuttering step here.  The contents of a cache are abstracted to their  *)
(* writer.                                                                 *)
(***************************************************************************)
EXTENDS Naturals

CONSTANTS
  MaxBuild,      \* the builds of the canister deployed over time are 1..MaxBuild
  Models,        \* model files that can be loaded
  Desc,          \* Desc[m]: the description llama.cpp gives of model m
  Caches,        \* the caller's cache names
  AdminFileOps,  \* whether the admin's file endpoints reach the cache tree
  NoModel, NoDesc, NoFile, EmptyFile, Garbage, NoStamp

ASSUME MaxBuildAssumption == MaxBuild \in Nat \ {0}
ASSUME ModelAssumption == NoModel \notin Models
ASSUME AdminAssumption == AdminFileOps \in BOOLEAN

VARIABLES
  build,   \* the deployed build: stands for PROMPT_CACHE_FORMAT
  model,   \* the model in memory (g_model), or NoModel
  ctx,     \* whether it has a context
  ready,   \* ready_for_inference
  cache,   \* cache[c]: what the cache file c holds
  stamp,   \* stamp[c]: what its sidecar file says
  hole     \* history: the bytes of c changed while its stamp was left alone

files == <<cache, stamp, hole>>
memory == <<model, ctx, ready>>
vars == <<build, model, ctx, ready, cache, stamp, hole>>

Builds == 1 .. MaxBuild
Descs == {Desc[m] : m \in Models}

\* A session file saved by a build of the canister with a model.
Session == [build : Builds, model : Models]
Contents == Session \cup {EmptyFile, Garbage}
Stamp == [format : Builds, model : Descs \cup {NoDesc}]

ASSUME ValueAssumption ==
  /\ NoFile \notin Contents
  /\ EmptyFile \notin Session /\ Garbage \notin Session /\ EmptyFile # Garbage
  /\ NoStamp \notin Stamp
  /\ NoDesc \notin Descs

TypeOK ==
  /\ build \in Builds
  /\ model \in Models \cup {NoModel}
  /\ ctx \in BOOLEAN /\ ready \in BOOLEAN
  /\ cache \in [Caches -> Contents \cup {NoFile}]
  /\ stamp \in [Caches -> Stamp \cup {NoStamp}]
  /\ hole \in [Caches -> BOOLEAN]

Init ==
  /\ build = 1
  /\ model = NoModel /\ ctx = FALSE /\ ready = FALSE
  /\ cache = [c \in Caches |-> NoFile]
  /\ stamp = [c \in Caches |-> NoStamp]
  /\ hole = [c \in Caches |-> FALSE]

-----------------------------------------------------------------------------
(* The stamp *)

\* prompt_cache_model_id
ModelId(m) == IF m = NoModel THEN NoDesc ELSE Desc[m]

\* Mutant of FormatStamp: the one-line stamp, with no model id.
FormatStampOneLine(m) == [format |-> build]

\* What prompt_cache_write_format_stamp writes while model m is loaded.
FormatStamp(m) == [format |-> build, model |-> ModelId(m)]

\* Mutant of FormatIsCurrent: the model id is not compared.
FormatIsCurrentAnyModel(c, m) == stamp[c] # NoStamp /\ stamp[c].format = build

\* prompt_cache_format_is_current: without a model there is nothing to
\* compare the second line with.
FormatIsCurrent(c, m) ==
  /\ stamp[c] # NoStamp
  /\ stamp[c].format = build
  /\ m = NoModel \/ stamp[c].model = ModelId(m)

\* prompt_cache_discard_if_stale removes both files of a stale cache.
Stale(c, m) == cache[c] # NoFile /\ ~FormatIsCurrent(c, m)
KeptCache(c, m) == IF Stale(c, m) THEN NoFile ELSE cache[c]
KeptStamp(c, m) == IF Stale(c, m) THEN NoStamp ELSE stamp[c]

\* What llama_state_load_file takes without trapping or failing.
LlamaAccepts(bytes, m) ==
  \/ bytes \in {NoFile, EmptyFile}
  \/ bytes \in Session /\ bytes.build = build /\ Desc[bytes.model] = Desc[m]

PutFiles(c, bytes, s, h) ==
  /\ cache' = [cache EXCEPT ![c] = bytes]
  /\ stamp' = [stamp EXCEPT ![c] = s]
  /\ hole' = [hole EXCEPT ![c] = h]

-----------------------------------------------------------------------------
(* Models and upgrades *)

\* load_model; the model loaded before is freed first.
LoadModel(m) ==
  /\ model' = m /\ ctx' = TRUE /\ ready' = TRUE
  /\ UNCHANGED <<build, files>>

\* load_model, or a run that names a model in its arguments, cannot load the
\* model (nothing is left in memory) or cannot create its context.
ModelLoadFails(m) ==
  /\ model' \in {NoModel, m}
  /\ ctx' = FALSE
  /\ UNCHANGED <<build, ready, files>>

\* An upgrade (or a reinstall of the same build): memory is lost, files stay.
Upgrade(b) ==
  /\ b >= build
  /\ build' = b
  /\ model' = NoModel /\ ctx' = FALSE /\ ready' = FALSE
  /\ UNCHANGED files

-----------------------------------------------------------------------------
(* Calls on a cache *)

\* Mutant of NewChat: the stamp is written over whatever was kept.
NewChatRestamping(c) ==
  /\ PutFiles(c, KeptCache(c, model), FormatStamp(model),
              hole[c] /\ KeptCache(c, model) # NoFile)
  /\ UNCHANGED <<build, memory>>

\* new_chat
NewChat(c) ==
  LET kept == KeptCache(c, model)
  IN  /\ PutFiles(c, kept,
                  IF kept = NoFile THEN FormatStamp(model) ELSE stamp[c],
                  hole[c] /\ kept # NoFile)
      /\ UNCHANGED <<build, memory>>

\* The model a run uses: one named in its arguments replaces the loaded one.
RunModel(arg) == IF arg = NoModel THEN model ELSE arg

\* The run has a model and a context, and has gone past discard_if_stale.
RunStarts(arg) ==
  /\ arg # NoModel \/ (model # NoModel /\ ctx)
  /\ model' = RunModel(arg)
  /\ ctx' = TRUE
  /\ UNCHANGED <<build, ready>>

\* A run that reaches its end saves the session and stamps it.
RunSaves(c, arg) ==
  LET m == RunModel(arg)
  IN  /\ RunStarts(arg)
      /\ LlamaAccepts(KeptCache(c, m), m)
      /\ PutFiles(c, [build |-> build, model |-> m], FormatStamp(m), FALSE)

\* A run that fails before it saves, is refused an unreadable file, or was
\* asked not to write the cache (--prompt-cache-ro).
RunSavesNothing(c, arg) ==
  LET m == RunModel(arg)
  IN  /\ RunStarts(arg)
      /\ LlamaAccepts(KeptCache(c, m), m) \/ KeptCache(c, m) = Garbage
      /\ PutFiles(c, KeptCache(c, m), KeptStamp(c, m),
                  hole[c] /\ KeptCache(c, m) # NoFile)

\* A run that saves at its first sampled token and then leaves the loop
\* without the final save and stamp: a later decode fails, or a context shift
\* has cleared path_session.
RunLeavesMidway(c, arg) ==
  LET m == RunModel(arg)
  IN  /\ RunStarts(arg)
      /\ LlamaAccepts(KeptCache(c, m), m)
      /\ PutFiles(c, [build |-> build, model |-> m], KeptStamp(c, m), TRUE)

\* remove_prompt_cache
RemovePromptCache(c) ==
  /\ cache[c] # NoFile
  /\ PutFiles(c, NoFile, NoStamp, FALSE)
  /\ UNCHANGED <<build, memory>>

\* Mutant of CopyPromptCache: the stamp is not carried over.
CopyPromptCacheAlone(from, to) ==
  /\ cache[from] # NoFile
  /\ \/ from # to /\ PutFiles(to, cache[from], NoStamp, hole[from])
     \/ from = to /\ PutFiles(to, NoFile, stamp[to], TRUE)
  /\ UNCHANGED <<build, memory>>

\* copy_prompt_cache: the target is removed first, so that a copy of a cache
\* onto itself has nothing left to copy and returns an error.
CopyPromptCache(from, to) ==
  /\ cache[from] # NoFile
  /\ \/ from # to /\ PutFiles(to, cache[from], stamp[from], hole[from])
     \/ from = to /\ PutFiles(to, NoFile, stamp[to], TRUE)
  /\ UNCHANGED <<build, memory>>

\* upload_prompt_cache_chunk drops the stamp, then writes a chunk; a chunk
\* that is refused or was handled before leaves the bytes alone.
UploadPromptCacheChunk(c, bytes) ==
  /\ PutFiles(c, bytes, NoStamp, FALSE)
  /\ UNCHANGED <<build, memory>>

-----------------------------------------------------------------------------
(* Calls that reach the two files without promptcache.cpp *)

\* file_upload_chunk with the path of a cache.
FileUploadChunk(c, bytes) ==
  /\ AdminFileOps
  /\ PutFiles(c, bytes, stamp[c], TRUE)
  /\ UNCHANGED <<build, memory>>

\* filesystem_remove of a cache, or its deletion by a cleanup tick.
DeleteCacheFile(c) ==
  /\ AdminFileOps
  /\ cache[c] # NoFile
  /\ PutFiles(c, NoFile, stamp[c], TRUE)
  /\ UNCHANGED <<build, memory>>

\* filesystem_remove of a stamp, or its deletion by a cleanup tick.
DeleteStampFile(c) ==
  /\ AdminFileOps
  /\ stamp[c] # NoStamp
  /\ PutFiles(c, cache[c], NoStamp, FALSE)
  /\ UNCHANGED <<build, memory>>

-----------------------------------------------------------------------------

ModelCall == \E m \in Models : LoadModel(m) \/ ModelLoadFails(m)

RunCall(c) ==
  \E arg \in Models \cup {NoModel} :
     RunSaves(c, arg) \/ RunSavesNothing(c, arg) \/ RunLeavesMidway(c, arg)

CacheCall(c) ==
  \/ NewChat(c)
  \/ RemovePromptCache(c)
  \/ \E to \in Caches : CopyPromptCache(c, to)
  \/ \E bytes \in Contents \cup {cache[c]} : UploadPromptCacheChunk(c, bytes)

FileCall(c) ==
  \/ \E bytes \in Contents : FileUploadChunk(c, bytes)
  \/ DeleteCacheFile(c)
  \/ DeleteStampFile(c)

Next ==
  \/ ModelCall
  \/ \E b \in Builds : Upgrade(b)
  \/ \E c \in Caches : RunCall(c) \/ CacheCall(c) \/ FileCall(c)

Spec == Init /\ [][Next]_vars

-----------------------------------------------------------------------------
(* Properties *)

\* The bytes that a run with model m would hand to llama.cpp were written by
\* this build and with a model of m's description.
Vouched(c, m) ==
  FormatIsCurrent(c, m) /\ cache[c] # NoFile => LlamaAccepts(cache[c], m)

\* Unless some call changed the bytes of a cache behind the back of its stamp,
\* prompt_cache_format_is_current never vouches for bytes that llama.cpp traps
\* on, whichever model is loaded next: through swaps, upgrades, copies and
\* uploads.
SoundUnlessHole == \A c \in Caches : ~hole[c] => \A m \in Models : Vouched(c, m)

\* The stamp of a session, whatever model is loaded now, names exactly the build
\* and the model that wrote the session: it is never refreshed for a model that
\* only looked at it, and swapping a model out and back in keeps the cache warm.
\* Bytes no build of this canister saved carry no stamp.
StampOf(bytes) == [format |-> bytes.build, model |-> Desc[bytes.model]]

StampIsExact ==
  \A c \in Caches :
     ~hole[c] /\ cache[c] # NoFile /\ stamp[c] # NoStamp
        => cache[c] \in Session /\ stamp[c] = StampOf(cache[c])

\* A cache saved under another name and restored is as warm as it was: the
\* copy is current whenever the original is (comment of
\* prompt_cache_copy_stamp, "the restored cache stays warm").
CopyStaysWarm ==
  [][\A from, to \in Caches, m \in Models :
        from # to /\ CopyPromptCache(from, to) /\ FormatIsCurrent(from, m)
           => FormatIsCurrent(to, m)' /\ cache'[to] = cache[from]]_vars

\* new_chat leaves the cache in a state the next run can use with the loaded
\* model: either nothing is there, or what is there is vouched for and readable.
\* It never leaves a stale file that the run would have to discard.
NewChatIsUsable ==
  [][\A c \in Caches :
        NewChat(c) /\ ~hole[c] /\ model # NoModel
           => FormatIsCurrent(c, model)' /\ LlamaAccepts(cache'[c], model)]_vars

-----------------------------------------------------------------------------
(* What the repository says and the code does not do *)

\* Every stamp tells the truth, whoever touched the files (promptcache.h: the
\* stamp must be dropped "by anything that removes or overwrites the cache
\* bytes").
SoundStamps == \A c \in Caches : \A m \in Models : Vouched(c, m)
=============================================================================
