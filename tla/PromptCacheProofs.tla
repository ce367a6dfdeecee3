------------------------- MODULE PromptCacheProofs -------------------------
(***************************************************************************)
(* The stamp of a prompt cache is sound, for every number of builds,       *)
(* models and caches, and whatever descriptions llama.cpp gives models.    *)
(*                                                                         *)
(* SoundUnlessHole is not inductive: it speaks of the stamps that are      *)
(* current now, and an upgrade or a model swap makes other stamps current. *)
(* StampIsExact is the strengthening: a stamp tells the writer of its      *)
(* bytes, current or not.                                                  *)
(***************************************************************************)
EXTENDS PromptCache, TLAPS

IInv == TypeOK /\ StampIsExact

\* What discard_if_stale keeps is of the right type, and is exactly stamped
\* when it was before.
LEMMA KeptLemma ==
  ASSUME IInv, NEW c \in Caches, NEW m
  PROVE  /\ KeptCache(c, m) \in Contents \cup {NoFile}
         /\ KeptStamp(c, m) \in Stamp \cup {NoStamp}
         /\ ~hole[c] /\ KeptCache(c, m) # NoFile /\ KeptStamp(c, m) # NoStamp
               => /\ KeptCache(c, m) \in Session
                  /\ KeptStamp(c, m) = StampOf(KeptCache(c, m))
  BY DEF IInv, TypeOK, StampIsExact, KeptCache, KeptStamp

\* The stamp a call writes is a stamp, and is exact for the session saved with it.
LEMMA FormatStampLemma ==
  ASSUME TypeOK, NEW m \in Models \cup {NoModel}
  PROVE  /\ FormatStamp(m) \in Stamp
         /\ m \in Models =>
               /\ [build |-> build, model |-> m] \in Session
               /\ FormatStamp(m) = StampOf([build |-> build, model |-> m])
  BY ModelAssumption
  DEF TypeOK, FormatStamp, ModelId, Stamp, Descs, Session, StampOf

\* Every step that goes through PutFiles keeps the files' part of the invariant
\* when what it puts is well typed and exact.
LEMMA PutFilesLemma ==
  ASSUME IInv,
         NEW c \in Caches,
         NEW bytes \in Contents \cup {NoFile},
         NEW s \in Stamp \cup {NoStamp},
         NEW h \in BOOLEAN,
         ~h /\ bytes # NoFile /\ s # NoStamp
            => bytes \in Session /\ s = StampOf(bytes),
         PutFiles(c, bytes, s, h)
  PROVE  /\ cache' \in [Caches -> Contents \cup {NoFile}]
         /\ stamp' \in [Caches -> Stamp \cup {NoStamp}]
         /\ hole' \in [Caches -> BOOLEAN]
         /\ StampIsExact'
  <1>1. /\ cache' \in [Caches -> Contents \cup {NoFile}]
        /\ stamp' \in [Caches -> Stamp \cup {NoStamp}]
        /\ hole' \in [Caches -> BOOLEAN]
    BY DEF IInv, TypeOK, PutFiles
  <1>2. ASSUME NEW d \in Caches, ~hole'[d], cache'[d] # NoFile, stamp'[d] # NoStamp
        PROVE  cache'[d] \in Session /\ stamp'[d] = StampOf(cache'[d])
    <2>1. CASE d = c
      BY <2>1, <1>2 DEF IInv, TypeOK, PutFiles
    <2>2. CASE d # c
      <3>1. cache'[d] = cache[d] /\ stamp'[d] = stamp[d] /\ hole'[d] = hole[d]
        BY <2>2 DEF IInv, TypeOK, PutFiles
      <3>2. QED BY <3>1, <1>2 DEF IInv, StampIsExact
    <2>3. QED BY <2>1, <2>2
  <1>3. StampIsExact'
    BY <1>2 DEF StampIsExact, Session, StampOf
  <1>4. QED BY <1>1, <1>3

\* Steps that change only memory leave the files as they were.
LEMMA FilesLemma ==
  ASSUME IInv, UNCHANGED files
  PROVE  /\ cache' \in [Caches -> Contents \cup {NoFile}]
         /\ stamp' \in [Caches -> Stamp \cup {NoStamp}]
         /\ hole' \in [Caches -> BOOLEAN]
         /\ StampIsExact'
  BY DEF IInv, TypeOK, StampIsExact, files, Session, StampOf

\* No cache and no stamp: the invariant holds initially.
LEMMA InitIInv == Init => IInv
  <1> SUFFICES ASSUME Init PROVE IInv
    OBVIOUS
  <1>1. TypeOK
    <2>1. build \in Builds
      BY MaxBuildAssumption DEF Init, Builds
    <2>2. cache \in [Caches -> Contents \cup {NoFile}]
      BY DEF Init
    <2>3. stamp \in [Caches -> Stamp \cup {NoStamp}]
      BY DEF Init
    <2>4. hole \in [Caches -> BOOLEAN]
      BY DEF Init
    <2>5. QED BY <2>1, <2>2, <2>3, <2>4 DEF Init, TypeOK
  <1>2. StampIsExact
    BY DEF Init, StampIsExact
  <1>3. QED BY <1>1, <1>2 DEF IInv

\* Every outcome of a run keeps the invariant: a run that stops midway leaves a
\* hole, and the others write both files or neither.
LEMMA RunStep ==
  ASSUME IInv, NEW c \in Caches, RunCall(c)
  PROVE  IInv'
  <1>1. PICK arg \in Models \cup {NoModel} :
           RunSaves(c, arg) \/ RunSavesNothing(c, arg) \/ RunLeavesMidway(c, arg)
    BY DEF RunCall
  <1> DEFINE m == RunModel(arg)
             bytes == [build |-> build, model |-> m]
  <1>2. RunStarts(arg)
    BY <1>1 DEF RunSaves, RunSavesNothing, RunLeavesMidway
  <1>3. m \in Models
    BY <1>2 DEF RunStarts, RunModel, IInv, TypeOK
  <1>4. build' \in Builds /\ model' \in Models \cup {NoModel}
          /\ ctx' \in BOOLEAN /\ ready' \in BOOLEAN
    BY <1>2, <1>3 DEF RunStarts, IInv, TypeOK
  <1>5. /\ bytes \in Session /\ bytes \in Contents
        /\ FormatStamp(m) \in Stamp /\ FormatStamp(m) = StampOf(bytes)
    BY <1>3, FormatStampLemma DEF IInv, Contents
  <1>6. /\ KeptCache(c, m) \in Contents \cup {NoFile}
        /\ KeptStamp(c, m) \in Stamp \cup {NoStamp}
        /\ ~hole[c] /\ KeptCache(c, m) # NoFile /\ KeptStamp(c, m) # NoStamp
              => /\ KeptCache(c, m) \in Session
                 /\ KeptStamp(c, m) = StampOf(KeptCache(c, m))
    BY KeptLemma
  <1> DEFINE h == hole[c] /\ KeptCache(c, m) # NoFile
  <1>7. h \in BOOLEAN
    OBVIOUS
  <1>8. \/ PutFiles(c, bytes, FormatStamp(m), FALSE)
        \/ PutFiles(c, KeptCache(c, m), KeptStamp(c, m), h)
        \/ PutFiles(c, bytes, KeptStamp(c, m), TRUE)
    BY <1>1 DEF RunSaves, RunSavesNothing, RunLeavesMidway
  <1> HIDE DEF m, bytes, h
  <1>9. CASE PutFiles(c, bytes, FormatStamp(m), FALSE)
    BY <1>9, <1>4, <1>5, PutFilesLemma DEF IInv, TypeOK
  <1>10. CASE PutFiles(c, KeptCache(c, m), KeptStamp(c, m), h)
    <2>1. ~h /\ KeptCache(c, m) # NoFile /\ KeptStamp(c, m) # NoStamp
             => /\ KeptCache(c, m) \in Session
                /\ KeptStamp(c, m) = StampOf(KeptCache(c, m))
      BY <1>6 DEF h
    <2>2. QED BY <2>1, <1>10, <1>4, <1>6, <1>7, PutFilesLemma DEF IInv, TypeOK
  <1>11. CASE PutFiles(c, bytes, KeptStamp(c, m), TRUE)
    BY <1>11, <1>4, <1>5, <1>6, PutFilesLemma DEF IInv, TypeOK
  <1>12. QED BY <1>8, <1>9, <1>10, <1>11

\* The calls of promptcache.cpp and new_chat keep the invariant.
LEMMA CacheStep ==
  ASSUME IInv, NEW c \in Caches, CacheCall(c)
  PROVE  IInv'
  <1>1. UNCHANGED <<build, memory>>
    BY DEF CacheCall, NewChat, RemovePromptCache, CopyPromptCache,
           UploadPromptCacheChunk
  <1>2. build' \in Builds /\ model' \in Models \cup {NoModel}
          /\ ctx' \in BOOLEAN /\ ready' \in BOOLEAN
    BY <1>1 DEF memory, IInv, TypeOK
  <1>3. CASE NewChat(c)
    <2> DEFINE kept == KeptCache(c, model)
               s == IF kept = NoFile THEN FormatStamp(model) ELSE stamp[c]
               h == hole[c] /\ kept # NoFile
    <2>1. PutFiles(c, kept, s, h)
      BY <1>3 DEF NewChat
    <2>2. model \in Models \cup {NoModel}
      BY DEF IInv, TypeOK
    <2>3. kept \in Contents \cup {NoFile}
      BY KeptLemma
    <2>4. s \in Stamp \cup {NoStamp}
      BY <2>2, FormatStampLemma DEF IInv, TypeOK
    <2>5. h \in BOOLEAN
      OBVIOUS
    <2>6. ~h /\ kept # NoFile /\ s # NoStamp
            => kept \in Session /\ s = StampOf(kept)
      BY DEF KeptCache, IInv, StampIsExact
    <2> HIDE DEF kept, s, h
    <2>7. QED BY <2>1, <2>3, <2>4, <2>5, <2>6, <1>2, PutFilesLemma DEF IInv, TypeOK
  <1>4. CASE RemovePromptCache(c)
    BY <1>4, <1>2, PutFilesLemma DEF RemovePromptCache, IInv, TypeOK
  <1>5. ASSUME NEW to \in Caches, CopyPromptCache(c, to)
        PROVE  IInv'
    <2>1. CASE PutFiles(to, cache[c], stamp[c], hole[c])
      <3>1. /\ cache[c] \in Contents \cup {NoFile}
            /\ stamp[c] \in Stamp \cup {NoStamp}
            /\ hole[c] \in BOOLEAN
            /\ ~hole[c] /\ cache[c] # NoFile /\ stamp[c] # NoStamp
                 => cache[c] \in Session /\ stamp[c] = StampOf(cache[c])
        BY DEF IInv, TypeOK, StampIsExact
      <3>2. QED BY <3>1, <2>1, <1>2, PutFilesLemma DEF IInv, TypeOK
    <2>2. CASE PutFiles(to, NoFile, stamp[to], TRUE)
      <3>1. stamp[to] \in Stamp \cup {NoStamp}
        BY DEF IInv, TypeOK
      <3>2. QED BY <3>1, <2>2, <1>2, PutFilesLemma DEF IInv, TypeOK
    <2>3. QED BY <1>5, <2>1, <2>2 DEF CopyPromptCache
  <1>6. ASSUME NEW bytes \in Contents \cup {cache[c]},
               UploadPromptCacheChunk(c, bytes)
        PROVE  IInv'
    <2>1. bytes \in Contents \cup {NoFile}
      BY DEF IInv, TypeOK
    <2>2. PutFiles(c, bytes, NoStamp, FALSE)
      BY <1>6 DEF UploadPromptCacheChunk
    <2>3. QED BY <2>1, <2>2, <1>2, PutFilesLemma DEF IInv, TypeOK
  <1>7. QED BY <1>3, <1>4, <1>5, <1>6 DEF CacheCall

\* The file endpoints keep the invariant, at the price of a hole.
LEMMA FileStep ==
  ASSUME IInv, NEW c \in Caches, FileCall(c)
  PROVE  IInv'
  <1>1. UNCHANGED <<build, memory>>
    BY DEF FileCall, FileUploadChunk, DeleteCacheFile, DeleteStampFile
  <1>2. build' \in Builds /\ model' \in Models \cup {NoModel}
          /\ ctx' \in BOOLEAN /\ ready' \in BOOLEAN
    BY <1>1 DEF memory, IInv, TypeOK
  <1>3. cache[c] \in Contents \cup {NoFile} /\ stamp[c] \in Stamp \cup {NoStamp}
    BY DEF IInv, TypeOK
  <1>4. ASSUME NEW bytes \in Contents, FileUploadChunk(c, bytes)
        PROVE  IInv'
    BY <1>4, <1>2, <1>3, PutFilesLemma DEF FileUploadChunk, IInv, TypeOK
  <1>5. CASE DeleteCacheFile(c)
    BY <1>5, <1>2, <1>3, PutFilesLemma DEF DeleteCacheFile, IInv, TypeOK
  <1>6. CASE DeleteStampFile(c)
    BY <1>6, <1>2, <1>3, PutFilesLemma DEF DeleteStampFile, IInv, TypeOK
  <1>7. QED BY <1>4, <1>5, <1>6 DEF FileCall

\* Every step of the system keeps the invariant.
LEMMA NextIInv == IInv /\ [Next]_vars => IInv'
  <1> SUFFICES ASSUME IInv, [Next]_vars PROVE IInv'
    OBVIOUS
  <1>1. CASE ModelCall
    <2>1. PICK m \in Models : LoadModel(m) \/ ModelLoadFails(m)
      BY <1>1 DEF ModelCall
    <2>2. UNCHANGED files
      BY <2>1 DEF LoadModel, ModelLoadFails
    <2>3. build' \in Builds /\ model' \in Models \cup {NoModel}
            /\ ctx' \in BOOLEAN /\ ready' \in BOOLEAN
      BY <2>1 DEF LoadModel, ModelLoadFails, IInv, TypeOK
    <2>4. QED BY <2>2, <2>3, FilesLemma DEF IInv, TypeOK
  <1>2. ASSUME NEW b \in Builds, Upgrade(b)
        PROVE  IInv'
    BY <1>2, FilesLemma DEF Upgrade, IInv, TypeOK
  <1>3. ASSUME NEW c \in Caches, RunCall(c) \/ CacheCall(c) \/ FileCall(c)
        PROVE  IInv'
    BY <1>3, RunStep, CacheStep, FileStep
  <1>4. CASE UNCHANGED vars
    <2>1. UNCHANGED files
      BY <1>4 DEF vars, files
    <2>2. QED BY <2>1, <1>4, FilesLemma DEF vars, IInv, TypeOK
  <1>5. QED BY <1>1, <1>2, <1>3, <1>4 DEF Next

\* The exactness of stamps gives their soundness.
LEMMA ExactIsSound == IInv => SoundUnlessHole
  <1> SUFFICES ASSUME IInv, NEW c \in Caches, ~hole[c], NEW m \in Models,
                      FormatIsCurrent(c, m), cache[c] # NoFile
               PROVE  LlamaAccepts(cache[c], m)
    BY DEF SoundUnlessHole, Vouched
  <1>1. cache[c] \in Session /\ stamp[c] = StampOf(cache[c])
    BY DEF FormatIsCurrent, IInv, StampIsExact
  <1>2. cache[c].build = build /\ Desc[cache[c].model] = Desc[m]
    BY <1>1, ModelAssumption DEF FormatIsCurrent, ModelId, StampOf
  <1>3. QED BY <1>1, <1>2 DEF LlamaAccepts

\* Type correctness: every reachable state holds values of the declared types.
THEOREM TypeCorrect == Spec => []TypeOK
  <1>1. IInv => TypeOK
    BY DEF IInv
  <1>2. QED BY <1>1, InitIInv, NextIInv, PTL DEF Spec

\* Every stamp that is there names the build and the model that wrote the bytes
\* beside it, unless some call changed the bytes alone.
THEOREM StampsAreExact == Spec => []StampIsExact
  <1>1. IInv => StampIsExact
    BY DEF IInv
  <1>2. QED BY <1>1, InitIInv, NextIInv, PTL DEF Spec

\* The guard in front of llama_state_load_file never lets through a session that
\* llama.cpp traps on, unless some call changed the bytes of the cache alone.
THEOREM StampsAreSound == Spec => []SoundUnlessHole
  BY ExactIsSound, InitIInv, NextIInv, PTL DEF Spec

\* A restored copy of a cache is as warm as the cache it was copied from.
THEOREM CopiesStayWarm == Spec => CopyStaysWarm
  <1>1. IInv /\ [Next]_vars =>
          [\A from, to \in Caches, m \in Models :
             from # to /\ CopyPromptCache(from, to) /\ FormatIsCurrent(from, m)
                => FormatIsCurrent(to, m)' /\ cache'[to] = cache[from]]_vars
    <2> SUFFICES ASSUME IInv, NEW from \in Caches, NEW to \in Caches,
                        NEW m \in Models, from # to,
                        CopyPromptCache(from, to), FormatIsCurrent(from, m)
                 PROVE  FormatIsCurrent(to, m)' /\ cache'[to] = cache[from]
      OBVIOUS
    <2>1. PutFiles(to, cache[from], stamp[from], hole[from]) /\ build' = build
      BY DEF CopyPromptCache
    <2>2. cache'[to] = cache[from] /\ stamp'[to] = stamp[from]
      BY <2>1 DEF PutFiles, IInv, TypeOK
    <2>3. QED BY <2>1, <2>2 DEF FormatIsCurrent, ModelId
  <1>2. QED BY <1>1, InitIInv, NextIInv, PTL DEF Spec, CopyStaysWarm

\* new_chat keeps a cache that is current and stamps one that is not there, so
\* that the next run with the loaded model neither discards the cache nor traps
\* on it.
THEOREM NewChatsAreUsable == Spec => NewChatIsUsable
  <1>1. ASSUME IInv, NEW c \in Caches, NewChat(c), ~hole[c], model # NoModel
        PROVE  FormatIsCurrent(c, model)' /\ LlamaAccepts(cache'[c], model)
    <2>1. /\ model \in Models /\ build' = build /\ model' = model
          /\ cache[c] \in Contents \cup {NoFile}
          /\ cache'[c] = KeptCache(c, model)
          /\ stamp'[c] = IF KeptCache(c, model) = NoFile THEN FormatStamp(model)
                                                         ELSE stamp[c]
      BY <1>1 DEF NewChat, PutFiles, memory, IInv, TypeOK
    <2>2. CASE KeptCache(c, model) = NoFile
      <3>1. stamp'[c] \in Stamp /\ stamp'[c] = FormatStamp(model)
        BY <1>1, <2>1, <2>2, FormatStampLemma DEF IInv
      <3>2. stamp'[c] # NoStamp
        BY <3>1, ValueAssumption
      <3> QED
        BY <2>1, <2>2, <3>1, <3>2 DEF FormatIsCurrent, FormatStamp, LlamaAccepts, ModelId
    <2>3. CASE KeptCache(c, model) # NoFile
      <3>1. cache'[c] = cache[c] /\ stamp'[c] = stamp[c] /\ FormatIsCurrent(c, model)
        BY <2>1, <2>3 DEF KeptCache, Stale
      <3>2. LlamaAccepts(cache[c], model)
        BY <1>1, <2>1, <2>3, <3>1, ExactIsSound DEF SoundUnlessHole, Vouched
      <3> QED
        BY <2>1, <3>1, <3>2 DEF FormatIsCurrent, ModelId
    <2> QED
      BY <2>2, <2>3
  <1>2. IInv /\ [Next]_vars =>
          [\A c \in Caches :
             NewChat(c) /\ ~hole[c] /\ model # NoModel
                => FormatIsCurrent(c, model)' /\ LlamaAccepts(cache'[c], model)]_vars
    BY <1>1
  <1>3. QED BY <1>2, InitIInv, NextIInv, PTL DEF Spec, NewChatIsUsable
=============================================================================
