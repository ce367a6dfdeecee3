----------------------------- MODULE TimerProofs -----------------------------
(***************************************************************************)
(* Proofs about the two timers of the canister, for any caches, any        *)
(* configuration, any periods and any number of timer ids: the cleanup     *)
(* alone (Spec), and the cleanup and the balance in one runtime (BSpec).   *)
(*                                                                         *)
(* That a tick leaves a used cache warm rests on one fact about the calls: *)
(* the stamp of a cache is as old as its bytes, unless the bytes were      *)
(* written alone (StampsAge).  A tick then judges the two alike.           *)
(*                                                                         *)
(* With two timers, neither OneTimer nor RecentOrRefused is inductive      *)
(* alone: a timer is cancelled by its id, so that the two have to have     *)
(* different ones, and that the runtime never has a third timer is needed  *)
(* for both.                                                               *)
(***************************************************************************)
EXTENDS CycleBalance, FiniteSetTheorems, WellFoundedInduction, TLAPS

\* The two files of a cache were written together.
StampsAge ==
  \A c \in Caches :
     ~alone[c] /\ age[Bytes(c)] # Absent /\ age[StampFile(c)] # Absent
        => age[StampFile(c)] = age[Bytes(c)]

\* No other part of the canister arms a timer here; CycleBalance is where one does.
OnlyCleanup == CleanupTimers = live

IInv == TypeOK /\ OneTimer /\ OnlyCleanup /\ StampsAge

-----------------------------------------------------------------------------
(* Lemmas *)

\* Both files of a cache are files, and they are different ones.
LEMMA FilesOfACache ==
  ASSUME NEW c \in Caches
  PROVE  /\ Bytes(c) \in Files /\ StampFile(c) \in Files
         /\ Bytes(c) # StampFile(c)
         /\ \A d \in Caches : /\ Bytes(d) # StampFile(c)
                              /\ Bytes(d) = Bytes(c) <=> d = c
                              /\ StampFile(d) = StampFile(c) <=> d = c
BY DEF Files, Bytes, StampFile

\* PutAges keeps the invariant when it writes both files together, or says that
\* it did not.
LEMMA PutAgesKeeps ==
  ASSUME IInv, NEW c \in Caches,
         NEW b \in Ages \cup {Absent}, NEW s \in Ages \cup {Absent},
         NEW a \in BOOLEAN,
         PutAges(c, b, s, a),
         a \/ b = Absent \/ s = Absent \/ b = s
  PROVE  IInv'
<1>1. /\ age' = [age EXCEPT ![Bytes(c)] = b, ![StampFile(c)] = s]
      /\ alone' = [alone EXCEPT ![c] = a]
      /\ UNCHANGED <<config, timer, live>>
  BY DEF PutAges, settings
<1>2. /\ age \in [Files -> Ages \cup {Absent}] /\ alone \in [Caches -> BOOLEAN]
      /\ TypeOK /\ OneTimer /\ OnlyCleanup /\ StampsAge
  BY DEF IInv, TypeOK
<1>3. TypeOK'
  BY <1>1, <1>2 DEF TypeOK
<1>4. OneTimer' /\ OnlyCleanup'
  BY <1>1, <1>2 DEF OneTimer, OnlyCleanup, CleanupTimers
<1>5. StampsAge'
  <2> SUFFICES ASSUME NEW d \in Caches, ~alone'[d],
                      age'[Bytes(d)] # Absent, age'[StampFile(d)] # Absent
               PROVE  age'[StampFile(d)] = age'[Bytes(d)]
    BY DEF StampsAge, Bytes, StampFile
  <2>1. CASE d = c
    BY <2>1, <1>1, <1>2, FilesOfACache
  <2>2. CASE d # c
    <3>1. /\ age'[Bytes(d)] = age[Bytes(d)] /\ age'[StampFile(d)] = age[StampFile(d)]
          /\ alone'[d] = alone[d]
      BY <2>2, <1>1, <1>2, FilesOfACache
    <3> QED
      BY <3>1, <1>2 DEF StampsAge
  <2> QED
    BY <2>1, <2>2
<1> QED
  BY <1>3, <1>4, <1>5 DEF IInv

\* A cleanup looks at each file by its age alone.
LEMMA CleanupKeeps ==
  ASSUME IInv, NEW met, NEW bad, Cleanup(met, bad)
  PROVE  /\ age' \in [Files -> Ages \cup {Absent}]
         /\ StampsAge'
<1>1. /\ age' = [f \in Files |-> IF f \in Examined(met) \ bad /\ Stale(f)
                                   THEN Absent ELSE age[f]]
      /\ alone' = alone
  BY DEF Cleanup
<1>2. age \in [Files -> Ages \cup {Absent}] /\ StampsAge
  BY DEF IInv, TypeOK
<1>3. \A f \in Files : age'[f] \in {Absent, age[f]}
  BY <1>1
<1>4. age' \in [Files -> Ages \cup {Absent}]
  BY <1>1, <1>2
<1>5. StampsAge'
  <2> SUFFICES ASSUME NEW d \in Caches, ~alone'[d],
                      age'[Bytes(d)] # Absent, age'[StampFile(d)] # Absent
               PROVE  age'[StampFile(d)] = age'[Bytes(d)]
    BY DEF StampsAge, Bytes, StampFile
  <2>1. age'[Bytes(d)] = age[Bytes(d)] /\ age'[StampFile(d)] = age[StampFile(d)]
    BY <1>3, FilesOfACache
  <2> QED
    BY <2>1, <1>1, <1>2 DEF StampsAge
<1> QED
  BY <1>4, <1>5

-----------------------------------------------------------------------------
(* The invariant *)

LEMMA InitHolds == Init => IInv
<1> SUFFICES ASSUME Init PROVE IInv
  OBVIOUS
<1>1. TypeOK
  BY ConfigAssumption DEF Init, TypeOK
<1>2. OneTimer /\ OnlyCleanup
  BY DEF Init, OneTimer, OnlyCleanup, CleanupTimers
<1>3. StampsAge
  BY FilesOfACache DEF Init, StampsAge
<1> QED
  BY <1>1, <1>2, <1>3 DEF IInv

LEMMA CacheCallKeeps ==
  ASSUME IInv, NEW c \in Caches, CacheCall(c)
  PROVE  IInv'
<1>0. /\ 0 \in Ages
      /\ \A d \in Caches : /\ age[Bytes(d)] \in Ages \cup {Absent}
                           /\ age[StampFile(d)] \in Ages \cup {Absent}
  BY AgeAssumption, FilesOfACache DEF IInv, TypeOK, Ages
<1>1. CASE Save(c)
  BY <1>0, <1>1, PutAgesKeeps DEF Save
<1>2. CASE SaveEarly(c)
  BY <1>0, <1>2, PutAgesKeeps DEF SaveEarly
<1>3. CASE Remove(c)
  BY <1>0, <1>3, PutAgesKeeps DEF Remove
<1>4. CASE NewChat(c)
  BY <1>0, <1>4, PutAgesKeeps DEF NewChat
<1>5. CASE Upload(c)
  BY <1>0, <1>5, PutAgesKeeps DEF Upload
<1>6. ASSUME NEW to \in Caches, Copy(c, to)
      PROVE  IInv'
  BY <1>0, <1>6, PutAgesKeeps DEF Copy
<1> QED
  BY <1>1, <1>2, <1>3, <1>4, <1>5, <1>6 DEF CacheCall

\* What a timer that is armed looks like.
Armed(n) == [id |-> timer, what |-> "cleanup", period |-> config.period, left |-> n]

\* A timer alone is the one timer; without a timer there is none.
LEMMA ArmedIsOne ==
  ASSUME NEW n, live = {Armed(n)}, n \in 0 .. config.period, timer # 0
  PROVE  OneTimer /\ OnlyCleanup
<1>1. Armed(n).what = "cleanup"
  BY DEF Armed
<1>2. CleanupTimers = {Armed(n)}
  BY <1>1 DEF CleanupTimers
<1> QED
  BY <1>2 DEF OneTimer, OnlyCleanup, Armed

LEMMA OneIsArmed ==
  ASSUME IInv, timer # 0
  PROVE  \E n \in 0 .. config.period : live = {Armed(n)}
BY DEF IInv, OneTimer, OnlyCleanup, Armed

LEMMA TickKeeps ==
  ASSUME IInv, Fire \/ CleanupNow
  PROVE  IInv'
<1>1. PICK met, bad : Cleanup(met, bad)
  BY DEF Fire, CleanupNow, AnyCleanup
<1>2. config' = config /\ timer' = timer /\ alone' = alone
  BY <1>1 DEF Cleanup
<1>3. age' \in [Files -> Ages \cup {Absent}] /\ StampsAge'
  BY <1>1, CleanupKeeps
<1>4. live' \subseteq Timers /\ OneTimer' /\ OnlyCleanup'
  <2>1. CASE UNCHANGED live
    BY <2>1, <1>2 DEF IInv, TypeOK, OneTimer, OnlyCleanup, CleanupTimers
  <2>2. CASE \E t \in Due("cleanup") : Rearmed(t)
    <3>0. PICK t \in live : Rearmed(t)
      BY <2>2 DEF Due
    <3>1. PICK n \in 1 .. t.period :
             live' = (live \ {t}) \cup {[t EXCEPT !.left = n]}
      BY <3>0 DEF Rearmed
    <3>2. timer # 0 /\ config.period \in Nat \ {0} /\ timer \in TimerIds
      BY <3>0 DEF IInv, OneTimer, OnlyCleanup, TypeOK, Config
    <3>3. PICK k \in 0 .. config.period : live = {Armed(k)}
      BY <3>2, OneIsArmed
    <3>4. n \in 1 .. config.period /\ live' = {Armed(n)}
      BY <3>0, <3>1, <3>3 DEF Armed
    <3>5. n \in Nat /\ n <= config.period
      BY <3>2, <3>4
    <3>6. live' \subseteq Timers
      BY <3>2, <3>4, <3>5 DEF Timers, Armed
    <3>7. OneTimer' /\ OnlyCleanup'
      <4>1. /\ live' = {[id |-> timer', what |-> "cleanup",
                          period |-> config'.period, left |-> n]}
            /\ timer' # 0 /\ n \in 0 .. config'.period
        BY <3>2, <3>4, <3>5, <1>2 DEF Armed
      <4> QED
        BY <4>1 DEF OneTimer, OnlyCleanup, CleanupTimers
    <3> QED
      BY <3>6, <3>7
  <2> QED
    BY <2>1, <2>2 DEF Fire, CleanupNow
<1> QED
  BY <1>2, <1>3, <1>4 DEF IInv, TypeOK

LEMMA PassKeeps ==
  ASSUME IInv, Pass
  PROVE  IInv'
<1>1. /\ age' = [f \in Files |-> Older(age[f])]
      /\ live' = {[t EXCEPT !.left = IF @ = 0 THEN 0 ELSE @ - 1] : t \in live}
      /\ UNCHANGED <<config, timer, alone>>
  BY DEF Pass
<1>2. age' \in [Files -> Ages \cup {Absent}]
  BY <1>1, AgeAssumption DEF IInv, TypeOK, Ages, Older
<1>3. StampsAge'
  <2> SUFFICES ASSUME NEW d \in Caches, ~alone'[d],
                      age'[Bytes(d)] # Absent, age'[StampFile(d)] # Absent
               PROVE  age'[StampFile(d)] = age'[Bytes(d)]
    BY DEF StampsAge, Bytes, StampFile
  <2>1. age'[Bytes(d)] = Older(age[Bytes(d)]) /\ age'[StampFile(d)] = Older(age[StampFile(d)])
    BY <1>1, FilesOfACache
  <2>2. age[Bytes(d)] # Absent /\ age[StampFile(d)] # Absent
    BY <2>1 DEF Older
  <2> QED
    BY <2>1, <2>2, <1>1 DEF IInv, StampsAge
<1>4. live' \subseteq Timers /\ OneTimer' /\ OnlyCleanup'
  <2>1. CASE timer = 0
    BY <2>1, <1>1 DEF IInv, OneTimer, OnlyCleanup, CleanupTimers
  <2>2. CASE timer # 0
    <3>1. PICK k \in 0 .. config.period : live = {Armed(k)}
      BY <2>2, OneIsArmed
    <3>2. config.period \in Nat \ {0} /\ timer \in TimerIds
      BY <2>2 DEF IInv, TypeOK, Config
    <3>3. PICK n \in 0 .. config.period : live' = {Armed(n)}
      <4>1. live' = {Armed(IF k = 0 THEN 0 ELSE k - 1)}
        BY <1>1, <3>1 DEF Armed
      <4>2. (IF k = 0 THEN 0 ELSE k - 1) \in 0 .. config.period
        BY <3>2
      <4> QED
        BY <4>1, <4>2
    <3>4. live' \subseteq Timers
      BY <3>2, <3>3 DEF Timers, Armed
    <3>5. OneTimer' /\ OnlyCleanup'
      <4>1. /\ live' = {[id |-> timer', what |-> "cleanup",
                          period |-> config'.period, left |-> n]}
            /\ timer' # 0 /\ n \in 0 .. config'.period
        BY <2>2, <3>3, <1>1 DEF Armed
      <4> QED
        BY <4>1 DEF OneTimer, OnlyCleanup, CleanupTimers
    <3> QED
      BY <3>4, <3>5
  <2> QED
    BY <2>1, <2>2
<1> QED
  BY <1>1, <1>2, <1>3, <1>4 DEF IInv, TypeOK

\* Cancelling the timer the canister knows of leaves none.
LEMMA NothingLeft == ASSUME IInv PROVE Cancelled = {}
<1>1. CASE timer = 0
  BY <1>1 DEF IInv, OneTimer, OnlyCleanup, Cancelled
<1>2. CASE timer # 0
  BY <1>2, OneIsArmed DEF Armed, Cancelled
<1> QED
  BY <1>1, <1>2

\* What is set is a configuration.
LEMMA ConfiguredIsConfig ==
  ASSUME IInv, NEW p \in Periods \cup {Same, TooLong},
         NEW t \in Ttls \cup {Same, TooLong}, NEW n \in Caps \cup {Same}
  PROVE  Configured(p, t, n) \in Config
<1>1. config \in Config
  BY DEF IInv, TypeOK
<1>2. (IF p \in {Same, TooLong, 0} THEN config.period ELSE p) \in Nat \ {0}
  BY <1>1, ConfigAssumption DEF Config
<1>3. (IF t \in {Same, TooLong} THEN config.ttl ELSE t) \in Nat
  BY <1>1, ConfigAssumption, AgeAssumption DEF Config
<1>4. (IF n = Same THEN config.cap ELSE Clamp(n)) \in Floor .. Ceiling
  BY <1>1, ConfigAssumption DEF Config, Clamp
<1> QED
  BY <1>2, <1>3, <1>4 DEF Config, Configured

LEMMA AdminKeeps ==
  ASSUME IInv, StartTimer \/ StopTimer \/ Upgrade
               \/ \E p \in Periods \cup {Same, TooLong}, t \in Ttls \cup {Same, TooLong},
                     n \in Caps \cup {Same} : SetConfig(p, t, n)
  PROVE  IInv'
<1>0. /\ Cancelled = {} /\ TypeOK /\ OneTimer /\ OnlyCleanup /\ StampsAge
      /\ config.period \in Nat \ {0}
  BY NothingLeft DEF IInv, TypeOK, Config
<1>1. ASSUME NEW id \in Unused, NEW cfg \in Config,
             config' = cfg, timer' = id, age' = age, alone' = alone,
             live' = Cancelled \cup {NewTimer(id, "cleanup", cfg.period)}
      PROVE  IInv'
  <2>1. id \in TimerIds /\ id # 0 /\ cfg.period \in Nat \ {0}
    BY TimerAssumption DEF Unused, Config
  <2>2. live' = {[id |-> id, what |-> "cleanup", period |-> cfg.period,
                 left |-> cfg.period]}
    BY <1>0, <1>1 DEF NewTimer
  <2>3. TypeOK'
    BY <1>0, <1>1, <2>1, <2>2 DEF TypeOK, Timers
  <2>4. OneTimer' /\ OnlyCleanup'
    <3>1. cfg.period \in 0 .. cfg.period
      BY <2>1
    <3> QED
      BY <1>1, <2>1, <2>2, <3>1 DEF OneTimer, OnlyCleanup, CleanupTimers
  <2>5. StampsAge'
    BY <1>0, <1>1 DEF StampsAge, Bytes, StampFile
  <2> QED
    BY <2>3, <2>4, <2>5 DEF IInv
<1>2. ASSUME NEW cfg \in Config, config' = cfg, timer' = 0, live' = {},
             age' = age, alone' = alone
      PROVE  IInv'
  BY <1>0, <1>2
    DEF IInv, TypeOK, OneTimer, OnlyCleanup, CleanupTimers, StampsAge, Bytes, StampFile
<1>3. CASE StartTimer
  BY <1>0, <1>1, <1>3 DEF StartTimer, TypeOK
<1>4. CASE StopTimer
  BY <1>0, <1>2, <1>4 DEF StopTimer, TypeOK
<1>5. CASE Upgrade
  BY <1>2, <1>5, ConfigAssumption DEF Upgrade
<1>6. ASSUME NEW p \in Periods \cup {Same, TooLong}, NEW t \in Ttls \cup {Same, TooLong},
             NEW n \in Caps \cup {Same}, SetConfig(p, t, n)
      PROVE  IInv'
  <2>1. config' \in Config /\ age' = age /\ alone' = alone
    BY <1>6, ConfiguredIsConfig DEF SetConfig
  <2>2. CASE timer = 0
    BY <1>0, <1>2, <1>6, <2>1, <2>2 DEF SetConfig, OneTimer, OnlyCleanup
  <2>3. CASE timer # 0
    BY <1>1, <1>6, <2>1, <2>3 DEF SetConfig
  <2> QED
    BY <2>2, <2>3
<1> QED
  BY <1>3, <1>4, <1>5, <1>6

LEMMA NextKeeps == IInv /\ [Next]_vars => IInv'
<1> SUFFICES ASSUME IInv, [Next]_vars PROVE IInv'
  OBVIOUS
<1>1. ASSUME NEW c \in Caches, CacheCall(c) PROVE IInv'
  BY <1>1, CacheCallKeeps
<1>2. CASE Fire \/ CleanupNow
  BY <1>2, TickKeeps
<1>3. CASE Pass
  BY <1>3, PassKeeps
<1>4. CASE Admin
  BY <1>2, <1>4, AdminKeeps DEF Admin
<1>5. CASE UNCHANGED vars
  BY <1>5
    DEF vars, settings, IInv, TypeOK, OneTimer, OnlyCleanup, CleanupTimers, StampsAge,
        Bytes, StampFile
<1> QED
  BY <1>1, <1>2, <1>3, <1>4, <1>5 DEF Next

\* A tick treats the two files of a used cache alike.
LEMMA TickLeavesFresh ==
  ASSUME IInv, Fire \/ CleanupNow, NEW c \in Caches,
         age[Bytes(c)] # Absent, age[Bytes(c)] < config.ttl, ~alone[c]
  PROVE  /\ age'[Bytes(c)] = age[Bytes(c)]
         /\ age'[StampFile(c)] = age[StampFile(c)]
<1>1. PICK met, bad : Cleanup(met, bad)
  BY DEF Fire, CleanupNow, AnyCleanup
<1>2. age[Bytes(c)] \in Nat /\ config.ttl \in Nat
  BY FilesOfACache DEF IInv, TypeOK, Ages, Config
<1>3. ~Stale(Bytes(c)) /\ ~Stale(StampFile(c))
  BY <1>2 DEF Stale, IInv, StampsAge
<1> QED
  BY <1>1, <1>3, FilesOfACache DEF Cleanup

-----------------------------------------------------------------------------
(* The order of the files in the directories *)

\* The files of a set that are listed before and after a file.
Sooner(P, f) == {g \in P : Place[g] < Place[f]}
Later(P, f) == {g \in P : Place[g] > Place[f]}

\* A set of places that is not empty has a first one.
LEMMA LeastPlace ==
  ASSUME NEW S \in SUBSET Nat, S # {}
  PROVE  \E m \in S : \A n \in S : m <= n
<1>1. OpToRel(<, Nat) = {r \in Nat \X Nat : r[1] < r[2]}
  BY DEF OpToRel
<1>2. \E m \in S : \A n \in S : ~(<<n, m>> \in OpToRel(<, Nat))
  BY NatLessThanWellFounded, WFMin
<1>3. PICK m \in S : \A n \in S : ~(<<n, m>> \in {r \in Nat \X Nat : r[1] < r[2]})
  BY <1>1, <1>2
<1>4. ASSUME NEW n \in S PROVE m <= n
  <2>1. <<n, m>> \in Nat \X Nat /\ m \in Nat /\ n \in Nat
    OBVIOUS
  <2> QED BY <1>3, <2>1
<1> QED BY <1>4

LEMMA FirstFile ==
  ASSUME NEW P \in SUBSET Files, P # {}
  PROVE  \E f \in P : \A g \in P : Place[f] <= Place[g]
<1>1. {Place[f] : f \in P} \in SUBSET Nat /\ {Place[f] : f \in P} # {}
  BY PlaceAssumption
<1>2. PICK m \in {Place[f] : f \in P} : \A n \in {Place[f] : f \in P} : m <= n
  BY <1>1, LeastPlace
<1> QED BY <1>2

\* The file with the fewest after it is the last one.
LEMMA LastFile ==
  ASSUME NEW P \in SUBSET Files, IsFiniteSet(P), P # {}
  PROVE  \E f \in P : \A g \in P : Place[g] <= Place[f]
<1> DEFINE Counts == {Cardinality(Later(P, f)) : f \in P}
<1>1. \A f \in P : IsFiniteSet(Later(P, f)) /\ Cardinality(Later(P, f)) \in Nat
  <2> TAKE f \in P
  <2>1. Later(P, f) \in SUBSET P
    BY DEF Later
  <2> QED BY <2>1, FS_Subset, FS_CardinalityType
<1>2. Counts \in SUBSET Nat /\ Counts # {}
  BY <1>1
<1>3. PICK m \in Counts : \A n \in Counts : m <= n
  <2> HIDE DEF Counts
  <2> QED BY <1>2, LeastPlace
<1>4. PICK f \in P : m = Cardinality(Later(P, f))
  OBVIOUS
<1>5. \A g \in P : Cardinality(Later(P, f)) <= Cardinality(Later(P, g))
  BY <1>3, <1>4
<1>6. ASSUME NEW g \in P, Place[g] > Place[f] PROVE FALSE
  <2>1. Place[f] \in Nat /\ Place[g] \in Nat
    BY PlaceAssumption
  <2>2. Later(P, g) \in SUBSET Later(P, f)
    <3> SUFFICES ASSUME NEW h \in P, Place[h] > Place[g]
                 PROVE  Place[h] > Place[f]
      BY DEF Later
    <3>1. Place[h] \in Nat
      BY PlaceAssumption
    <3> QED BY <1>6, <2>1, <3>1
  <2>3. g \in Later(P, f) /\ g \notin Later(P, g)
    BY <1>6, <2>1 DEF Later
  <2>4. /\ Cardinality(Later(P, g)) <= Cardinality(Later(P, f))
        /\ Cardinality(Later(P, g)) # Cardinality(Later(P, f))
    BY <1>1, <2>2, <2>3, FS_Subset
  <2> QED BY <1>1, <1>5, <2>4
<1>7. \A g \in P : Place[g] \in Nat /\ Place[f] \in Nat
  BY PlaceAssumption
<1> QED BY <1>6, <1>7

LEMMA PresentIsFinite ==
  IsFiniteSet(Present)
<1>1. IsFiniteSet({"bytes", "stamp"})
  <2>1. IsFiniteSet({"bytes"})
    BY FS_Singleton
  <2>2. IsFiniteSet({"bytes"} \cup {"stamp"})
    BY <2>1, FS_AddElement
  <2>3. {"bytes"} \cup {"stamp"} = {"bytes", "stamp"}
    OBVIOUS
  <2> QED BY <2>2, <2>3
<1>2. IsFiniteSet(Files)
  BY <1>1, CachesAssumption, FS_Product DEF Files
<1>3. Present \in SUBSET Files
  BY DEF Present
<1> QED BY <1>2, <1>3, FS_Subset

\* A walk that does not reach the end of the directory has reached the cap.  The
\* first file it does not look at has all the others before it, and the last one
\* it looks at has fewer than the cap before it.
LEMMA WalkEndsAtCap ==
  ASSUME NEW P \in SUBSET Files, IsFiniteSet(P), config.cap \in Nat \ {0},
         Examined(P) # P
  PROVE  Cardinality(Examined(P)) = config.cap
<1> DEFINE E == Examined(P)
<1>1. /\ E \in SUBSET P
      /\ \A f \in P : f \in E <=> Cardinality(Sooner(P, f)) < config.cap
  BY DEF Examined, Sooner
<1>2. \A f \in P : /\ Sooner(P, f) \in SUBSET P /\ IsFiniteSet(Sooner(P, f))
                   /\ Cardinality(Sooner(P, f)) \in Nat
  <2> TAKE f \in P
  <2>1. Sooner(P, f) \in SUBSET P
    BY DEF Sooner
  <2> QED BY <2>1, FS_Subset, FS_CardinalityType
<1>3. IsFiniteSet(E) /\ Cardinality(E) \in Nat
  BY <1>1, FS_Subset, FS_CardinalityType
<1>4. \A f \in P : Place[f] \in Nat
  BY PlaceAssumption
<1> HIDE DEF E
<1>5. PICK f \in P \ E : \A g \in P \ E : Place[f] <= Place[g]
  <2>1. P \ E # {} /\ P \ E \in SUBSET Files
    BY <1>1 DEF E
  <2> QED BY <2>1, FirstFile
<1>6. Sooner(P, f) \in SUBSET E
  <2> SUFFICES ASSUME NEW g \in P, Place[g] < Place[f], g \notin E PROVE FALSE
    BY DEF Sooner
  <2> QED BY <1>4, <1>5
<1>7. Cardinality(E) >= config.cap
  <2>1. Cardinality(Sooner(P, f)) <= Cardinality(E)
    BY <1>3, <1>6, FS_Subset
  <2>2. ~(Cardinality(Sooner(P, f)) < config.cap)
    BY <1>1, <1>5
  <2> QED BY <1>2, <1>3, <2>1, <2>2
<1>8. Cardinality(E) <= config.cap
  <2>1. CASE E = {}
    BY <2>1, FS_EmptySet
  <2>2. CASE E # {}
    <3>1. PICK e \in E : \A g \in E : Place[g] <= Place[e]
      <4>1. E \in SUBSET Files
        BY <1>1
      <4> QED BY <1>3, <2>2, <4>1, LastFile
    <3>2. E \ {e} \in SUBSET Sooner(P, e)
      <4> SUFFICES ASSUME NEW g \in E, g # e PROVE g \in P /\ Place[g] < Place[e]
        BY DEF Sooner
      <4>1. g \in P /\ e \in P /\ Place[g] # Place[e]
        BY <1>1, PlaceAssumption
      <4> QED BY <1>4, <3>1, <4>1
    <3>3. e \in P /\ Cardinality(Sooner(P, e)) < config.cap
      BY <1>1
    <3>4. Cardinality(E \ {e}) <= Cardinality(Sooner(P, e))
      BY <1>2, <3>2, <3>3, FS_Subset
    <3>5. Cardinality(E \ {e}) = Cardinality(E) - 1
      BY <1>3, FS_RemoveElement
    <3> QED BY <1>2, <1>3, <3>3, <3>4, <3>5
  <2> QED BY <2>1, <2>2
<1> QED BY <1>3, <1>7, <1>8 DEF E

-----------------------------------------------------------------------------
(* Theorems about the cleanup *)

LEMMA InvariantHolds == Spec => []IInv
BY InitHolds, NextKeeps, PTL DEF Spec

\* Ages, configuration and timers are of the declared types.
THEOREM CleanupTypeCorrect == Spec => []TypeOK
<1>1. IInv => TypeOK
  BY DEF IInv
<1> QED
  BY <1>1, InvariantHolds, PTL

\* At any time at most one cleanup timer is alive, the one the canister knows
\* of, with the period it reports.
THEOREM OneTimerAtMost == Spec => []OneTimer
<1>1. IInv => OneTimer
  BY DEF IInv
<1> QED
  BY <1>1, InvariantHolds, PTL

\* No tick makes a cache cold that was used within the time to live.
THEOREM TicksLeaveUsedCaches == Spec => FreshStaysWarm
<1>1. IInv /\ [Next]_vars =>
        [(Fire \/ CleanupNow) =>
           \A c \in Caches :
              age[Bytes(c)] # Absent /\ age[Bytes(c)] < config.ttl /\ ~alone[c]
                 => age'[Bytes(c)] = age[Bytes(c)]
                    /\ age'[StampFile(c)] = age[StampFile(c)]]_vars
  BY TickLeavesFresh
<1> QED
  BY <1>1, InvariantHolds, PTL DEF Spec, FreshStaysWarm

\* A cleanup that met every file, failed on none and stayed below the cap leaves
\* no old file behind.
THEOREM CleanIsClean == Spec => CleanMeansClean
<1>1. ASSUME IInv, NEW bad \in SUBSET Examined(Present),
             Cleanup(Present, bad), Report(Present, bad) = "clean"
      PROVE  \A f \in Files : ~Stale(f)'
  <2>1. /\ Examined(Present) \cap bad = {}
        /\ Cardinality(Examined(Present)) # config.cap
    BY <1>1 DEF Report
  <2>2. config.cap \in Nat \ {0}
    BY <1>1, ConfigAssumption DEF IInv, TypeOK, Config
  <2>3. Present \in SUBSET Files
    BY DEF Present
  <2>4. Examined(Present) = Present
    BY <2>1, <2>2, <2>3, PresentIsFinite, WalkEndsAtCap
  <2> TAKE f \in Files
  <2>5. config' = config /\ Present \ bad = Present
    BY <1>1, <2>1, <2>4 DEF Cleanup
  <2>6. age'[f] = IF f \in Present /\ Stale(f) THEN Absent ELSE age[f]
    BY <1>1, <2>4, <2>5 DEF Cleanup
  <2> QED BY <2>5, <2>6 DEF Stale, Present
<1>2. IInv /\ [Next]_vars =>
        [(\E bad \in SUBSET Examined(Present) :
             Cleanup(Present, bad) /\ Report(Present, bad) = "clean")
           => \A f \in Files : ~Stale(f)']_vars
  BY <1>1
<1> QED
  BY <1>2, InvariantHolds, PTL DEF Spec, CleanMeansClean

-----------------------------------------------------------------------------
(* Two timers in one runtime *)

\* The timers of the two kinds, with the time they have left.
CleanupPart(n) ==
  IF timer = 0 THEN {}
  ELSE {[id |-> timer, what |-> "cleanup", period |-> config.period, left |-> n]}
BalancePart(k) ==
  IF btimer = 0 THEN {}
  ELSE {[id |-> btimer, what |-> "balance", period |-> BalancePeriod, left |-> k]}

\* What a reading is worth while the timer has k units left.
Recent(k) ==
  btimer # 0 => updated # Never /\ (k > 0 => updated + k <= BalancePeriod)

Basics ==
  /\ config.period \in Nat \ {0}
  /\ timer \in TimerIds \cup {0} /\ btimer \in TimerIds \cup {0}
  /\ updated \in Nat \cup {Never}

TwoTimers ==
  \E n \in 0 .. config.period, k \in 0 .. BalancePeriod :
     live = CleanupPart(n) \cup BalancePart(k) /\ Recent(k)

BInv == Basics /\ TwoTimers /\ (timer # 0 => timer # btimer)

-----------------------------------------------------------------------------
(* Lemmas about both timers *)

\* Unused ids belong to neither timer.
LEMMA UnusedIsNew ==
  ASSUME BInv, NEW id \in Unused
  PROVE  id \in TimerIds /\ id # 0 /\ id # timer /\ id # btimer
<1>1. id \in TimerIds /\ id # 0
  BY TimerAssumption DEF Unused
<1>2. PICK n \in 0 .. config.period, k \in 0 .. BalancePeriod :
         live = CleanupPart(n) \cup BalancePart(k)
  BY DEF BInv, TwoTimers
<1>3. ASSUME timer # 0 PROVE \E t \in live : t.id = timer
  <2> DEFINE t == [id |-> timer, what |-> "cleanup", period |-> config.period, left |-> n]
  <2>1. t \in live /\ t.id = timer
    BY <1>2, <1>3 DEF CleanupPart
  <2> QED
    BY <2>1
<1>4. ASSUME btimer # 0 PROVE \E t \in live : t.id = btimer
  <2> DEFINE t == [id |-> btimer, what |-> "balance", period |-> BalancePeriod, left |-> k]
  <2>1. t \in live /\ t.id = btimer
    BY <1>2, <1>4 DEF BalancePart
  <2> QED
    BY <2>1
<1> QED
  BY <1>1, <1>3, <1>4 DEF Unused

\* Cancelling one timer leaves the other.
LEMMA CancelLeavesOther ==
  ASSUME BInv, NEW n, NEW k, live = CleanupPart(n) \cup BalancePart(k)
  PROVE  Cancelled = BalancePart(k) /\ Uncancelled = CleanupPart(n)
<1>1. \A t \in CleanupPart(n) : t.id = timer /\ timer # 0
  BY DEF CleanupPart
<1>2. \A t \in BalancePart(k) : t.id = btimer /\ btimer # 0
  BY DEF BalancePart
<1>3. timer # 0 => timer # btimer
  BY DEF BInv
<1> QED
  BY <1>1, <1>2, <1>3 DEF Cancelled, Uncancelled

LEMMA BalanceInitHolds == BInit => BInv
<1> SUFFICES ASSUME BInit PROVE BInv
  OBVIOUS
<1>1. Basics /\ timer = 0 /\ btimer = 0 /\ live = {}
  BY ConfigAssumption DEF BInit, Init, Basics, Config
<1>2. 0 \in 0 .. config.period /\ 0 \in 0 .. BalancePeriod
  BY <1>1, BalanceAssumption DEF Basics
<1>3. live = CleanupPart(0) \cup BalancePart(0) /\ Recent(0)
  BY <1>1 DEF CleanupPart, BalancePart, Recent
<1> QED
  BY <1>1, <1>2, <1>3 DEF BInv, TwoTimers

\* The parts of the runtime's timers, with what comes and goes, at the next step.
LEMMA Rearranged ==
  ASSUME NEW n \in 0 .. config'.period, NEW k \in 0 .. BalancePeriod,
         live' = CleanupPart(n)' \cup BalancePart(k)', Recent(k)', Basics',
         timer' # 0 => timer' # btimer'
  PROVE  BInv'
BY DEF BInv, TwoTimers

LEMMA BalanceSideKeeps ==
  ASSUME BInv, BStartTimer \/ BStopTimer \/ BFire
  PROVE  BInv'
<1>0. PICK n \in 0 .. config.period, k \in 0 .. BalancePeriod :
         live = CleanupPart(n) \cup BalancePart(k) /\ Recent(k)
  BY DEF BInv, TwoTimers
<1>1. /\ UNCHANGED <<config, timer>> /\ CleanupPart(n)' = CleanupPart(n)
      /\ Cancelled = BalancePart(k) /\ Uncancelled = CleanupPart(n)
      /\ BalancePeriod \in Nat \ {0} /\ Basics
  BY <1>0, CancelLeavesOther, BalanceAssumption
  DEF BInv, BStartTimer, BStopTimer, BFire, CleanupPart
<1>2. CASE BStartTimer
  <2>1. PICK id \in Unused :
           /\ btimer' = id
           /\ live' = Uncancelled \cup {NewTimer(id, "balance", BalancePeriod)}
    BY <1>2 DEF BStartTimer, ArmBalance
  <2>2. id \in TimerIds /\ id # 0 /\ id # timer
    BY UnusedIsNew
  <2>3. updated' = 0
    BY <1>2 DEF BStartTimer, Refresh
  <2>4. BalancePart(BalancePeriod)' = {NewTimer(id, "balance", BalancePeriod)}
    BY <2>1, <2>2 DEF BalancePart, NewTimer
  <2>5. Recent(BalancePeriod)' /\ Basics'
    BY <1>1, <2>1, <2>2, <2>3, BalanceAssumption DEF Recent, Basics
  <2>6. BalancePeriod \in 0 .. BalancePeriod /\ n \in 0 .. config'.period
    BY <1>1
  <2> QED
    BY <1>1, <2>1, <2>2, <2>4, <2>5, <2>6, Rearranged
<1>3. CASE BStopTimer
  <2>1. btimer' = 0 /\ live' = Uncancelled /\ updated' = updated
    BY <1>3 DEF BStopTimer
  <2>2. BalancePart(k)' = {} /\ Recent(k)' /\ Basics'
    BY <1>1, <2>1 DEF BalancePart, Recent, Basics
  <2>3. timer' # 0 => timer' # btimer'
    BY <2>1
  <2>4. n \in 0 .. config'.period /\ live' = CleanupPart(n)' \cup BalancePart(k)'
    BY <1>1, <2>1, <2>2
  <2> QED
    BY <2>2, <2>3, <2>4, Rearranged
<1>4. CASE BFire
  <2>1. PICK t \in Due("balance") : Rearmed(t)
    BY <1>4 DEF BFire
  <2>2. t \in live /\ t.what = "balance"
    BY DEF Due
  <2>3. btimer # 0 /\ BalancePart(k) = {t} /\ t.period = BalancePeriod
        /\ t = [id |-> btimer, what |-> "balance", period |-> BalancePeriod, left |-> k]
    BY <1>0, <2>2 DEF CleanupPart, BalancePart
  <2>4. PICK m \in 1 .. BalancePeriod : live' = (live \ {t}) \cup {[t EXCEPT !.left = m]}
    BY <2>1, <2>3 DEF Rearmed
  <2>5. updated' = 0 /\ btimer' = btimer
    BY <1>4 DEF BFire, Refresh
  <2>6. BalancePart(m)' = {[t EXCEPT !.left = m]}
    BY <2>3, <2>5 DEF BalancePart
  <2>7. t \notin CleanupPart(n)
    BY <2>2 DEF CleanupPart
  <2>8. live' = CleanupPart(n)' \cup BalancePart(m)'
    BY <1>0, <1>1, <2>3, <2>4, <2>6, <2>7
  <2>9. m \in 0 .. BalancePeriod /\ Recent(m)' /\ Basics' /\ n \in 0 .. config'.period
    BY <1>1, <2>5, BalanceAssumption DEF Recent, Basics
  <2>10. timer' # 0 => timer' # btimer'
    BY <1>1, <2>5 DEF BInv
  <2> QED
    BY <2>8, <2>9, <2>10, Rearranged
<1> QED
  BY <1>2, <1>3, <1>4

LEMMA BalancePassKeeps ==
  ASSUME BInv, BPass
  PROVE  BInv'
<1>0. PICK n \in 0 .. config.period, k \in 0 .. BalancePeriod :
         live = CleanupPart(n) \cup BalancePart(k) /\ Recent(k)
  BY DEF BInv, TwoTimers
<1> DEFINE Down(i) == IF i = 0 THEN 0 ELSE i - 1
<1>1. /\ UNCHANGED <<config, timer, btimer>>
      /\ live' = {[t EXCEPT !.left = Down(@)] : t \in live}
      /\ updated' = IF updated \in {Never, BalancePeriod + 1} THEN updated ELSE updated + 1
  BY DEF BPass, Pass
<1>2. /\ Basics /\ BalancePeriod \in Nat \ {0} /\ Never \notin Nat
      /\ n \in Nat /\ k \in Nat /\ n <= config.period /\ k <= BalancePeriod
  BY BalanceAssumption DEF BInv, Basics
<1>3. Down(n) \in 0 .. config'.period /\ Down(k) \in 0 .. BalancePeriod
  BY <1>1, <1>2 DEF Basics
<1>4. live' = CleanupPart(Down(n))' \cup BalancePart(Down(k))'
  <2>1. CleanupPart(Down(n))' = {[t EXCEPT !.left = Down(@)] : t \in CleanupPart(n)}
    <3>1. CASE timer = 0
      BY <1>1, <3>1 DEF CleanupPart
    <3>2. CASE timer # 0
      <4> DEFINE r == [id |-> timer, what |-> "cleanup", period |-> config.period, left |-> n]
      <4>1. [r EXCEPT !.left = Down(@)]
              = [id |-> timer, what |-> "cleanup", period |-> config.period, left |-> Down(n)]
        OBVIOUS
      <4>2. CleanupPart(n) = {r} /\ CleanupPart(Down(n))' = {[r EXCEPT !.left = Down(@)]}
        BY <1>1, <3>2, <4>1 DEF CleanupPart
      <4> QED
        BY <4>2
    <3> QED
      BY <3>1, <3>2
  <2>2. BalancePart(Down(k))' = {[t EXCEPT !.left = Down(@)] : t \in BalancePart(k)}
    <3>1. CASE btimer = 0
      BY <1>1, <3>1 DEF BalancePart
    <3>2. CASE btimer # 0
      <4> DEFINE r == [id |-> btimer, what |-> "balance", period |-> BalancePeriod, left |-> k]
      <4>1. [r EXCEPT !.left = Down(@)]
              = [id |-> btimer, what |-> "balance", period |-> BalancePeriod, left |-> Down(k)]
        OBVIOUS
      <4>2. BalancePart(k) = {r} /\ BalancePart(Down(k))' = {[r EXCEPT !.left = Down(@)]}
        BY <1>1, <3>2, <4>1 DEF BalancePart
      <4> QED
        BY <4>2
    <3> QED
      BY <3>1, <3>2
  <2> HIDE DEF Down
  <2> QED
    BY <1>0, <1>1, <2>1, <2>2
<1>5. Recent(Down(k))'
  BY <1>0, <1>1, <1>2 DEF Recent, Basics
<1>6. Basics'
  BY <1>1, <1>2 DEF Basics
<1>7. timer' # 0 => timer' # btimer'
  BY <1>1 DEF BInv
<1> HIDE DEF Down
<1> QED
  BY <1>3, <1>4, <1>5, <1>6, <1>7, Rearranged

LEMMA BalanceUpgradeKeeps ==
  ASSUME BInv, BUpgrade
  PROVE  BInv'
<1>1. config' = Defaults /\ timer' = 0 /\ btimer' = 0 /\ live' = {} /\ updated' = Never
  BY DEF BUpgrade, Upgrade
<1>2. Basics' /\ 0 \in 0 .. config'.period /\ 0 \in 0 .. BalancePeriod
  BY <1>1, ConfigAssumption, BalanceAssumption DEF Basics, Config
<1>3. live' = CleanupPart(0)' \cup BalancePart(0)' /\ Recent(0)'
  BY <1>1 DEF CleanupPart, BalancePart, Recent
<1> QED
  BY <1>1, <1>2, <1>3, Rearranged

LEMMA CleanupSideKeeps ==
  ASSUME BInv, CleanupSide
  PROVE  BInv'
<1>0. PICK n \in 0 .. config.period, k \in 0 .. BalancePeriod :
         live = CleanupPart(n) \cup BalancePart(k) /\ Recent(k)
  BY DEF BInv, TwoTimers
<1>1. /\ btimer' = btimer /\ updated' = updated
      /\ BalancePart(k)' = BalancePart(k) /\ Recent(k)'
      /\ Cancelled = BalancePart(k) /\ Uncancelled = CleanupPart(n) /\ Basics
  BY <1>0, CancelLeavesOther DEF BInv, CleanupSide, balance, BalancePart, Recent
<1>2. ASSUME NEW id \in Unused, NEW p \in Nat \ {0}, config'.period = p, timer' = id,
             live' = Cancelled \cup {NewTimer(id, "cleanup", p)}
      PROVE  BInv'
  <2>1. id \in TimerIds /\ id # 0 /\ id # btimer
    BY UnusedIsNew
  <2>2. CleanupPart(p)' = {NewTimer(id, "cleanup", p)}
    BY <1>2, <2>1 DEF CleanupPart, NewTimer
  <2>3. p \in 0 .. config'.period /\ Basics'
    BY <1>1, <1>2, <2>1 DEF Basics
  <2>4. live' = CleanupPart(p)' \cup BalancePart(k)'
    BY <1>1, <1>2, <2>2
  <2>5. timer' # 0 => timer' # btimer'
    BY <1>1, <1>2, <2>1
  <2> QED
    BY <1>1, <2>3, <2>4, <2>5, Rearranged
<1>3. CASE StartTimer
  BY <1>1, <1>2, <1>3 DEF StartTimer, Basics
<1>4. CASE StopTimer
  <2>1. timer' = 0 /\ live' = Cancelled /\ config' = config
    BY <1>4 DEF StopTimer
  <2>2. CleanupPart(n)' = {} /\ Basics'
    BY <1>1, <2>1 DEF CleanupPart, Basics
  <2>3. live' = CleanupPart(n)' \cup BalancePart(k)' /\ n \in 0 .. config'.period
    BY <1>1, <2>1, <2>2
  <2> QED
    BY <1>1, <2>1, <2>2, <2>3, Rearranged
<1>5. ASSUME UNCHANGED <<config, timer, live>> PROVE BInv'
  <2>1. CleanupPart(n)' = CleanupPart(n) /\ Basics' /\ n \in 0 .. config'.period
    BY <1>1, <1>5 DEF CleanupPart, Basics
  <2>2. live' = CleanupPart(n)' \cup BalancePart(k)'
    BY <1>0, <1>1, <1>5, <2>1
  <2>3. timer' # 0 => timer' # btimer'
    BY <1>1, <1>5 DEF BInv
  <2> QED
    BY <1>1, <2>1, <2>2, <2>3, Rearranged
<1>6. CASE CleanupNow
  BY <1>5, <1>6 DEF CleanupNow, AnyCleanup, Cleanup
<1>7. CASE Fire
  <2>1. PICK t \in Due("cleanup") : Rearmed(t)
    BY <1>7 DEF Fire
  <2>2. t \in live /\ t.what = "cleanup" /\ config' = config /\ timer' = timer
    BY <1>7 DEF Due, Fire, AnyCleanup, Cleanup
  <2>3. timer # 0 /\ CleanupPart(n) = {t} /\ t.period = config.period
        /\ t = [id |-> timer, what |-> "cleanup", period |-> config.period, left |-> n]
    BY <1>0, <2>2 DEF CleanupPart, BalancePart
  <2>4. PICK m \in 1 .. config.period : live' = (live \ {t}) \cup {[t EXCEPT !.left = m]}
    BY <2>1, <2>3 DEF Rearmed
  <2>5. CleanupPart(m)' = {[t EXCEPT !.left = m]}
    BY <2>2, <2>3 DEF CleanupPart
  <2>6. t \notin BalancePart(k)
    BY <2>2 DEF BalancePart
  <2>7. live' = CleanupPart(m)' \cup BalancePart(k)'
    BY <1>0, <1>1, <2>3, <2>4, <2>5, <2>6
  <2>8. m \in 0 .. config'.period /\ Basics'
    BY <1>1, <2>2 DEF Basics
  <2>9. timer' # 0 => timer' # btimer'
    BY <1>1, <2>2 DEF BInv
  <2> QED
    BY <1>1, <2>7, <2>8, <2>9, Rearranged
<1>8. ASSUME NEW p \in Periods \cup {Same}, SetConfig(p, Same, Same)
      PROVE  BInv'
  <2>1. config' = Configured(p, Same, Same)
    BY <1>8 DEF SetConfig
  <2>2. config'.period = IF p \in {Same, TooLong, 0} THEN config.period ELSE p
    BY <2>1 DEF Configured
  <2>3. config'.period \in Nat \ {0}
    BY <1>1, <2>2, ConfigAssumption DEF Basics
  <2>4. CASE timer = 0
    <3>1. UNCHANGED <<timer, live>> /\ 0 \in 0 .. config'.period
      BY <1>8, <2>3, <2>4 DEF SetConfig
    <3>2. CleanupPart(n) = {} /\ CleanupPart(0)' = {} /\ Basics'
      BY <1>1, <2>3, <2>4, <3>1 DEF CleanupPart, Basics
    <3>3. live' = CleanupPart(0)' \cup BalancePart(k)'
      BY <1>0, <1>1, <3>1, <3>2
    <3> QED
      BY <1>1, <2>4, <3>1, <3>2, <3>3, Rearranged
  <2>5. CASE timer # 0
    BY <1>2, <1>8, <2>3, <2>5 DEF SetConfig
  <2> QED
    BY <2>4, <2>5
<1> QED
  BY <1>3, <1>4, <1>6, <1>7, <1>8 DEF CleanupSide

LEMMA BalanceNextKeeps == BInv /\ [BNext]_bvars => BInv'
<1> SUFFICES ASSUME BInv, [BNext]_bvars PROVE BInv'
  OBVIOUS
<1>1. CASE UNCHANGED bvars
  BY <1>1
  DEF bvars, vars, settings, balance, BInv, Basics, TwoTimers, CleanupPart, BalancePart,
      Recent
<1> QED
  BY <1>1, BalanceSideKeeps, BalancePassKeeps, BalanceUpgradeKeeps, CleanupSideKeeps DEF BNext

LEMMA BalanceInvariantHolds == BSpec => []BInv
BY BalanceInitHolds, BalanceNextKeeps, PTL DEF BSpec

\* Each kind of timer is found among those of the runtime.
LEMMA Apart ==
  ASSUME NEW n, NEW k, live = CleanupPart(n) \cup BalancePart(k)
  PROVE  CleanupTimers = CleanupPart(n) /\ BalanceTimers = BalancePart(k)
<1>1. /\ \A t \in CleanupPart(n) : t.what = "cleanup"
      /\ \A t \in BalancePart(k) : t.what = "balance"
  BY DEF CleanupPart, BalancePart
<1> QED
  BY <1>1 DEF CleanupTimers, BalanceTimers

-----------------------------------------------------------------------------
(* Theorems about both timers *)

\* Also next to the timer of the monitor the cleanup has the one timer that the
\* canister knows of, and no other.
THEOREM OneTimerBesides == BSpec => []OneTimer
<1>1. BInv => OneTimer
  <2> SUFFICES ASSUME BInv PROVE OneTimer
    OBVIOUS
  <2>1. PICK n \in 0 .. config.period, k \in 0 .. BalancePeriod :
           live = CleanupPart(n) \cup BalancePart(k)
    BY DEF BInv, TwoTimers
  <2>2. CleanupTimers = CleanupPart(n)
    BY <2>1, Apart
  <2> QED
    BY <2>2 DEF OneTimer, CleanupPart
<1> QED
  BY <1>1, BalanceInvariantHolds, PTL

\* What get_cycle_balance answers was read within a period, or the next reading
\* is due, and there is one timer for it; when it refuses there is none.
THEOREM BalanceIsRecent == BSpec => []RecentOrRefused
<1>1. BInv => RecentOrRefused
  <2> SUFFICES ASSUME BInv PROVE RecentOrRefused
    OBVIOUS
  <2>1. PICK n \in 0 .. config.period, k \in 0 .. BalancePeriod :
           live = CleanupPart(n) \cup BalancePart(k) /\ Recent(k)
    BY DEF BInv, TwoTimers
  <2>2. BalanceTimers = BalancePart(k)
    BY <2>1, Apart
  <2>3. GetCycleBalance = Error <=> btimer = 0
    BY BalanceAssumption DEF GetCycleBalance, BInv, Basics
  <2> QED
    BY <2>1, <2>2, <2>3 DEF RecentOrRefused, BalancePart, Recent
<1> QED
  BY <1>1, BalanceInvariantHolds, PTL
=============================================================================
