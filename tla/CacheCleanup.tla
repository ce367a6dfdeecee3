---------------------------- MODULE CacheCleanup ----------------------------
(***************************************************************************)
(* The timer that deletes old prompt caches, its configuration, and the    *)
(* calls that keep a cache young.                                          *)
(*                                                                         *)
(* A cache is two files, its bytes and its stamp, and a tick judges every  *)
(* file by its own modification time.  It looks at no more files than the  *)
(* configured cap, always from the front of the directories, in the order  *)
(* in which they list them.                                                *)
(*                                                                         *)
(* A tick and every call are one step, as they are one message.  Time is   *)
(* counted in units, ages up to MaxAge.  A clean-up is not told whose      *)
(* model wrote a cache: that a call finds it stale is a free choice here,  *)
(* PromptCache says when it does.                                          *)
(***************************************************************************)
EXTENDS Integers, FiniteSets

CONSTANTS
  Caches,       \* the caches of one caller
  Place,        \* Place[f]: where the directory lists file f
  MaxAge,       \* bound: older files count as this old
  Periods,      \* values of period_seconds, in units of time
  Ttls,         \* values of ttl_seconds
  Caps,         \* values of max_files_per_run
  Floor, Ceiling,        \* the cap is clamped between the two
  TooLong,      \* a number of seconds that does not fit in nanoseconds
  Defaults,     \* the configuration after an install or an upgrade
  TimerIds,     \* what set_timer_recurring returns
  Absent, Same  \* no such file; null, in a configuration

Files == Caches \X {"bytes", "stamp"}

Ages == 0 .. MaxAge
Config == [period : Nat \ {0}, ttl : Nat, cap : Floor .. Ceiling]
Timers == [id : TimerIds, what : {"cleanup", "balance"}, period : Nat \ {0},
           left : Nat]

ASSUME CachesAssumption == IsFiniteSet(Caches)
ASSUME AgeAssumption == MaxAge \in Nat /\ Absent \notin Ages
ASSUME PlaceAssumption ==
  /\ Place \in [Files -> Nat]
  /\ \A f, g \in Files : f # g => Place[f] # Place[g]
ASSUME ConfigAssumption ==
  /\ Floor \in Nat \ {0} /\ Ceiling \in Nat /\ Floor <= Ceiling
  /\ Periods \subseteq Nat /\ Ttls \subseteq 0 .. MaxAge /\ Caps \subseteq Nat
  /\ Same \notin Nat /\ TooLong \notin Nat /\ Same # TooLong
  /\ Defaults \in Config
ASSUME TimerAssumption == TimerIds \subseteq Nat \ {0}

VARIABLES
  age,      \* age[f]: time since file f was written, or Absent
  config,   \* g_cleanup_period_ns, g_cleanup_ttl_ns, g_cleanup_max_files_per_run
  timer,    \* g_cleanup_timer_id, 0 when not armed
  live,     \* the timers the runtime will fire, for whom, in what time
  alone     \* history: the bytes of c were written without its stamp

settings == <<config, timer, live>>
vars == <<age, settings, alone>>

TypeOK ==
  /\ age \in [Files -> Ages \cup {Absent}]
  /\ config \in Config
  /\ timer \in TimerIds \cup {0}
  /\ live \subseteq Timers
  /\ alone \in [Caches -> BOOLEAN]

Init ==
  /\ age = [f \in Files |-> Absent]
  /\ config = Defaults
  /\ timer = 0 /\ live = {}
  /\ alone = [c \in Caches |-> FALSE]

Bytes(c) == <<c, "bytes">>
StampFile(c) == <<c, "stamp">>
Present == {f \in Files : age[f] # Absent}
Stale(f) == age[f] # Absent /\ age[f] >= config.ttl

-----------------------------------------------------------------------------
(* The caches *)

PutAges(c, bytes, stamp, a) ==
  /\ age' = [age EXCEPT ![Bytes(c)] = bytes, ![StampFile(c)] = stamp]
  /\ alone' = [alone EXCEPT ![c] = a]
  /\ UNCHANGED settings

\* Mutant: only a new cache is stamped.
SaveStampingOnce(c) ==
  PutAges(c, 0, IF age[StampFile(c)] = Absent THEN 0 ELSE age[StampFile(c)], FALSE)

\* A run saves the session and stamps it again.
Save(c) == PutAges(c, 0, 0, FALSE)

\* A run saves early and fails later; a stale cache went first, stamp and all.
SaveEarly(c) ==
  \/ PutAges(c, 0, age[StampFile(c)], TRUE)
  \/ age[Bytes(c)] # Absent /\ PutAges(c, 0, Absent, TRUE)

\* remove_prompt_cache, or a stale cache that is discarded and not replaced
Remove(c) == age[Bytes(c)] # Absent /\ PutAges(c, Absent, Absent, FALSE)

\* new_chat stamps a cache that is not there, or is stale and discarded.
NewChat(c) == PutAges(c, Absent, 0, FALSE)

Copy(from, to) ==
  /\ from # to /\ age[Bytes(from)] # Absent
  /\ PutAges(to, 0, IF age[StampFile(from)] = Absent THEN Absent ELSE 0, FALSE)

\* upload_prompt_cache_chunk
Upload(c) == PutAges(c, 0, Absent, FALSE)

CacheCall(c) ==
  \/ Save(c) \/ SaveEarly(c) \/ Remove(c) \/ NewChat(c) \/ Upload(c)
  \/ \E to \in Caches : Copy(c, to)

-----------------------------------------------------------------------------
(* The tick *)

\* Of the files a walk meets, those it looks at before the cap ends it.
Examined(met) ==
  {f \in met : Cardinality({g \in met : Place[g] < Place[f]}) < config.cap}

\* run_cache_cleanup_body: met is what the directory iterators yield, bad the
\* files whose time cannot be read or that cannot be removed.
Cleanup(met, bad) ==
  /\ age' = [f \in Files |->
               IF f \in Examined(met) \ bad /\ Stale(f) THEN Absent ELSE age[f]]
  /\ UNCHANGED <<config, timer, alone>>

\* Mutant: a failed removal is not counted.
ReportUncounted(met, bad) ==
  IF Cardinality(Examined(met)) = config.cap THEN "capped" ELSE "clean"

\* What the statistics of the run tell its reader.  Nothing in them tells of an
\* iterator that stopped early.
Report(met, bad) ==
  IF Examined(met) \cap bad # {} THEN "failed"
  ELSE IF Cardinality(Examined(met)) = config.cap THEN "capped" ELSE "clean"

\* Mutant: the timer fires once.
RearmedNever(t) == live' = live \ {t}

\* A recurring timer is late, but fires; its next deadline is less than a
\* period away.
Rearmed(t) ==
  \E n \in 1 .. t.period : live' = (live \ {t}) \cup {[t EXCEPT !.left = n]}

Due(what) == {t \in live : t.what = what /\ t.left = 0}
\* The walk may end early, and any of the files may fail.
Walks == {{f \in Present : Place[f] <= n} : n \in {Place[f] : f \in Present}} \cup {{}}
AnyCleanup == \E met \in Walks : \E bad \in SUBSET Examined(met) : Cleanup(met, bad)

FireCleanly == (\E t \in Due("cleanup") : Rearmed(t)) /\ Cleanup(Present, {})
Fire == (\E t \in Due("cleanup") : Rearmed(t)) /\ AnyCleanup

\* cache_cleanup_now
CleanupNow == UNCHANGED live /\ AnyCleanup

\* Time passes.
Older(a) == IF a = Absent \/ a = MaxAge THEN a ELSE a + 1
Pass ==
  /\ age' = [f \in Files |-> Older(age[f])]
  /\ live' = {[t EXCEPT !.left = IF @ = 0 THEN 0 ELSE @ - 1] : t \in live}
  /\ UNCHANGED <<config, timer, alone>>

-----------------------------------------------------------------------------
(* The admin *)

Cancelled == {t \in live : t.id # timer}
NewTimer(id, what, p) == [id |-> id, what |-> what, period |-> p, left |-> p]
Unused == {id \in TimerIds : \A t \in live : t.id # id}

\* Mutant: a timer that is armed is not cancelled first.
StartTimerTwice ==
  \E id \in Unused :
     /\ timer' = id
     /\ live' = live \cup {NewTimer(id, "cleanup", config.period)}
     /\ UNCHANGED <<age, config, alone>>

\* cache_cleanup_start_timer
StartTimer ==
  \E id \in Unused :
     /\ timer' = id
     /\ live' = Cancelled \cup {NewTimer(id, "cleanup", config.period)}
     /\ UNCHANGED <<age, config, alone>>

\* cache_cleanup_stop_timer
StopTimer ==
  /\ timer # 0
  /\ timer' = 0 /\ live' = Cancelled
  /\ UNCHANGED <<age, config, alone>>

Clamp(n) == IF n < Floor THEN Floor ELSE IF n > Ceiling THEN Ceiling ELSE n

\* Mutant: the cap is taken as it is.
ConfiguredUnclamped(p, t, n) ==
  [period |-> IF p \in {Same, TooLong, 0} THEN config.period ELSE p,
   ttl    |-> IF t \in {Same, TooLong} THEN config.ttl ELSE t,
   cap    |-> IF n = Same THEN config.cap ELSE n]

\* A value of null, a period of 0, and what does not fit change nothing.
Configured(p, t, n) ==
  [period |-> IF p \in {Same, TooLong, 0} THEN config.period ELSE p,
   ttl    |-> IF t \in {Same, TooLong} THEN config.ttl ELSE t,
   cap    |-> IF n = Same THEN config.cap ELSE Clamp(n)]

\* set_cache_cleanup_config: a timer that is armed starts anew.
SetConfig(p, t, n) ==
  /\ config' = Configured(p, t, n)
  /\ IF timer = 0 THEN UNCHANGED <<timer, live>>
     ELSE \E id \in Unused :
             /\ timer' = id
             /\ live' = Cancelled \cup {NewTimer(id, "cleanup", config'.period)}
  /\ UNCHANGED <<age, alone>>

\* An upgrade: files stay, everything in memory starts over.
Upgrade ==
  /\ config' = Defaults /\ timer' = 0 /\ live' = {}
  /\ UNCHANGED <<age, alone>>

Admin ==
  \/ StartTimer \/ StopTimer \/ CleanupNow \/ Upgrade
  \/ \E p \in Periods \cup {Same, TooLong}, t \in Ttls \cup {Same, TooLong},
        n \in Caps \cup {Same} : SetConfig(p, t, n)

-----------------------------------------------------------------------------

Next ==
  \/ \E c \in Caches : CacheCall(c)
  \/ Fire \/ Pass \/ Admin

\* Time passes, and a due timer does not fire on a failing file system forever.
Spec == Init /\ [][Next]_vars /\ WF_vars(Pass) /\ SF_vars(FireCleanly)

-----------------------------------------------------------------------------
(* Properties *)

\* However often it is started, stopped and configured anew, the cleanup has
\* the timer the canister knows of and no other, with the period it reports.
CleanupTimers == {t \in live : t.what = "cleanup"}
OneTimer ==
  IF timer = 0 THEN CleanupTimers = {}
  ELSE \E n \in 0 .. config.period :
          CleanupTimers = {[id |-> timer, what |-> "cleanup",
                            period |-> config.period, left |-> n]}

\* A tick leaves a cache that was used within the time to live as warm as it
\* was: not only its bytes stay but also its stamp, without which the next run
\* would discard them.  Only bytes written without their stamp can lose it.
FreshStaysWarm ==
  [][(Fire \/ CleanupNow) =>
       \A c \in Caches :
          age[Bytes(c)] # Absent /\ age[Bytes(c)] < config.ttl /\ ~alone[c]
             => age'[Bytes(c)] = age[Bytes(c)] /\ age'[StampFile(c)] = age[StampFile(c)]]_vars

\* After a complete walk, statistics without failures and below the cap mean
\* that no old file is left.
CleanMeansClean ==
  [][(\E bad \in SUBSET Examined(Present) :
         Cleanup(Present, bad) /\ Report(Present, bad) = "clean")
       => \A f \in Files : ~Stale(f)']_vars

ArmedForGood == \E id \in TimerIds : <>[](timer = id)
CapSuffices == <>[](Cardinality(Files) <= config.cap)

\* While the timer stays armed, and the cap leaves room for all files, no file
\* stays old: it is used, or it is deleted.
OldFilesGo ==
  ArmedForGood /\ CapSuffices => \A f \in Files : []<>~Stale(f)

-----------------------------------------------------------------------------
(* What the repository says and the code does not do *)

\* A tick that the cap ends is continued by the next one, whatever the cap.
NextTickContinues == ArmedForGood => \A f \in Files : []<>~Stale(f)
=============================================================================
