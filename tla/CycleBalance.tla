---------------------------- MODULE CycleBalance ----------------------------
(***************************************************************************)
(* The monitor of the cycle balance, next to the cleanup of CacheCleanup:  *)
(* two recurring timers that are armed, cancelled and fired by one runtime *)
(* that knows them by their ids.                                           *)
(*                                                                         *)
(* Of the balance only the time since it was read matters: what an admin   *)
(* is told must be recent.  The files are left to CacheCleanup; no call    *)
(* makes one here.                                                         *)
(***************************************************************************)
EXTENDS CacheCleanup

CONSTANTS
  BalancePeriod,   \* CYCLE_BALANCE_PERIOD_NS, in units of time
  Never, Error     \* the balance was not read; get_cycle_balance refuses

ASSUME BalanceAssumption ==
  /\ BalancePeriod \in Nat \ {0}
  /\ Never \notin Nat /\ Error \notin Nat /\ Error # Never

VARIABLES
  btimer,    \* g_cycle_balance_timer_id, 0 when tracking is off
  updated    \* time since g_cycle_balance_updated_at_ns, one period at most
             \* and a unit, or Never

balance == <<btimer, updated>>
bvars == <<vars, balance>>

BInit == Init /\ btimer = 0 /\ updated = Never

-----------------------------------------------------------------------------

\* refresh_cycle_balance_body
Refresh == updated' = 0

\* arm_cycle_balance_timer_, after the timer the canister knows of is cancelled
Uncancelled == {t \in live : t.id # btimer}
ArmBalance ==
  \E id \in Unused :
     /\ btimer' = id
     /\ live' = Uncancelled \cup {NewTimer(id, "balance", BalancePeriod)}

\* Mutants: the first reading is left to the timer; a timer that is armed is not
\* cancelled first.
BStartTimerBlind == ArmBalance /\ UNCHANGED <<age, config, timer, alone, updated>>
BStartTimerTwice ==
  /\ \E id \in Unused :
        /\ btimer' = id
        /\ live' = live \cup {NewTimer(id, "balance", BalancePeriod)}
  /\ Refresh
  /\ UNCHANGED <<age, config, timer, alone>>

\* cycle_balance_start_timer
BStartTimer == Refresh /\ ArmBalance /\ UNCHANGED <<age, config, timer, alone>>

\* cycle_balance_stop_timer; without a timer it changes nothing.
BStopTimer ==
  /\ btimer # 0
  /\ btimer' = 0 /\ live' = Uncancelled
  /\ UNCHANGED <<age, config, timer, alone, updated>>

\* Mutant: set_timer instead of set_timer_recurring.
BFireOnce ==
  /\ Refresh /\ \E t \in Due("balance") : live' = live \ {t}
  /\ UNCHANGED <<age, config, timer, alone, btimer>>

BFire ==
  /\ Refresh /\ \E t \in Due("balance") : Rearmed(t)
  /\ UNCHANGED <<age, config, timer, alone, btimer>>

\* The one clock of both
BPass ==
  /\ Pass
  /\ updated' = IF updated \in {Never, BalancePeriod + 1} THEN updated ELSE updated + 1
  /\ UNCHANGED btimer

BUpgrade == Upgrade /\ btimer' = 0 /\ updated' = Never

CleanupSide ==
  /\ StartTimer \/ StopTimer \/ CleanupNow \/ Fire
     \/ \E p \in Periods \cup {Same} : SetConfig(p, Same, Same)
  /\ UNCHANGED balance

BNext ==
  \/ BStartTimer \/ BStopTimer \/ BFire \/ BPass \/ BUpgrade
  \/ CleanupSide

\* Time passes, and a due timer fires.
BSpec == BInit /\ [][BNext]_bvars /\ WF_bvars(BPass) /\ WF_bvars(BFire)

-----------------------------------------------------------------------------
(* Properties *)

GetCycleBalance == IF btimer = 0 THEN Error ELSE updated

\* An admin who is not refused is told a balance read by this canister since
\* its last upgrade, no older than a period unless the next reading is due: the
\* runtime has the timer the canister knows of and no second one, whatever is
\* started, stopped and configured of either kind, for both kinds.
BalanceTimers == {t \in live : t.what = "balance"}
RecentOrRefused ==
  IF GetCycleBalance = Error THEN BalanceTimers = {}
  ELSE \E n \in 0 .. BalancePeriod :
          /\ BalanceTimers = {[id |-> btimer, what |-> "balance",
                               period |-> BalancePeriod, left |-> n]}
          /\ updated # Never
          /\ n > 0 => updated + n <= BalancePeriod

\* While tracking stays on, the balance is read again and again.
BalanceRefreshed == <>[](btimer # 0) => []<>(updated = 0)
=============================================================================
