------------------------------- MODULE Reward -------------------------------
(***************************************************************************)
(* RewardCalculator (learned_kernel/trainer/reward.py) with its default    *)
(* coefficients, in integers: normalised terms in hundredths, rounded      *)
(* down, and the reward in thousandths, which then is exact.               *)
(*                                                                         *)
(* A sample stands for two consecutive observations: dt, the difference of *)
(* their timestamps in milliseconds; switches, the difference of their     *)
(* context-switch counters; and of the later one the latency in tenths of  *)
(* a millisecond and the utilisation in hundredths.  Either difference may *)
(* be negative: clocks are set, counters are reset.                        *)
(***************************************************************************)
EXTENDS Integers

IsSample(s) ==
  /\ s.dt \in Int /\ s.switches \in Int
  /\ s.latency \in Nat /\ s.util \in 0 .. 100

AtMost(x, y) == IF x < y THEN x ELSE y

(* A clock that stands still or runs backwards: one millisecond.           *)
Elapsed(s) == IF s.dt > 0 THEN s.dt ELSE 1

\* Mutant of SwitchDelta: a reset counter counts backwards.
Mutant_ResetSeen(s) == s.switches

SwitchDelta(s) == IF s.switches > 0 THEN s.switches ELSE 0

(* Hundredths of 10 000 switches a second.                                 *)
Throughput(s) == AtMost((10 * SwitchDelta(s)) \div Elapsed(s), 100)

THRASH_TAU == 85

Thrash(s) ==
  IF Throughput(s) > THRASH_TAU
  THEN ((Throughput(s) - THRASH_TAU) * 100) \div (100 - THRASH_TAU) ELSE 0

(* Hundredths of 20 ms.                                                    *)
Latency(s) == AtMost(s.latency, 200) \div 2

StepReward(s) ==
  10 * Throughput(s) - 10 * Latency(s) - 5 * s.util - 6 * Thrash(s)

(* What a reward can be: alpha and gamma at worst, beta * tau at best.     *)
WORST_REWARD == 0 - 1500
BEST_REWARD == 850

IsReward(r) == r \in WORST_REWARD .. BEST_REWARD
=============================================================================
