---------------------------- MODULE DriftManager ----------------------------
(***************************************************************************)
(* WorkloadDriftManager (learned_kernel/runtime/adaptation.py): two halves *)
(* of a bounded window of rewards, a reference and a more recent one, that *)
(* a Welch t-test compares after every reward.                             *)
(*                                                                         *)
(* Rewards are integers, in a unit small enough for the instance at hand;  *)
(* the statistic is compared with its threshold exactly, by squares, where *)
(* the code divides and takes a square root in floating point.             *)
(***************************************************************************)
EXTENDS Integers, Sequences, Functions

CONSTANTS
  Rewards,       \* the rewards add_step() may compute
  WindowSize,    \* window_size
  TThreshold,    \* t_threshold, in tenths
  MinEffect,     \* min_effect_size, in the unit of the rewards
  Consumes       \* values the driver passes as `consume`

ASSUME DriftAssumption ==
  /\ Rewards \subseteq Int
  /\ WindowSize \in Nat /\ WindowSize >= 2
  /\ TThreshold \in Nat /\ MinEffect \in Int
  /\ Consumes \subseteq BOOLEAN /\ Consumes # {}

VARIABLES
  ring,   \* _ring: the last rewards, the oldest first
  phase,  \* what the driver does next: "add", "check" or "adapt"
  quiet,  \* rewards added since the last alarm, counted up to MaxCount
  gone    \* the reward that the last one pushed out of the window, if it did

driftVars == <<ring, phase, quiet, gone>>

Required == 2 * WindowSize

MaxCount == Required + 1

DriftInit == ring = <<>> /\ phase = "add" /\ quiet = MaxCount /\ gone = {}

CountUp(n) == IF n < MaxCount THEN n + 1 ELSE n

-----------------------------------------------------------------------------
Reference(w) == [i \in 1 .. WindowSize |-> w[i]]

Recent(w) == [i \in 1 .. WindowSize |-> w[WindowSize + i]]

\* WindowSize * (WindowSize - 1) times the sample variance.
Spread(half) ==
  WindowSize * SumFunction([i \in 1 .. WindowSize |-> half[i] * half[i]])
    - SumFunction(half) * SumFunction(half)

Spreads(w) == Spread(Reference(w)) + Spread(Recent(w))

\* WindowSize times the loss of mean reward.
Loss(w) == SumFunction(Reference(w)) - SumFunction(Recent(w))

(* welch_t_statistic(recent, reference) < -t_threshold; where neither      *)
(* half varies the statistic is 0.                                         *)
Significant(loss, spreads) ==
  /\ spreads > 0
  /\ loss > 0
  /\ 100 * loss * loss * (WindowSize - 1) > TThreshold * TThreshold * spreads

\* Mutant of Drifted: the halves are compared the wrong way round.
Mutant_Swapped(w) ==
  /\ Len(w) >= Required
  /\ Significant(0 - Loss(w), Spreads(w))
  /\ 0 - Loss(w) >= MinEffect * WindowSize

(* check_drift()                                                           *)
Drifted(w) ==
  /\ Len(w) >= Required
  /\ Significant(Loss(w), Spreads(w))
  /\ Loss(w) >= MinEffect * WindowSize

-----------------------------------------------------------------------------
\* Mutant of AddStep: the window is not bounded.
Mutant_Unbounded(r) ==
  /\ phase = "add" /\ Len(ring) < Required + 2
  /\ ring' = Append(ring, r)
  /\ quiet' = CountUp(quiet) /\ UNCHANGED gone
  /\ phase' = "check"

(* add_step(): a full window loses its oldest reward.                      *)
AddStep(r) ==
  /\ phase = "add"
  /\ ring' = Append(IF Len(ring) < Required THEN ring ELSE Tail(ring), r)
  /\ gone' = IF Len(ring) < Required THEN {} ELSE {Head(ring)}
  /\ quiet' = CountUp(quiet)
  /\ phase' = "check"

Cleared == ring' = <<>> /\ gone' = {}

(* check_drift(consume): an alarm may clear the window.                    *)
CheckDrift(consume) ==
  /\ phase = "check"
  /\ \/ /\ Drifted(ring)
        /\ IF consume THEN Cleared ELSE UNCHANGED <<ring, gone>>
        /\ phase' = "adapt"
        /\ quiet' = 0
     \/ /\ ~Drifted(ring)
        /\ phase' = "add"
        /\ UNCHANGED <<ring, quiet, gone>>

\* Mutant of TriggerAdaptation: the window is kept.
Mutant_WindowKept ==
  phase = "adapt" /\ phase' = "add" /\ UNCHANGED <<ring, quiet, gone>>

(* trigger_adaptation(): the window is cleared once training succeeded.    *)
TriggerAdaptation ==
  /\ phase = "adapt"
  /\ Cleared
  /\ phase' = "add"
  /\ UNCHANGED quiet

(* The driver's process ends, by a kill or by what training or logging     *)
(* raises, for which it has no handler: the next begins with no window.    *)
ProcessEnds ==
  /\ Cleared
  /\ phase' = "add" /\ quiet' = MaxCount

DriftNext ==
  \/ \E r \in Rewards : AddStep(r)
  \/ \E consume \in Consumes : CheckDrift(consume)
  \/ TriggerAdaptation
  \/ ProcessEnds

DriftSpec == DriftInit /\ [][DriftNext]_driftVars

-----------------------------------------------------------------------------
(* The window never holds more than two halves of rewards.                 *)
DriftTypeOK ==
  /\ ring \in Seq(Rewards) /\ Len(ring) <= Required
  /\ phase \in {"add", "check", "adapt"}
  /\ quiet \in 0 .. MaxCount
  /\ gone \subseteq Rewards

(***************************************************************************)
(* "A single drift event cannot re-alarm every cycle": two alarms are at   *)
(* least a whole window of new rewards apart.                              *)
(***************************************************************************)
AlarmsAreApart ==
  [][phase = "check" /\ phase' = "adapt" => quiet >= Required]_driftVars

LevelAt(half, x) == \A i \in DOMAIN half : half[i] = x

\* A half level at x and a half level below it, by so much that even one
\* reward fewer would have made the effect.
CleanDropFrom(x) ==
  /\ phase = "add" /\ Len(ring) = Required
  /\ LevelAt(Reference(ring), x)
  /\ \E y \in Rewards :
       /\ LevelAt(Recent(ring), y)
       /\ x > y /\ (WindowSize - 1) * (x - y) >= MinEffect * WindowSize

(***************************************************************************)
(* A persistent drop from a level that a full window has seen raises an    *)
(* alarm before it has filled the recent half, when the two halves are     *)
(* level and the statistic is 0.                                           *)
(***************************************************************************)
NoSilentDrop == \A x \in gone : ~CleanDropFrom(x)
=============================================================================
