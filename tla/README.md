# A verification model of Learned Kernel

Learned Kernel runs a control loop over kernel tunables: it observes the
scheduler, memory and network, lets a replaceable *policy* propose new sysctl
values, has a deterministic *validator* judge them, writes the approved ones,
keeps a hash-chained log, and retrains the policy when its reward drifts. This
directory specifies that loop, its eBPF monitor and its trainer in TLA+,
model-checks them with TLC on small instances and proves their main safety
properties with TLAPS for all of them.

Paths below are relative to `learned_kernel/`.

## The system

| part | state | operations | what makes it correct |
|---|---|---|---|
| schemas (`policy/schemas.py`) | none (immutable values) | construction | actions are type-correct only; bounds belong to the validator |
| policies (`policy/core.py`, `policy/joint_policy.py`, `trainer/rl_trainer.py`) | heuristic: `_tight`, `_last_emitted` | `decide` | the mode follows the load, no flapping, a suppressed decision is really in force |
| validator (`validator/core.py`) | none | `validate_action` | per-field bounds, relations between fields, no maximal queue under memory pressure |
| actuator (`runtime/loop.py`) | the sysctls; during a batch, the changes made | `plan`, `apply` | only approved values reach the kernel; a batch applies whole or not at all; a report is true |
| runtime (`runtime/loop.py`) | `policy`, locals of `step` | `step`, replacement of `policy` | each write is judged on its own step's observation; results say what is in force; no stage's exception escapes |
| simulation monitor (`observation/monitors.py`) | `_pending_action` | `submit_action`, `get_kir_state` | believes what is in force |
| eBPF monitor (`observation/monitors.py`, `ebpf_scheduler.c`) | in the kernel: counters and perf buffers; per CPU `_last_ts_ns`, `_busy_ns`, `_recent_tasks`; `_window_start_ns`, `total_switches` | the tracepoint, `poll`/`_handle_event`, `get_kir_state` | samples are counted once, no time is charged twice or made up, a busy CPU reads busy |
| provenance log (`telemetry/provenance.py`) | the file; per logger `_seq`, `_prev_hash` | `_recover_tail`, `record_decision`, `verify_chain` | an untampered log verifies, a harmed one does not, at its first harmed record, acknowledged records survive |
| drift manager (`runtime/adaptation.py`) | `_ring` | `add_step`, `check_drift`, `trigger_adaptation` | a lasting loss of reward alarms, once; only rewards of the policy in force are compared |
| reward (`trainer/reward.py`) | none | `explain_step_reward` | stays in its range whatever clocks and counters do |
| trainer (`trainer/rl_trainer.py`) | locals of `train`, `last_report`, the artifact file | `train`, `save_artifact`, `load_artifact` | the search is monotone, the best holdout checkpoint is returned, nothing but a trained policy is loaded |
| online driver (`online_demo.py`) | history, the parts above | the cycle | what the log says was set is what is set |
| simulator, other demos | see "Not modelled" | | |

The Python code runs in one thread; its parts call each other directly. Only
the eBPF program runs beside it, and hands it samples through perf buffers. What
makes the code hard is therefore *interruption and memory*: a batch
of sysctl writes, or a line of the log, may fail or be killed half-way; policy,
logger and monitor each remember what they believe the outside world (kernel,
file) to be, and that belief goes stale; policies are replaced while the
settings of earlier ones stay in force; several processes may share the log;
samples wait in a buffer, or are lost, while windows begin and end.
The hazards are listed, each at its line, in `PROJECT.json`.

## Modules

    PolicyABI --> Validator --> Actuator ----> MCActuator, ActuatorProofs
        |                          |
        |   AtomicTuning <---------/ (INSTANCE: what apply() promises)
        |
        \-> Policies
    RuntimeLoop  = Actuator + Policies              -> MCRuntimeLoop, RuntimeProofs
    OnlineLoop   = Actuator + Policies + Reward
                   + DriftManager                   -> MCOnline, OnlineProofs
    DriftManager                                    -> DriftProofs
    ProvenanceLog                                   -> MCLog, LogProofs
    SchedulerMonitor                                -> MCMonitor, MonitorProofs
    OfflineTrainer                                  -> MCTrainer, TrainerProofs

`SumProofs` (sums over finite sets) serves `MonitorProofs` and `DriftProofs`;
`RuntimeProofs` and `OnlineProofs` rest on `ActuatorProofs`, which also holds
the lemmas about policies, and `OnlineProofs` on `DriftProofs`.

**PolicyABI.** An action is the partial function from fields to values that
validator, actuator and simulator all read it as; an absent section and a
section of `None`s are the same. A `congestion_control` string is the name it
spells together with whether it has upper-case letters and blanks, because
validator and actuator normalise those differently. Utilisation and pressure
are in hundredths. `Rank` is the order in which `plan()` emits commands,
`Rendered` the conversion of units it makes.

**Validator.** `ValidateAction(k, a)` is `validate_action` returning rather
than raising, one operator per subsystem. `SafeSetting` and `JointSafe` say
what its bounds mean for the values in the kernel.

**Actuator.** `Apply` is a call of `apply()`: the early returns, in their order
(`ApplyWithoutWriting`), or the start of a real batch (`ApplyForReal`). Then
every turn of the two loops is a step: `WriteNext`, `WriteFails`,
`RestoreNext`, `RestoreFails`. A write fails because the sysctl is absent, the
kernel does not know the value, or by an injected fault. `Crash` stands for a
kill and for exceptions that `except Exception` lets through. `Construct` is a
new `KernelActuator`. `ActuatorSpec` lets only callers in that hold a verdict;
`UncheckedSpec` adds the caller that leaves it at its default. `saved` is the
list `changed`; as each field occurs once in a batch, `Last` by rank is
`reversed`. `found`, the configuration at the start of a batch, is history:
`BatchBookkeeping` compares with it what is saved and what rollback has left
behind.

**AtomicTuning** is the abstract specification: the configuration changes by a
whole approved batch at a time. `Actuator` implements it under the refinement
mapping `config <- Restored`, the configuration a rollback would lead back to,
`kills <- crashes`, `failures <- faults` and `undoing <- RollbackMayFail /\ apc =
"rollback"`: a batch takes effect when its last write is made and nothing
remains to be rolled back. A part of one may be left only by the very step in
which the process is killed, and one field by a step of the rollback in which a
write fails. A rollback that is missing, stops early or restores the wrong value
is not allowed, whether a fault, a missing sysctl or a name made the write fail.

**Policies.** `Decisions(p, k)` gives what `decide` may return and the policy
object afterwards. The learned policy's linear term is data, so its raw output
is any member of `LearnedRaw`; clipping is modelled. `reset` makes a heuristic
what `Fresh` is, so it is a swap to a fresh one. A *foreign* policy is user
code behind the ABI: any action, or an exception.

**RuntimeLoop** composes them. `step()` is five actions (`Observe`, `Decide`,
`Validate`, `Actuate`, `Return`) with the actuator's steps between the last
two; `SwapPolicy` replaces the policy between steps as `online_demo.py` does;
`Kill` and `Restart` end and begin a process, whose sysctls survive.

**ProvenanceLog.** The file is its terminated lines and an unterminated tail.
`VerifyChain` has the three outcomes of `verify_chain`: intact, the number of a
bad line, or an exception, as `json.loads` raises at a line that is no JSON and
only `FileNotFoundError` is caught.
SHA-256 is taken to be injective: a hash is the record it was computed from.
`RecordFails` and `RecordKilled` leave nothing, a fragment, a whole line
without its end, or the line; `PowerLoss` cuts what was not synced, between two
lines or inside one. `harm` is history: the first line that something has spoilt
(a fragment, a record of a logger that was out of step, a change from outside),
0 while nothing has. `Stale`, `durable`, `acked` and `mishaps` are history too.

**DriftManager.** The window is a sequence of integer rewards; the Welch
statistic is compared with its threshold exactly, multiplied out and squared,
where the code computes in floating point. Near a tie the two may differ; no
instance here has one. The threshold is in tenths. `quiet` (rewards
since the last alarm) and `gone` (the reward that the last one pushed out of the
window) are history.

**Reward.** `StepReward` is `explain_step_reward` with the default
coefficients, its normalised terms in hundredths. A sample is what the code
reads of two consecutive observations: the two differences, of either sign, and
latency and utilisation of the later one.

**OnlineLoop** is `online_demo.py`: one action per numbered part of the cycle,
with the actuator's steps inside `Acting`. It judges an action itself (`Judge`)
and calls `apply(action)` without passing the verdict. A process ends by a kill
between any two steps, at the end of the script, or because training, `decide`
or `record_decision` raises; `Start` is the next one. The log is reduced to what
its entries *say*: `told` is the configuration a reader would reconstruct from
them, `missed` the fields changed by cycles that ended before their record.
`execute_real` is on in the instance, off in the demo as shipped: with it off
nothing is written and the properties are empty.

**SchedulerMonitor.** `Switch` is the tracepoint with its sampling and the perf
buffer it submits to, `HandleEvent` the callback that `poll()` runs for each
sample, `GetKirState` the end of a window. A tick of the clock stands for the
least window the code divides by. `Utilization` and `Runnable` are what the
observation then says of each slot of the BPF arrays, `MeanAbove` what the
heuristic makes of it. `past` is history: what
each CPU was charged in earlier windows, when its first sample was handled,
whether it was never idle.

**OfflineTrainer.** Weights and bias are a point of integers. What a rollout
earns is data: every candidate runs on a simulator freshly seeded with the same
seed, so a score depends on data set and point only (`TrainScore`,
`HoldoutScore` are constants). A coordinate's sweep is one step, the end of a
round another. `save_artifact` is two, because opening the file truncates it.
SHA-256 is injective: a checksum is the payload it was computed from. `ends`,
`moved` and `trained` are history.

Definitions named `Mutant_...` are wrong versions of the definition that
follows them, used to see that each property does depend on the code. Nothing
else refers to them.

## Runs

Seven runs pass:

| run | states | shows |
|---|---|---|
| `actuator` | 26 k | one call after another: bounds, true reports, the bookkeeping of a batch (what is saved is what was found, the latest change is undone first), termination, and batches applied whole but for what a kill or a failing restoring write leaves of one (`AppliesAtomically`); one sysctl absent, a name the kernel refuses in the middle of a batch, two injected failures of writes or restoring writes, a kill, dry-run and real |
| `runtime` | 285 k | the loop under swaps, faults, failing restores, a kill and a restart: the verdict is on this step's observation, no sysctl leaves its bounds, results are true, built-in policies are never rejected, what the monitor believes and what the heuristic remembers is in force where no write failed, the loop drives the actuator as its specification demands |
| `heuristic` | 1.8 k | one heuristic policy with a failing write and two kills: a call that raises changes nothing, only a kill tears a batch (`AppliesAtomically` with restoring writes that do not fail), paired parameters stay related, the mode follows the load, no flapping, torn batches are repaired |
| `log` | 1.5 M | two loggers, a call that raises anywhere in the append, a kill or power loss, and a line edited, deleted or displaced: the first line spoilt decides what `verify_chain` does (it returns that line or, if the line is no JSON, raises), a log that nothing spoilt verifies, what was acknowledged survives |
| `monitor` | 1.1 M | two CPUs, two migrating tasks, polls and windows in any order, lost samples: samples add up, nothing is charged twice, busy CPUs read busy |
| `trainer` | 145 k | 27 data sets, two interacting coordinates, three rounds, two trainings: the carried score, local optimality of a stalled round, the best checkpoint; artifacts under failing saves, kills and changes |
| `online` | 301 k | the composed cycle: the log accounts for the kernel, rewards of the policy in force only, alarms a window apart, drops noticed, every cycle comes to its end |

Five more end in a violation: each checks one statement of the repository's
docs, comments or tests that the code does not keep (quotations are in
`PROJECT.json`, "findings"):

* `actuator_unchecked`: `approved` defaults to `True`, so a caller that skips
  the validator *does* reach the kernel (`KernelInBounds`).
* `hot_swap`: relations between fields are checked within one action, so a swap
  from the heuristic to the learned policy breaks one (`JointSafeAtRest`).
* `lost_write`: after one failed write the heuristic never proposes its
  parameters again (`EngagesTight`).
* `log_lost_number`: a `record_decision` that raises keeps its number, and the
  next record breaks the chain of a log nobody touched (`UntamperedIsIntact`).
* `monitor_diluted`: the keys of a BPF array are all of its 256 slots, and the
  mean utilisation divides by their number; with every CPU of a machine of up to
  204 fully utilised it does not exceed the 0.80 above which tight mode should
  engage (`BusyMachineEngages`; two CPUs and three slots in the run).

### Other disagreements met while modelling

They have no run of their own; each is seen by changing one constant or
hypothesis as said, or directly in the code.

* A restoring write that fails is ignored and "rolled back" is raised all the
  same (`runtime/loop.py:148`): `RollbackMayFail = TRUE` in the `heuristic` run
  violates `RaisingChangesNothing`, and in `online` (without its hypothesis)
  `AuditExplainsKernel`.
* `submit_action` is told of an approved action whose batch failed
  (`runtime/loop.py:234`): `BeliefMatchesKernel` without its hypothesis
  `faults = 0`.
* An exception of the monitor leaves `step()` (`runtime/loop.py:189`, where
  line 160 says "every stage is exception-contained"): `ObserveFails`. Line 159
  names an audit stage that `step()` does not have; only `online_demo.py` logs.
* `CUBIC` is in the allowlist after `lower()` but is written as it stands
  (`validator/core.py:82`, `runtime/loop.py:98`): the kernel refuses it, and
  the batch is rolled back.
* `verify_chain` "pinpoints the first corrupted sequence number" and "returns
  (ok, first_bad_seq, reason)" (`telemetry/provenance.py:6` and `:96`), but at a
  line that is no JSON, such as the half a record a kill leaves or a record
  joined to it, it raises (`:105`) and reports none. `HarmDecides` says so:
  with `BadAt(harm)` for every harm it is violated by a single kill.
* Such a line prevents every later `ProvenanceLogger` of the file
  (`telemetry/provenance.py:43`): `Parses` guards `Open`. `read_records` raises
  at it too.
* The statistic of two level halves is 0 (`runtime/adaptation.py:39`), so a
  noiseless drop in the middle of the first window is no alarm when the window
  is full: four rewards of 10 and four of 0, where `tests/test_drift.py:83` has
  the same feed fire thanks to its jitter. What follows decides: one more 0
  makes it an alarm, one reward late (t = -3), a 10 in its place does not.
  `NoSilentDrop` on the condition of `CleanDropFrom(x)` for any `x`, not only
  one in `gone`, is violated.
* A record written behind the fragment of a failed call is acknowledged and
  unreadable: `AckedIsDurable` without `harm = 0`, in `log`.
* A log that begins with unchained lines, as the shipped `demo_audit.jsonl`
  does, never verifies: `UntamperedIsIntact` with `LegacyLines = 1`.
* "Every decision is logged" (the repository's `README.md:142`), but the kernel
  is written first: a cycle that is killed, or whose `record_decision` raises,
  leaves sysctls no entry accounts for (`missed` in `OnlineLoop`). Entries do
  not say whether the actuator was in dry-run mode; an entry for "no change"
  carries `validator_approved: false`, where a `StepResult` says approved.
* `online_demo.py` calls `decide` without a handler: a policy that raises ends
  the process (`DecideRaises`), where `step()` contains it.
* All the time between two samples is charged if a task ran just before the
  second (`observation/monitors.py:77`), though up to `SAMPLE_PERIOD - 1`
  switches lie in between (`ebpf_scheduler.c:42`); a CPU that never switches
  reads 0. Hence `ChargedOnce` and `PeggedReadsFull` speak of sampled time.
* A task that migrates counts as runnable on both CPUs until its entry expires
  (`observation/monitors.py:101`); entries are never removed from the dict.
* `save_artifact` stamps any policy with the report and data hash of the last
  training (`trainer/rl_trainer.py:369`), and opens, so truncates, the only copy
  of the artifact before it writes: `SaveWrites`, `SaveOpens` followed by `Die`.
* The repository's `README.md:110` says "numerical gradient ascent"; the
  trainer is a coordinate search, and says so itself.

### Bounds

Actions lie on and just past each bound of the validator, so every comparison
decides both ways; batches have up to three fields, so a failure can come
before, between and after writes, and rollback has something to reorder.
In `MCActuator` two writes may fail, a restoring one among them, besides those
that the kernel refuses half-way through a batch; in
`MCRuntimeLoop` a name that the kernel refuses fails a batch, and the one
injected fault a write or a restoring write. `MaxCrashes` of 1 or 2 lets a process die in a batch and again in the batch
that would repair it. The sysctls' starting values include one outside the
bounds (`swappiness` 150, legal to the kernel): nothing in the code requires
otherwise. Readings lie on both sides of each threshold. In `MCHeuristic` the
utilisations are the two boundary values of the deadband and one beyond each.
Logs have up to four lines: a harmed line, one before it and two appended
later; two loggers are enough for one to hold a stale tail, and loggers and
payloads are symmetric. `Tamper` changes
only a log that nothing has harmed yet, since a second harm may undo the
first: deleting a forked record repairs the chain. `EditLine` leaves the stored hash as
it is, like the test it is taken from: an edit that recomputes `record_hash` is
excluded, being found only at the next record, or not at all in the last; the
chain has no key. Drift windows are six
rewards, as in `online_demo.py`;
`NoSilentDrop` asks that the level before the drop be that of a whole half and
of one reward more, and that is essential: an outlier in its place can widen the
reference enough to hide a drop. The transitions of `MCOnline` are its two workloads, each in a healthy and
an unhealthy form (clock standing still, counter reset) that earns the same;
its trainer may return a learned or a foreign policy. The demo never consumes
alarms in `check_drift`; `consume = TRUE` is covered by the proofs, which hold
for every `Consumes`.

The monitor has two CPUs and one absent slot, two tasks that may migrate, a
sampling period of 2 (the code's 16 only makes more switches unsampled) and a
perf buffer of one sample, so that it overflows; four ticks and four switches
per CPU let a window begin before, between and after a CPU's samples and a
task's entry expire. CPUs and tasks are symmetric: all of the module's
properties are invariants. The trainer has one weight and the bias, with steps
that reach the clip and the band from inside, ties, and interaction between
coordinates; three rounds, so that a round may stall and a later one, at
another scale, move again.

Deadlock is allowed only in `log`, where a torn file can be opened by no logger
and the program really stops. Exhausted bounds are no deadlock elsewhere: a
process can always exit, restart or take a next step.

### Fairness

`FairActuatorSpec`: the turns of `apply()`'s loops are straight-line code over
system calls that return, so `ActuatorStep` is weakly fair. `FairRuntimeSpec`:
the drivers call `step()` in an endless loop, and its stages do not wait, so
observing and continuing are weakly fair. `FairOnlineSpec`: a cycle once begun
is straight-line code too; nothing is assumed to begin one, or to end it by a
kill. Nothing restarts a killed process, so
properties that need it assume it (`KeepsStepping`). Nothing is assumed about
policies, readings or faults.

## Proofs

The theorems hold for every set of actions, observations, names, sysctl values,
CPUs, tasks and data sets, and for every bound. The assumptions are those named
in the modules: actions are type-correct (the schemas enforce it), the kernel's
tables of names are exact, `_VALUE_RE` accepts the allowlist, policies propose
members of `Actions`, observed samples are type-correct, there are finitely many
CPUs and tasks, scores are numbers.

`ActuatorProofs` and `RuntimeProofs`:

* `ActuatorTypeHolds` and `BookkeepingHolds`. `Structure` = type correctness and
  `BatchBookkeeping` is inductive by itself; there is one lemma per action. It
  fixes the values saved and the order: what is saved comes before the rest of
  the batch, so `reversed` undoes the latest change first.
* `KernelStaysInBounds`. `KernelInBounds` is not inductive: the values still to be written and the values to be restored
  must be known to be good. `Bounds` adds that `batch` is writable and that
  `saved` holds initial or safe values. `AcceptedSafe` is the link from
  validator to kernel: what an accepted action renders to is safe, given that
  the kernel takes only names it has registered exactly.
* `ReportIsTrue`, `RaisingRestores` (if restoring writes do not fail) and
  `PairedStaysJointSafe` follow from `Structure` and how each action changes
  `Restored`.
* `AppliesBatchesAtomically`: initial states map to initial states, and every
  step to `Commit`, `Tear`, `NotUndone`, a kill or a stutter. Only `WriteNext` on
  the last field is a `Commit`, only `RestoreFails` a `NotUndone`.
* `StepStaysConsistent` is inductive. With it `LoopDrivesActuator` shows that
  the loop implements `ActuatorSpec`: each `Actuate` is a `ValidatedCall` for
  the step's own observation. `LoopKeepsKernelInBounds` is then the actuator's
  theorem, as are `LoopAppliesAtomically` and `LoopStaysJointSafe`, and
  `LoopJudgesWrites` follows from `apc # "idle" => approved`.
* `ApprovedStaysInForce`: `Reported` adds that while `apply()` runs its batch is
  this step's action rendered, and that the report of a call that did not raise
  is too; with `ReportIsTrue`, carried over to the loop, that puts the action in
  force.
* `BuiltInsStayAccepted`: a policy object is always one `Fresh` or `decide` made
  (`FreshIsPolicy`), and the constants of each built-in lie in the validator's
  bands for every observation (`ClipBand`, `JointBands`, `BuiltInsAcceptable`).
* `BeliefStaysTrue`: `Believed` says that, while no write has failed, a batch the
  kernel takes (`KernelTakes`) never enters rollback and is in force when
  `apply()` ends; with the bookkeeping of the batch, its last write completes
  what was in force already.
* `MemoryStaysTrue`: `Remembers` says that what a heuristic remembers is the
  action of this step or, between steps, the one the monitor was told of, as
  what it proposes is never rejected (`Acceptable`). So the memory on which it
  suppresses decisions is as true as the monitor's belief: it goes wrong by a
  failed write only, and then does (`lost_write`).

`OnlineProofs` composes. `OnlineDrivesActuator` again gives the driver the
actuator's theorems (`OnlineKeepsKernelInBounds`): the verdict it does not pass
on is in force while it actuates, because only an accepted action enters `act`.
`AuditStaysTrue` needs an invariant over the whole cycle: until its record, a
cycle's batch is the only difference between `Restored` and `told` outside
`missed`; what `Claimed` reads off the entry is either all of the batch (it was
not raised) or none of it (it was restored). `WindowStaysCurrent` and
`RewardsStayBounded` (from `StepRewardBounded`, a lemma about `Reward` for all
samples) follow the window; `AdaptationsAreApart` is the drift manager's theorem
carried over.

`LogProofs` holds for any number of loggers, lines, faults, kills and changes.
Its invariant holds an exact account of the file: `Exact` says of the lines before
`harm`, or of all of them while `harm` is 0, that each continues the chain, of
the line at `harm` that it does not, and that only a harmed log has an
unterminated rest. The step that matters
is a write by a logger that is not stale: it holds number and hash of the last
line, so the line it writes continues the chain, while the write of a stale one
breaks it exactly there. `UnharmedLogVerifies` and `HarmDecidesVerdict` assume
`LegacyLines = 0`; a log with lines of the old format has no intact prefix.
`AckedStaysDurable` adds that acknowledged hashes lie in the synced part unless
that part was harmed. As hashes nest, lines form no set that could be written
down, and the lemmas speak of sequences over some set (`IsLog`).
`ChainBinds` is about `verify_chain()` alone: given the hash of its last record,
an intact log cannot be another one. It goes back from the last record, through
a least counterexample.

`SumProofs` is about the library's `SumFunctionOnSet`, a fold that is defined by
recursion on sets. An induction over an operator is beyond the prover, so the
lemmas take a counterexample of least cardinality and remove from it the element
that the fold takes next: that the recursion has a solution (`SumsExist`), that
changing one value changes the sum by as much (`SumOfChange`), the sum of equal
values.

`DriftProofs`: the window holds nothing older than the last alarm
(`WindowIsYoung`), and an alarm needs a full one. `DropsAreNoticed` is about the
statistic: of a half that is level but for its first reward, `SumOfStep` and
`SpreadOfStep` give sum and variance, and with them the window of one reward
into a drop of size d has loss (W-1)d and spread (W-1)d², which is significant
if the threshold is below W-1 (`DropIsSignificant`; 0.5 against 2 in the demo, 2
against 9 by default). `WasChecked` says that the driver went past the check of
that window, so it was no drop. With a threshold of W-1 or more that window is no
alarm.

`TrainerProofs` holds for every number of weights and rounds, all steps and all
scores. `SearchIsMonotone` needs that the carried score is the point's at every
coordinate; `StallsOnlyAtOptimum` that every coordinate swept so far in a round
without a move had no winning step at the present point; `CheckpointStaysBest`
that the checkpoint's value is its point's. `OnlyTrainedAreHeld` rests on the
file: its checksum, if there is one, is that of an artifact that was written
for a held, hence trained, policy.

`MonitorProofs` holds for every number of CPUs and tasks, period, buffer and
sequence of polls. `ChargedOnce` says nothing of what one window was charged, so
it cannot give `PeggedReadsFull`; the invariant `Sampling` adds that what earlier
windows were charged lies before the present one's start. `NeverIdle` says that
no sample still waiting in the buffer of a never-idle CPU is of its idle task.
`SamplesStayConserved` counts periods (`PeriodsCount`: the number of periods
begun grows just when a switch is sampled) and sums over the CPUs.

Every invariant that a passing run checks is proved, and so are all action
properties and the refinements. Only model-checked is liveness, which is out of
the prover's reach: `ApplyTerminates`, `CyclesComplete`, `EngagesTightUnharmed`,
`NoFlapping` and `JointRecovers`.

## Not modelled

* Kernel simulator (`simulator/env.py`): real-valued dynamics with Gaussian
  noise and an exponent of 1.2; integers would keep none of its claims (an
  interior optimum). The models do not depend on it: readings are arbitrary in
  `RuntimeLoop` and `OnlineLoop`, rollout scores in `OfflineTrainer`, which
  includes whatever it produces. The action it is told is in `RuntimeLoop`.
* The learned policy's linear term and the features it reads: data.
* `simulate_and_train.py`, `opentemp_check_trainer.py` and
  `multi_subsystem_demo.py` print what the modelled parts do; the last calls the
  actuator as `online_demo.py` does, after its own check and without the
  verdict.
* `_estimate_latency_ms` (a rounded mean of `Runnable`), reads of the log that
  fail, `fsync` of the directory, wording of messages.
* Deleting the *last* record of a log: a chain cannot tell, and the code does
  not claim to.
