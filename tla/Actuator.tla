----------------------------- MODULE Actuator ------------------------------
(***************************************************************************)
(* KernelActuator (learned_kernel/runtime/loop.py): apply() renders an     *)
(* approved action as sysctl commands and, in real mode, writes the files  *)
(* under /proc/sys one at a time.  When a write fails it restores the      *)
(* values it had read, latest first; a restoring write that fails is       *)
(* ignored.  The process may be killed (or interrupted: only Exception is   *)
(* caught) between any two writes.                                         *)
(*                                                                         *)
(* The actuator is driven here by callers that hold the validator's        *)
(* verdict; UncheckedSpec adds callers that do not pass one and so get the *)
(* default of the parameter `approved`.                                    *)
(***************************************************************************)
EXTENDS Validator

CONSTANTS
  Actions,          \* the actions callers may pass
  KIRs,             \* the observations an action may be judged with
  InitKernel,       \* the values of the sysctls before the first batch
  Registered,       \* spellings of tcp_congestion_control the kernel knows
  Absent,           \* fields whose sysctl this kernel does not have
  MalformedNames,   \* names outside the character set of _VALUE_RE
  Modes,            \* values execute_real may be constructed with
  RollbackMayFail,  \* whether a restoring write may fail
  MaxFaults,        \* bound on the failures injected
  MaxCrashes        \* bound on the kills injected

ASSUME ActionsAssumption == \A a \in Actions : a # None /\ IsAction(a)

ASSUME KIRsAssumption == \A k \in KIRs : IsKIR(k)

\* The kernel starts with any values: nothing requires them to be in bounds.
ASSUME KernelAssumption ==
  /\ InitKernel = [f \in Fields |-> InitKernel[f]]
  /\ Absent \subseteq Fields

\* The kernel matches congestion-control names exactly.
ASSUME RegisteredAssumption ==
  \A c \in Registered : ~c.upper /\ ~c.padded

ASSUME ModesAssumption ==
  /\ Modes \subseteq BOOLEAN /\ Modes # {}
  /\ RollbackMayFail \in BOOLEAN
  /\ MaxFaults \in Nat /\ MaxCrashes \in Nat
  /\ MalformedNames \subseteq Names
  /\ \A c \in ALLOWED_CONGESTION_CONTROL : c.name \notin MalformedNames

VARIABLES
  execute_real,  \* the mode of the current KernelActuator
  kernel,        \* the sysctl values, in the kernel's units
  apc,           \* where apply() is: "idle", "writing" or "rollback"
  batch,         \* the commands of the batch being written, or None
  todo,          \* the fields of the batch not written yet
  saved,         \* AppliedChange: the old value of each field written
  found,         \* history: what the batch being written found in the kernel
  returned,      \* how the last call of apply() ended
  faults,        \* failures injected so far
  crashes        \* kills injected so far

actuatorVars ==
  <<execute_real, kernel, apc, batch, todo, saved, found, returned, faults, crashes>>

NoCommands == [f \in {} |-> None]

Returned(cmds) == [raised |-> FALSE, cmds |-> cmds]

Raised == [raised |-> TRUE, cmds |-> NoCommands]

ActuatorInit ==
  /\ execute_real \in Modes
  /\ kernel = InitKernel
  /\ apc = "idle"
  /\ batch = None
  /\ todo = {}
  /\ saved = NoCommands
  /\ found = NoCommands
  /\ returned = Returned(NoCommands)
  /\ faults = 0
  /\ crashes = 0

-----------------------------------------------------------------------------
(* The end of apply(): the locals of the call are gone.                    *)
Finish(r) ==
  /\ apc' = "idle"
  /\ batch' = None
  /\ todo' = {}
  /\ saved' = NoCommands
  /\ found' = NoCommands
  /\ returned' = r

(* plan() refuses a value with a character outside _VALUE_RE.              *)
Malformed(a) ==
  Sets(a, "congestion_control") /\ a["congestion_control"].name \in MalformedNames

(* The early returns of apply(), in their order: nothing is written.       *)
ApplyWithoutWriting(a, approved) ==
  /\ \/ /\ a = None \/ ~approved
        /\ Finish(Returned(NoCommands))
     \/ /\ a # None /\ approved /\ Malformed(a)
        /\ Finish(Raised)
     \/ /\ a # None /\ approved /\ ~Malformed(a)
        /\ DOMAIN a = {} \/ ~execute_real
        /\ Finish(Returned(Rendering(a)))
  /\ UNCHANGED kernel

(* The real mode: the commands are rendered, and the loop over them starts.*)
ApplyForReal(a, approved) ==
  /\ a # None /\ approved /\ ~Malformed(a) /\ DOMAIN a # {} /\ execute_real
  /\ apc' = "writing"
  /\ batch' = Rendering(a)
  /\ todo' = DOMAIN a
  /\ saved' = NoCommands
  /\ found' = kernel
  /\ UNCHANGED <<kernel, returned>>

Apply(a, approved) ==
  /\ apc = "idle"
  /\ ApplyWithoutWriting(a, approved) \/ ApplyForReal(a, approved)
  /\ UNCHANGED <<execute_real, faults, crashes>>

(* A field's file exists and the kernel takes the value written.           *)
Accepts(f, x) ==
  /\ f \notin Absent
  /\ f = "congestion_control" => x \in Registered

\* Mutant of WriteNext: the old value is read after the write.
Mutant_ReadsBackTooLate(f) ==
  /\ apc = "writing" /\ First(f, todo) /\ Accepts(f, batch[f])
  /\ kernel' = [kernel EXCEPT ![f] = batch[f]]
  /\ \/ /\ todo # {f}
        /\ todo' = todo \ {f}
        /\ saved' = [g \in DOMAIN saved \cup {f} |-> batch[g]]
        /\ UNCHANGED <<apc, batch, found, returned>>
     \/ /\ todo = {f}
        /\ Finish(Returned(batch))
  /\ UNCHANGED <<execute_real, faults, crashes>>

(* One turn of the loop: read the old value, write, remember the change.   *)
WriteNext(f) ==
  /\ apc = "writing" /\ First(f, todo) /\ Accepts(f, batch[f])
  /\ kernel' = [kernel EXCEPT ![f] = batch[f]]
  /\ \/ /\ todo # {f}
        /\ todo' = todo \ {f}
        /\ saved' = [g \in DOMAIN saved \cup {f} |->
                       IF g = f THEN kernel[f] ELSE saved[g]]
        /\ UNCHANGED <<apc, batch, found, returned>>
     \/ /\ todo = {f}
        /\ Finish(Returned(batch))
  /\ UNCHANGED <<execute_real, faults, crashes>>

\* Mutants of WriteFails: no rollback; the error is swallowed; the write is
\* retried for as long as it fails.
Mutant_NoRollback(f) ==
  /\ apc = "writing" /\ First(f, todo)
  /\ \/ ~Accepts(f, batch[f]) /\ UNCHANGED faults
     \/ faults < MaxFaults /\ faults' = faults + 1
  /\ Finish(Raised)
  /\ UNCHANGED <<execute_real, kernel, crashes>>

Mutant_ErrorSwallowed(f) ==
  /\ apc = "writing" /\ First(f, todo)
  /\ \/ ~Accepts(f, batch[f]) /\ UNCHANGED faults
     \/ faults < MaxFaults /\ faults' = faults + 1
  /\ Finish(Returned(batch))
  /\ UNCHANGED <<execute_real, kernel, crashes>>

Mutant_RetriesForever(f) ==
  /\ apc = "writing" /\ First(f, todo)
  /\ \/ ~Accepts(f, batch[f]) /\ UNCHANGED faults
     \/ faults < MaxFaults /\ faults' = faults + 1
  /\ UNCHANGED <<execute_real, kernel, apc, batch, todo, saved, found, returned,
                 crashes>>

(* The write raises: the changes of this batch are to be rolled back.      *)
WriteFails(f) ==
  /\ apc = "writing" /\ First(f, todo)
  /\ \/ ~Accepts(f, batch[f]) /\ UNCHANGED faults
     \/ faults < MaxFaults /\ faults' = faults + 1
  /\ \/ /\ DOMAIN saved # {}
        /\ apc' = "rollback"
        /\ todo' = {}
        /\ UNCHANGED <<batch, saved, found, returned>>
     \/ /\ DOMAIN saved = {}
        /\ Finish(Raised)
  /\ UNCHANGED <<execute_real, kernel, crashes>>

(* The rollback loop leaves f behind; after the last field it raises.      *)
Dismiss(f) ==
  \/ /\ DOMAIN saved # {f}
     /\ saved' = [g \in DOMAIN saved \ {f} |-> saved[g]]
     /\ UNCHANGED <<apc, batch, todo, found, returned>>
  \/ /\ DOMAIN saved = {f}
     /\ Finish(Raised)

\* Mutants of RestoreNext: the other fields are lost; the field restored is
\* not left behind; the changes are taken in the order they were made.
Mutant_OthersLost(f) ==
  /\ apc = "rollback" /\ Last(f, DOMAIN saved)
  /\ kernel' = saved
  /\ Dismiss(f)
  /\ UNCHANGED <<execute_real, faults, crashes>>

Mutant_NotDismissed(f) ==
  /\ apc = "rollback" /\ Last(f, DOMAIN saved)
  /\ kernel' = [kernel EXCEPT ![f] = saved[f]]
  /\ UNCHANGED <<execute_real, apc, batch, todo, saved, found, returned, faults,
                 crashes>>

Mutant_NotReversed(f) ==
  /\ apc = "rollback" /\ First(f, DOMAIN saved)
  /\ kernel' = [kernel EXCEPT ![f] = saved[f]]
  /\ Dismiss(f)
  /\ UNCHANGED <<execute_real, faults, crashes>>

RestoreNext(f) ==
  /\ apc = "rollback" /\ Last(f, DOMAIN saved)
  /\ kernel' = [kernel EXCEPT ![f] = saved[f]]
  /\ Dismiss(f)
  /\ UNCHANGED <<execute_real, faults, crashes>>

RestoreFails(f) ==
  /\ apc = "rollback" /\ Last(f, DOMAIN saved)
  /\ RollbackMayFail /\ faults < MaxFaults
  /\ faults' = faults + 1
  /\ Dismiss(f)
  /\ UNCHANGED <<execute_real, kernel, crashes>>

ActuatorStep ==
  \E f \in Fields :
    WriteNext(f) \/ WriteFails(f) \/ RestoreNext(f) \/ RestoreFails(f)

(* A new KernelActuator has returned nothing yet; sysctls outlive the old. *)
Construct ==
  /\ apc = "idle"
  /\ execute_real' \in Modes
  /\ returned' = Returned(NoCommands)
  /\ UNCHANGED <<kernel, apc, batch, todo, saved, found, faults, crashes>>

(* The process is killed: what it remembered of the batch is lost.         *)
Crash ==
  /\ crashes < MaxCrashes
  /\ crashes' = crashes + 1
  /\ Finish(Returned(NoCommands))
  /\ UNCHANGED <<execute_real, kernel, faults>>

-----------------------------------------------------------------------------
(* A caller that passes on the verdict it got for some observation.        *)
ValidatedCall(a) == \E k \in KIRs : Apply(a, ValidateAction(k, a))

(* A caller that leaves `approved` at its default.                         *)
DefaultApproved == TRUE

UnvalidatedCall(a) == Apply(a, DefaultApproved)

ActuatorNext ==
  \/ \E a \in Actions : ValidatedCall(a)
  \/ Apply(None, DefaultApproved)
  \/ ActuatorStep
  \/ Construct
  \/ Crash

ActuatorSpec == ActuatorInit /\ [][ActuatorNext]_actuatorVars

(* Some caller applies without a verdict.                                  *)
UncheckedNext == ActuatorNext \/ \E a \in Actions : UnvalidatedCall(a)

UncheckedSpec == ActuatorInit /\ [][UncheckedNext]_actuatorVars

(* Every system call apply() makes returns, and so does every turn.        *)
FairActuatorSpec == ActuatorSpec /\ WF_actuatorVars(ActuatorStep)

-----------------------------------------------------------------------------
(* Every variable has the values its code can give it.                     *)
ActuatorTypeOK ==
  /\ execute_real \in Modes
  /\ DOMAIN kernel = Fields
  /\ apc \in {"idle", "writing", "rollback"}
  /\ todo \subseteq Fields
  /\ DOMAIN saved \subseteq Fields /\ DOMAIN found \subseteq Fields
  /\ returned.raised \in BOOLEAN /\ DOMAIN returned.cmds \subseteq Fields
  /\ faults \in 0 .. MaxFaults
  /\ crashes \in 0 .. MaxCrashes

(***************************************************************************)
(* "No destabilising parameter reaches the kernel" (PolicyValidator):      *)
(* whatever is proposed, fails or is killed, a sysctl never holds a value  *)
(* outside the validator's bounds that it did not hold at the start.       *)
(***************************************************************************)
KernelInBounds ==
  \A f \in Fields : kernel[f] = InitKernel[f] \/ SafeSetting(f, kernel[f])

(***************************************************************************)
(* What apply() returns is what the kernel holds: a command in the list of *)
(* a real-mode call is in force until the next call starts.                *)
(***************************************************************************)
ReportMatchesKernel ==
  apc = "idle" /\ execute_real =>
    \A f \in DOMAIN returned.cmds : kernel[f] = returned.cmds[f]

(***************************************************************************)
(* The bookkeeping of a batch, on which rollback depends.  While it is     *)
(* written, its fields are those still to write and those saved; the saved *)
(* ones hold the batch's values and are saved with the values the batch    *)
(* found, and all else is as it was found.  Rollback undoes the latest     *)
(* change first: what is saved always comes before the rest of the batch;  *)
(* and what it has left behind is as the batch found it, or holds the      *)
(* batch's value where a restoring write failed.                           *)
(***************************************************************************)
LeftBehind(f) ==
  \/ kernel[f] = found[f]
  \/ RollbackMayFail /\ f \in DOMAIN batch /\ kernel[f] = batch[f]

BatchBookkeeping ==
  /\ apc = "idle" => todo = {} /\ DOMAIN saved = {}
  /\ apc # "idle" => execute_real
  /\ apc = "writing" =>
       /\ todo # {} /\ todo \cap DOMAIN saved = {}
       /\ DOMAIN batch = todo \cup DOMAIN saved
       /\ \A f \in Fields \ DOMAIN saved : kernel[f] = found[f]
  /\ apc = "rollback" =>
       /\ DOMAIN saved # {} /\ DOMAIN saved \subseteq DOMAIN batch
       /\ \A f \in Fields \ DOMAIN saved : LeftBehind(f)
  /\ \A f \in DOMAIN saved :
       /\ kernel[f] = batch[f] /\ saved[f] = found[f]
       /\ \A g \in DOMAIN batch \ DOMAIN saved : Rank[f] < Rank[g]

(* The configuration a rollback would leave: between calls, the kernel's.  *)
Restored == [f \in Fields |-> IF f \in DOMAIN saved THEN saved[f] ELSE kernel[f]]

(***************************************************************************)
(* The validator relates two fields only when one action sets both, so it  *)
(* keeps the kernel jointly safe only where no action sets one of a pair:  *)
(* then the relations hold at rest, and in what a rollback would restore.  *)
(***************************************************************************)
Pairs ==
  {<<"wakeup_granularity_us", "target_latency_us">>,
   <<"dirty_background_ratio", "dirty_ratio">>}

Paired(a) == \A p \in Pairs : Sets(a, p[1]) <=> Sets(a, p[2])

JointSafeWhenPaired ==
  /\ JointSafe(InitKernel) /\ \A a \in Actions : Paired(a)
  /\ ~RollbackMayFail /\ crashes = 0
  => JointSafe(Restored)

(***************************************************************************)
(* A call that ends in "write failed, rolled back" leaves the kernel as it *)
(* found it: no step of a call, up to and with the one that raises, changes *)
(* the configuration that a rollback leads back to.                        *)
(***************************************************************************)
RaisingChangesNothing ==
  [][apc' # "idle" \/ returned'.raised => Restored' = Restored]_actuatorVars

(***************************************************************************)
(* apply() is atomic: seen through Restored, the kernel changes by whole   *)
(* approved batches (by a part of one only in the step in which the        *)
(* process is killed, and by one field in a step of the rollback in which  *)
(* the restoring write fails).                                             *)
(***************************************************************************)
MayWrite(a) == \E k \in KIRs : ValidateAction(k, a)

Promise == INSTANCE AtomicTuning WITH
  config <- Restored,
  Batches <- {Rendering(a) : a \in {b \in Actions : MayWrite(b)}},
  kills <- crashes,
  failures <- faults,
  undoing <- RollbackMayFail /\ apc = "rollback",
  InitConfig <- InitKernel

AppliesAtomically == Promise!Spec

(* Every call of apply() ends: a batch is written or rolled back.          *)
ApplyTerminates == apc # "idle" ~> apc = "idle"
=============================================================================
