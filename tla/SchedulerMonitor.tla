-------------------------- MODULE SchedulerMonitor --------------------------
(***************************************************************************)
(* SchedulerMonitor (learned_kernel/observation/monitors.py) and the eBPF  *)
(* program it loads (ebpf_scheduler.c).  Every context switch of a CPU is  *)
(* counted in the kernel; one in SAMPLE_PERIOD is put into the CPU's perf  *)
(* buffer, which drops what does not fit.  poll() takes the samples out,   *)
(* and the callback dates each with the time at which it runs.             *)
(*                                                                         *)
(* Time is counted in ticks; a tick also stands for the smallest window    *)
(* get_kir_state() divides by.  Utilisation is in hundredths.              *)
(***************************************************************************)
EXTENDS Integers, Sequences, FiniteSets, FiniteSetsExt, Functions

CONSTANTS
  CPUs,           \* the CPUs of the machine
  AbsentCPUs,     \* the other slots of the BPF arrays
  Tasks,          \* the tasks that run on the machine
  Idle,           \* the idle task, pid 0
  SAMPLE_PERIOD,
  BufferSize,     \* samples a CPU's perf buffer holds
  TaskTTL,        \* _TASK_TTL_S
  MaxTime,        \* bound on the clock
  MaxSwitches,    \* bound on the switches of a CPU
  Unseen          \* Python's None, or no entry in a dict

ASSUME MonitorAssumption ==
  /\ CPUs # {} /\ CPUs \cap AbsentCPUs = {}
  /\ IsFiniteSet(CPUs) /\ IsFiniteSet(AbsentCPUs)
  /\ IsFiniteSet(Tasks) /\ Idle \notin Tasks
  /\ SAMPLE_PERIOD \in Nat /\ SAMPLE_PERIOD >= 2
  /\ BufferSize \in Nat /\ TaskTTL \in Nat
  /\ MaxTime \in Nat /\ MaxSwitches \in Nat
  /\ Unseen \notin Nat

VARIABLES
  clock,         \* time.monotonic_ns()
  running,       \* the task on each CPU
  seq,           \* cpu_metrics and sample_state: switches of each CPU
  buffer,        \* the perf buffers: prev_pid of each sample
  lost,          \* samples of each CPU that did not fit
  total_switches,
  last_ts,       \* _last_ts_ns
  busy,          \* _busy_ns
  window_start,  \* _window_start_ns
  recent_tasks,  \* _recent_tasks: when a CPU's task was last seen
  past           \* of each CPU: samples handled, time of the first, busy time
                 \* of the windows before this, whether it has never been idle

kernelVars == <<clock, running, seq, buffer, lost>>

monitorVars ==
  <<kernelVars, total_switches, last_ts, busy, window_start, recent_tasks, past>>

MonitorInit ==
  /\ clock = 0
  /\ running \in [CPUs -> Tasks \cup {Idle}]
  /\ \A c, d \in CPUs : running[c] = running[d] => c = d \/ running[c] = Idle
  /\ seq = [c \in CPUs |-> 0]
  /\ buffer = [c \in CPUs |-> <<>>]
  /\ lost = [c \in CPUs |-> 0]
  /\ total_switches = 0
  /\ last_ts = [c \in CPUs |-> Unseen]
  /\ busy = [c \in CPUs |-> 0]
  /\ window_start = Unseen
  /\ recent_tasks = [c \in CPUs |-> [t \in Tasks |-> Unseen]]
  /\ past = [c \in CPUs |-> [handled |-> 0, first |-> Unseen, busy |-> 0,
                             pegged |-> running[c] # Idle]]

-----------------------------------------------------------------------------
Tick ==
  /\ clock < MaxTime
  /\ clock' = clock + 1
  /\ UNCHANGED <<running, seq, buffer, lost, total_switches, last_ts, busy,
                 window_start, recent_tasks, past>>

\* Mutant of Sampled: the last switch of every period is taken.
Mutant_LastOfPeriod(n) == n % SAMPLE_PERIOD = 0

Sampled(n) == n % SAMPLE_PERIOD = 1

(* The tracepoint: c switches from running[c] to t.                        *)
Switch(c, t) ==
  /\ seq[c] < MaxSwitches
  /\ t # running[c] /\ (t = Idle \/ \A d \in CPUs : running[d] # t)
  /\ running' = [running EXCEPT ![c] = t]
  /\ seq' = [seq EXCEPT ![c] = @ + 1]
  /\ \/ /\ ~Sampled(seq'[c])
        /\ UNCHANGED <<buffer, lost>>
     \/ /\ Sampled(seq'[c]) /\ Len(buffer[c]) < BufferSize
        /\ buffer' = [buffer EXCEPT ![c] = Append(@, running[c])]
        /\ UNCHANGED lost
     \/ /\ Sampled(seq'[c]) /\ Len(buffer[c]) >= BufferSize
        /\ lost' = [lost EXCEPT ![c] = @ + 1]
        /\ UNCHANGED buffer
  /\ past' = [past EXCEPT ![c].pegged = @ /\ t # Idle]
  /\ UNCHANGED <<clock, total_switches, last_ts, busy, window_start, recent_tasks>>

-----------------------------------------------------------------------------
\* Mutant of Charge: the operands of the difference are swapped.
Mutant_Reversed(c, prev) ==
  IF last_ts[c] = Unseen \/ prev = Idle THEN 0 ELSE last_ts[c] - clock

(* What a sample adds to the busy time of its CPU: all the time since the  *)
(* last one, if a task ran just before the switch.                         *)
Charge(c, prev) ==
  IF last_ts[c] = Unseen \/ prev = Idle THEN 0 ELSE clock - last_ts[c]

(* _handle_event(), called by poll() for the oldest sample of a buffer.    *)
HandleEvent(c) ==
  /\ buffer[c] # <<>>
  /\ LET prev == Head(buffer[c])
     IN  /\ busy' = [busy EXCEPT ![c] = @ + Charge(c, prev)]
         /\ recent_tasks' = IF prev = Idle THEN recent_tasks
                            ELSE [recent_tasks EXCEPT ![c][prev] = clock]
  /\ buffer' = [buffer EXCEPT ![c] = Tail(@)]
  /\ total_switches' = total_switches + 1
  /\ last_ts' = [last_ts EXCEPT ![c] = clock]
  /\ window_start' = IF window_start = Unseen THEN clock ELSE window_start
  /\ past' = [past EXCEPT ![c].handled = @ + 1,
                          ![c].first = IF @ = Unseen THEN clock ELSE @]
  /\ UNCHANGED <<clock, running, seq, lost>>

\* Mutants of GetKirState: the busy time is not reset with the window; all
\* of the accounting is.
Mutant_BusyKept ==
  /\ window_start' = clock
  /\ past' = [c \in CPUs |-> [past[c] EXCEPT !.busy = @ + busy[c]]]
  /\ UNCHANGED <<kernelVars, total_switches, last_ts, busy, recent_tasks>>

Mutant_AllReset ==
  /\ busy' = [c \in CPUs |-> 0]
  /\ last_ts' = [c \in CPUs |-> Unseen]
  /\ window_start' = clock
  /\ past' = [c \in CPUs |-> [past[c] EXCEPT !.busy = @ + busy[c]]]
  /\ UNCHANGED <<kernelVars, total_switches, recent_tasks>>

(* get_kir_state(): the window ends, and the next begins.                  *)
GetKirState ==
  /\ busy' = [c \in CPUs |-> 0]
  /\ window_start' = clock
  /\ past' = [c \in CPUs |-> [past[c] EXCEPT !.busy = @ + busy[c]]]
  /\ UNCHANGED <<kernelVars, total_switches, last_ts, recent_tasks>>

MonitorNext ==
  \/ Tick
  \/ \E c \in CPUs : (\E t \in Tasks \cup {Idle} : Switch(c, t)) \/ HandleEvent(c)
  \/ GetKirState

MonitorSpec == MonitorInit /\ [][MonitorNext]_monitorVars

-----------------------------------------------------------------------------
(* The KIR that get_kir_state() returns: an entry for every slot.          *)
Window == IF window_start = Unseen \/ clock = window_start THEN 1
          ELSE clock - window_start

Utilization(c) ==
  IF c \notin CPUs THEN 0 ELSE Min({100, (100 * busy[c]) \div Window})

Runnable(c) ==
  IF c \notin CPUs THEN 0
  ELSE Cardinality({t \in Tasks : /\ recent_tasks[c][t] # Unseen
                                  /\ clock - recent_tasks[c][t] <= TaskTTL})

(* What the heuristic makes of it (mean_utilization(), decide()).          *)
ENTER_TIGHT == 80

Slots == CPUs \cup AbsentCPUs

MeanAbove(threshold) ==
  SumFunction([c \in Slots |-> Utilization(c)]) > threshold * Cardinality(Slots)

-----------------------------------------------------------------------------
(* Every variable has the values its code can give it.                     *)
MonitorTypeOK ==
  /\ clock \in 0 .. MaxTime
  /\ running \in [CPUs -> Tasks \cup {Idle}]
  /\ seq \in [CPUs -> 0 .. MaxSwitches] /\ lost \in [CPUs -> Nat]
  /\ buffer \in [CPUs -> Seq(Tasks \cup {Idle})]
  /\ \A c \in CPUs : Len(buffer[c]) <= BufferSize
  /\ total_switches \in Nat /\ busy \in [CPUs -> Nat]
  /\ last_ts \in [CPUs -> Nat \cup {Unseen}] /\ window_start \in Nat \cup {Unseen}
  /\ recent_tasks \in [CPUs -> [Tasks -> Nat \cup {Unseen}]]
  /\ past \in [CPUs -> [handled : Nat, first : Nat \cup {Unseen}, busy : Nat,
                        pegged : BOOLEAN]]

(***************************************************************************)
(* Of a CPU's switches one in SAMPLE_PERIOD, the first included, is        *)
(* handled once, waits in the perf buffer or was dropped by it; and        *)
(* total_context_switches counts those handled, whichever CPU they are of. *)
(***************************************************************************)
SamplesConserved ==
  /\ \A c \in CPUs :
       past[c].handled + Len(buffer[c]) + lost[c]
         = (seq[c] + SAMPLE_PERIOD - 1) \div SAMPLE_PERIOD
  /\ total_switches = SumFunction([c \in CPUs |-> past[c].handled])

(***************************************************************************)
(* "Busy-time deltas give utilisation": however polls and windows fall, no *)
(* moment is charged to a CPU twice, in one window or in two, and all of   *)
(* the time between the samples of a CPU that is never idle is charged.    *)
(***************************************************************************)
Charged(c) == past[c].busy + busy[c]

ChargedOnce ==
  \A c \in CPUs :
    IF past[c].first = Unseen THEN Charged(c) = 0
    ELSE /\ Charged(c) <= last_ts[c] - past[c].first
         /\ past[c].pegged => Charged(c) = last_ts[c] - past[c].first

(***************************************************************************)
(* Right after a sample of a CPU that is never idle, the CPU reads fully   *)
(* utilised, with a task in its queue, unless its first sample is younger  *)
(* than the window: what an earlier window could not know is made up for.  *)
(***************************************************************************)
PeggedReadsFull ==
  \A c \in CPUs :
    /\ past[c].pegged /\ last_ts[c] = clock
    /\ past[c].first <= window_start /\ window_start < clock
    => Utilization(c) = 100 /\ Runnable(c) >= 1

(***************************************************************************)
(* "Tight mode engages above ENTER_TIGHT": when every CPU of the machine   *)
(* reads fully utilised, the mean on which the heuristic decides exceeds   *)
(* the threshold.  (It does not: get_kir_state() has an entry for every    *)
(* slot of the BPF array, and mean_utilization() divides by all of them.)  *)
(***************************************************************************)
BusyMachineEngages ==
  (\A c \in CPUs : Utilization(c) = 100) => MeanAbove(ENTER_TIGHT)
=============================================================================
