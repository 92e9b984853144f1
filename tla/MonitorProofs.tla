---------------------------- MODULE MonitorProofs ----------------------------
(***************************************************************************)
(* The busy-time accounting of the eBPF monitor, for every number of CPUs  *)
(* and tasks, sampling period and buffer size: nothing is charged twice,   *)
(* and a CPU that is never idle reads fully utilised.                      *)
(***************************************************************************)
EXTENDS SchedulerMonitor, SumProofs, SequenceTheorems

(* The accounting of a CPU with a first sample, at time f, and a last, at  *)
(* time l: what was charged fits between them, what earlier windows were   *)
(* charged before the present one, and a task that ran until l is known.   *)
Sampling(c, f, l) ==
  /\ f <= l /\ l <= clock
  /\ Charged(c) <= l - f
  /\ past[c].pegged => Charged(c) = l - f
  /\ window_start # Unseen
  /\ f <= window_start => past[c].busy <= window_start - f
  /\ past[c].pegged => \E t \in Tasks : recent_tasks[c][t] = l

Accounts(c) ==
  \/ last_ts[c] = Unseen /\ past[c].first = Unseen /\ past[c].busy = 0 /\ busy[c] = 0
  \/ last_ts[c] # Unseen /\ past[c].first # Unseen /\ Sampling(c, past[c].first, last_ts[c])

(* No sample of a CPU that is never idle has been of its idle task.        *)
NeverIdle(c) ==
  past[c].pegged =>
    running[c] # Idle /\ \A i \in 1 .. Len(buffer[c]) : buffer[c][i] # Idle

MonitorInv ==
  MonitorTypeOK /\ \A c \in CPUs : Accounts(c) /\ NeverIdle(c)

(* The types of what belongs to one CPU.                                   *)
CpuTypes(c) ==
  /\ running[c] \in Tasks \cup {Idle} /\ seq[c] \in 0 .. MaxSwitches /\ lost[c] \in Nat
  /\ buffer[c] \in Seq(Tasks \cup {Idle}) /\ Len(buffer[c]) <= BufferSize
  /\ busy[c] \in Nat /\ last_ts[c] \in Nat \cup {Unseen}
  /\ past[c].handled \in Nat /\ past[c].first \in Nat \cup {Unseen}
  /\ past[c].busy \in Nat /\ past[c].pegged \in BOOLEAN
  /\ recent_tasks[c] \in [Tasks -> Nat \cup {Unseen}]

LEMMA CpuTypesHold ==
  ASSUME MonitorTypeOK, NEW c \in CPUs
  PROVE  CpuTypes(c)
BY DEF MonitorTypeOK, CpuTypes

LEMMA UnseenIsNoTime == Unseen \notin Nat
BY MonitorAssumption

LEMMA ClockIsTime == MonitorTypeOK => clock \in Nat
<1>1. MonitorTypeOK => clock \in 0 .. MaxTime
  BY DEF MonitorTypeOK
<1> QED BY <1>1, MonitorAssumption

LEMMA MonitorInvInit == MonitorInit => MonitorInv
<1> SUFFICES ASSUME MonitorInit PROVE MonitorInv
  OBVIOUS
<1>1. MonitorTypeOK
  <2>1. \A c \in CPUs : Len(buffer[c]) = 0
    BY DEF MonitorInit
  <2>2. buffer \in [CPUs -> Seq(Tasks \cup {Idle})]
    BY DEF MonitorInit
  <2>3. past \in [CPUs -> [handled : Nat, first : Nat \cup {Unseen}, busy : Nat,
                           pegged : BOOLEAN]]
    BY DEF MonitorInit
  <2> QED BY <2>1, <2>2, <2>3, MonitorAssumption DEF MonitorInit, MonitorTypeOK
<1>2. ASSUME NEW c \in CPUs
      PROVE  Accounts(c) /\ NeverIdle(c)
  <2>1. /\ past[c].first = Unseen /\ past[c].busy = 0
        /\ past[c].pegged = (running[c] # Idle)
    BY DEF MonitorInit
  <2>2. last_ts[c] = Unseen /\ busy[c] = 0 /\ Len(buffer[c]) = 0
    BY DEF MonitorInit
  <2>3. 1 .. Len(buffer[c]) = {}
    BY <2>2
  <2> QED BY <2>1, <2>2, <2>3, Zenon DEF Accounts, NeverIdle
<1> QED BY <1>1, <1>2 DEF MonitorInv

(* Time passes.                                                            *)
LEMMA TickKeeps ==
  ASSUME MonitorInv, Tick
  PROVE  MonitorInv'
<1>1. clock \in Nat /\ clock' = clock + 1 /\ clock' \in 0 .. MaxTime
  BY MonitorAssumption DEF MonitorInv, MonitorTypeOK, Tick
<1>2. UNCHANGED <<running, seq, buffer, lost, total_switches, last_ts, busy,
                  window_start, recent_tasks, past>>
  BY DEF Tick
<1>3. MonitorTypeOK'
  BY <1>1, <1>2 DEF MonitorInv, MonitorTypeOK
<1>4. ASSUME NEW c \in CPUs
      PROVE  Accounts(c)' /\ NeverIdle(c)'
  <2>1. Accounts(c) /\ NeverIdle(c) /\ CpuTypes(c)
    BY CpuTypesHold DEF MonitorInv
  <2>2. last_ts[c] # Unseen => last_ts[c] \in Nat
    BY <2>1 DEF CpuTypes
  <2> QED BY <1>1, <1>2, <2>1, <2>2 DEF Accounts, Sampling, Charged, NeverIdle
<1> QED BY <1>3, <1>4 DEF MonitorInv

(* A context switch: only the CPU's task, counters and buffer change.      *)
LEMMA SwitchKeeps ==
  ASSUME MonitorInv, NEW c \in CPUs, NEW t \in Tasks \cup {Idle}, Switch(c, t)
  PROVE  MonitorInv'
<1>1. CpuTypes(c) /\ Accounts(c) /\ NeverIdle(c)
  BY CpuTypesHold DEF MonitorInv
<1>2. /\ running' = [running EXCEPT ![c] = t] /\ seq' = [seq EXCEPT ![c] = @ + 1]
      /\ past' = [past EXCEPT ![c].pegged = @ /\ t # Idle] /\ seq[c] < MaxSwitches
      /\ UNCHANGED <<clock, total_switches, last_ts, busy, window_start, recent_tasks>>
  BY DEF Switch
<1>3. /\ \/ UNCHANGED buffer
         \/ /\ Len(buffer[c]) < BufferSize
            /\ buffer' = [buffer EXCEPT ![c] = Append(@, running[c])]
      /\ UNCHANGED lost \/ lost' = [lost EXCEPT ![c] = @ + 1]
  BY DEF Switch
<1>4. /\ running \in [CPUs -> Tasks \cup {Idle}] /\ seq \in [CPUs -> 0 .. MaxSwitches]
      /\ buffer \in [CPUs -> Seq(Tasks \cup {Idle})] /\ lost \in [CPUs -> Nat]
      /\ past \in [CPUs -> [handled : Nat, first : Nat \cup {Unseen}, busy : Nat,
                            pegged : BOOLEAN]]
  BY DEF MonitorInv, MonitorTypeOK
<1>5. /\ buffer' \in [CPUs -> Seq(Tasks \cup {Idle})]
      /\ \A d \in CPUs : Len(buffer'[d]) <= BufferSize
      /\ \A d \in CPUs \ {c} : buffer'[d] = buffer[d]
      /\ \/ buffer'[c] = buffer[c]
         \/ buffer'[c] = Append(buffer[c], running[c])
  <2>1. CASE UNCHANGED buffer
    BY <1>4, <2>1 DEF MonitorInv, MonitorTypeOK
  <2>2. CASE /\ Len(buffer[c]) < BufferSize
             /\ buffer' = [buffer EXCEPT ![c] = Append(@, running[c])]
    <3>1. /\ Append(buffer[c], running[c]) \in Seq(Tasks \cup {Idle})
          /\ Len(Append(buffer[c], running[c])) = Len(buffer[c]) + 1
      BY <1>1, AppendProperties DEF CpuTypes
    <3>2. Len(buffer[c]) \in Nat
      BY <1>1, LenProperties DEF CpuTypes
    <3>3. Len(Append(buffer[c], running[c])) <= BufferSize
      BY <2>2, <3>1, <3>2, MonitorAssumption
    <3> QED BY <1>4, <2>2, <3>1, <3>3 DEF MonitorInv, MonitorTypeOK
  <2> QED BY <1>3, <2>1, <2>2
<1>6. seq' \in [CPUs -> 0 .. MaxSwitches]
  <2>1. seq[c] + 1 \in 0 .. MaxSwitches
    <3>1. MaxSwitches \in Nat
      BY MonitorAssumption
    <3> QED BY <1>1, <1>2, <3>1 DEF CpuTypes
  <2> QED BY <1>2, <1>4, <2>1
<1>7. lost' \in [CPUs -> Nat]
  <2>1. lost[c] + 1 \in Nat
    BY <1>4
  <2>2. CASE lost' = [lost EXCEPT ![c] = @ + 1]
    BY <1>4, <2>1, <2>2
  <2> QED BY <1>3, <1>4, <2>2
<1>8. past' \in [CPUs -> [handled : Nat, first : Nat \cup {Unseen}, busy : Nat,
                          pegged : BOOLEAN]]
  BY <1>2, <1>4
<1>9. MonitorTypeOK'
  <2>1. running' \in [CPUs -> Tasks \cup {Idle}]
    BY <1>2, <1>4
  <2> QED BY <1>2, <1>5, <1>6, <1>7, <1>8, <2>1 DEF MonitorInv, MonitorTypeOK
<1>10. ASSUME NEW d \in CPUs
       PROVE  Accounts(d)' /\ NeverIdle(d)'
  <2>1. Accounts(d) /\ NeverIdle(d) /\ CpuTypes(d)
    BY CpuTypesHold DEF MonitorInv
  <2>2. /\ past'[d].first = past[d].first /\ past'[d].busy = past[d].busy
        /\ past'[d].pegged => past[d].pegged
        /\ d # c => running'[d] = running[d]
        /\ d = c => running'[d] = t /\ (past'[d].pegged => t # Idle)
    BY <1>2, <1>4
  <2>3. Accounts(d)'
    BY <1>2, <2>1, <2>2 DEF Accounts, Sampling, Charged
  <2>4. NeverIdle(d)'
    <3>1. CASE buffer'[d] = buffer[d]
      BY <2>1, <2>2, <3>1 DEF NeverIdle
    <3>2. CASE d = c /\ buffer'[c] = Append(buffer[c], running[c])
      <4>1. /\ Len(buffer'[c]) = Len(buffer[c]) + 1 /\ Len(buffer[c]) \in Nat
            /\ \A i \in 1 .. Len(buffer[c]) : buffer'[c][i] = buffer[c][i]
            /\ buffer'[c][Len(buffer[c]) + 1] = running[c]
        BY <1>1, <3>2, AppendProperties, LenProperties DEF CpuTypes
      <4>2. ASSUME past'[c].pegged, NEW i \in 1 .. Len(buffer'[c])
            PROVE  buffer'[c][i] # Idle
        <5>1. running[c] # Idle /\ \A j \in 1 .. Len(buffer[c]) : buffer[c][j] # Idle
          BY <1>1, <2>2, <3>2, <4>2 DEF NeverIdle
        <5> QED BY <4>1, <5>1
      <4> QED BY <2>2, <3>2, <4>2 DEF NeverIdle
    <3> QED BY <1>5, <3>1, <3>2
  <2> QED BY <2>3, <2>4
<1> QED BY <1>9, <1>10 DEF MonitorInv

(***************************************************************************)
(* A sample is handled: its CPU is charged for the time since its last     *)
(* one, unless it was idle for some of it.                                 *)
(***************************************************************************)
LEMMA HandledTypes ==
  ASSUME MonitorInv, NEW c \in CPUs, HandleEvent(c)
  PROVE  /\ Head(buffer[c]) \in Tasks \cup {Idle}
         /\ Charge(c, Head(buffer[c])) \in Nat
         /\ MonitorTypeOK'
<1> DEFINE prev == Head(buffer[c])
<1>1. CpuTypes(c) /\ Accounts(c) /\ clock \in Nat
  BY CpuTypesHold, ClockIsTime DEF MonitorInv
<1>2. /\ prev \in Tasks \cup {Idle} /\ Tail(buffer[c]) \in Seq(Tasks \cup {Idle})
      /\ Len(Tail(buffer[c])) = Len(buffer[c]) - 1 /\ Len(buffer[c]) \in Nat
  BY <1>1, HeadTailProperties, LenProperties DEF HandleEvent, CpuTypes
<1>3. Charge(c, prev) \in Nat
  BY <1>1 DEF Charge, Accounts, Sampling, CpuTypes
<1>4. /\ busy' = [busy EXCEPT ![c] = @ + Charge(c, prev)]
      /\ buffer' = [buffer EXCEPT ![c] = Tail(@)]
      /\ recent_tasks' = (IF prev = Idle THEN recent_tasks
                          ELSE [recent_tasks EXCEPT ![c][prev] = clock])
      /\ last_ts' = [last_ts EXCEPT ![c] = clock]
      /\ window_start' = (IF window_start = Unseen THEN clock ELSE window_start)
      /\ total_switches' = total_switches + 1
      /\ past' = [past EXCEPT ![c].handled = @ + 1,
                             ![c].first = IF @ = Unseen THEN clock ELSE @]
      /\ UNCHANGED <<clock, running, seq, lost>>
  BY DEF HandleEvent
<1>5. /\ busy \in [CPUs -> Nat] /\ last_ts \in [CPUs -> Nat \cup {Unseen}]
      /\ buffer \in [CPUs -> Seq(Tasks \cup {Idle})]
      /\ recent_tasks \in [CPUs -> [Tasks -> Nat \cup {Unseen}]]
      /\ past \in [CPUs -> [handled : Nat, first : Nat \cup {Unseen}, busy : Nat,
                            pegged : BOOLEAN]]
      /\ total_switches \in Nat /\ window_start \in Nat \cup {Unseen}
      /\ \A d \in CPUs : Len(buffer[d]) <= BufferSize
  BY DEF MonitorInv, MonitorTypeOK
<1>6. busy' \in [CPUs -> Nat]
  <2>1. busy[c] + Charge(c, prev) \in Nat
    BY <1>3, <1>5
  <2> QED BY <1>4, <1>5, <2>1
<1>7. buffer' \in [CPUs -> Seq(Tasks \cup {Idle})] /\ \A d \in CPUs : Len(buffer'[d]) <= BufferSize
  <2>1. buffer' \in [CPUs -> Seq(Tasks \cup {Idle})]
    BY <1>2, <1>4, <1>5
  <2>2. ASSUME NEW d \in CPUs
        PROVE  Len(buffer'[d]) <= BufferSize
    <3>1. CASE d = c
      BY <1>2, <1>4, <1>5, <3>1, MonitorAssumption
    <3>2. CASE d # c
      BY <1>4, <1>5, <3>2
    <3> QED BY <3>1, <3>2
  <2> QED BY <2>1, <2>2
<1>8. recent_tasks' \in [CPUs -> [Tasks -> Nat \cup {Unseen}]]
  <2>1. CASE prev # Idle
    <3>1. [recent_tasks[c] EXCEPT ![prev] = clock] \in [Tasks -> Nat \cup {Unseen}]
      BY <1>1, <1>5
    <3> QED BY <1>4, <1>5, <2>1, <3>1
  <2> QED BY <1>4, <1>5, <2>1
<1>9. past' \in [CPUs -> [handled : Nat, first : Nat \cup {Unseen}, busy : Nat,
                          pegged : BOOLEAN]]
  <2>1. /\ past[c].handled + 1 \in Nat
        /\ (IF past[c].first = Unseen THEN clock ELSE past[c].first) \in Nat \cup {Unseen}
    BY <1>1 DEF CpuTypes
  <2>2. [past[c] EXCEPT !.handled = @ + 1, !.first = IF @ = Unseen THEN clock ELSE @]
          \in [handled : Nat, first : Nat \cup {Unseen}, busy : Nat, pegged : BOOLEAN]
    BY <1>5, <2>1
  <2>3. past' = [past EXCEPT ![c] =
                   [past[c] EXCEPT !.handled = @ + 1,
                                   !.first = IF @ = Unseen THEN clock ELSE @]]
    BY <1>4, <1>5
  <2> QED BY <1>5, <2>2, <2>3
<1>10. /\ last_ts' \in [CPUs -> Nat \cup {Unseen}] /\ total_switches' \in Nat
       /\ window_start' \in Nat \cup {Unseen}
  BY <1>1, <1>4, <1>5
<1>11. MonitorTypeOK'
  BY <1>4, <1>6, <1>7, <1>8, <1>9, <1>10 DEF MonitorInv, MonitorTypeOK
<1> QED BY <1>2, <1>3, <1>11

LEMMA HandleEventKeeps ==
  ASSUME MonitorInv, NEW c \in CPUs, HandleEvent(c)
  PROVE  MonitorInv'
<1> DEFINE prev == Head(buffer[c])
<1>1. /\ MonitorTypeOK' /\ prev \in Tasks \cup {Idle} /\ Charge(c, prev) \in Nat
      /\ clock \in Nat
  BY HandledTypes, ClockIsTime DEF MonitorInv
<1>2. /\ busy \in [CPUs -> Nat] /\ last_ts \in [CPUs -> Nat \cup {Unseen}]
      /\ buffer \in [CPUs -> Seq(Tasks \cup {Idle})]
      /\ recent_tasks \in [CPUs -> [Tasks -> Nat \cup {Unseen}]]
      /\ past \in [CPUs -> [handled : Nat, first : Nat \cup {Unseen}, busy : Nat,
                            pegged : BOOLEAN]]
      /\ window_start \in Nat \cup {Unseen}
  BY DEF MonitorInv, MonitorTypeOK
<1>3. /\ busy'[c] = busy[c] + Charge(c, prev) /\ last_ts'[c] = clock
      /\ buffer'[c] = Tail(buffer[c]) /\ buffer[c] # <<>>
      /\ UNCHANGED <<clock, running>>
      /\ window_start' = (IF window_start = Unseen THEN clock ELSE window_start)
      /\ prev # Idle => recent_tasks'[c][prev] = clock
  BY <1>2 DEF HandleEvent
<1>4. /\ past'[c].first = (IF past[c].first = Unseen THEN clock ELSE past[c].first)
      /\ past'[c].busy = past[c].busy /\ past'[c].pegged = past[c].pegged
  BY <1>2 DEF HandleEvent
<1>5. ASSUME NEW d \in CPUs, d # c
      PROVE  Accounts(d)' /\ NeverIdle(d)'
  <2>1. /\ busy'[d] = busy[d] /\ last_ts'[d] = last_ts[d] /\ buffer'[d] = buffer[d]
        /\ past'[d] = past[d] /\ recent_tasks'[d] = recent_tasks[d]
    BY <1>2, <1>5 DEF HandleEvent
  <2>2. Accounts(d) /\ NeverIdle(d)
    BY DEF MonitorInv
  <2>3. last_ts[d] # Unseen => window_start' = window_start /\ window_start' # Unseen
    BY <1>3, <2>2 DEF Accounts, Sampling
  <2>4. Accounts(d)'
    BY <1>3, <2>1, <2>2, <2>3 DEF Accounts, Sampling, Charged
  <2> QED BY <1>3, <2>1, <2>2, <2>4 DEF NeverIdle
<1>6. NeverIdle(c)'
  <2>1. /\ Len(buffer'[c]) = Len(buffer[c]) - 1 /\ Len(buffer[c]) \in Nat
        /\ \A i \in 1 .. Len(buffer'[c]) : buffer'[c][i] = buffer[c][i + 1]
    BY <1>2, <1>3, HeadTailProperties, LenProperties
  <2>2. NeverIdle(c)
    BY DEF MonitorInv
  <2>3. ASSUME past[c].pegged, NEW i \in 1 .. Len(buffer'[c])
        PROVE  buffer'[c][i] # Idle
    BY <2>1, <2>2, <2>3 DEF NeverIdle
  <2> QED BY <1>3, <1>4, <2>2, <2>3 DEF NeverIdle
<1>7. past[c].pegged => prev # Idle /\ prev \in Tasks
  <2>1. prev = buffer[c][1] /\ Len(buffer[c]) \in Nat /\ Len(buffer[c]) # 0
    BY <1>2, <1>3, LenProperties, EmptySeq
  <2> QED BY <1>1, <2>1 DEF MonitorInv, NeverIdle
<1>8. Accounts(c)'
  <2>1. /\ last_ts'[c] # Unseen /\ past'[c].first # Unseen /\ window_start' # Unseen
    BY <1>1, <1>3, <1>4, UnseenIsNoTime
  <2>2. Accounts(c)
    BY DEF MonitorInv
  <2>3. past'[c].pegged => \E t \in Tasks : recent_tasks'[c][t] = last_ts'[c]
    BY <1>3, <1>4, <1>7
  <2>4. CASE last_ts[c] = Unseen
    <3>1. /\ past'[c].first = clock /\ past'[c].busy = 0 /\ busy'[c] = 0
      BY <1>1, <1>2, <1>3, <1>4, <2>2, <2>4 DEF Accounts, Charge
    <3>2. window_start' \in Nat
      BY <1>1, <1>2, <1>3
    <3> QED BY <1>1, <1>3, <2>1, <2>3, <3>1, <3>2 DEF Accounts, Sampling, Charged
  <2>5. CASE last_ts[c] # Unseen
    <3>1. /\ Sampling(c, past[c].first, last_ts[c]) /\ past'[c].first = past[c].first
          /\ window_start' = window_start
      BY <1>3, <1>4, <2>2, <2>5 DEF Accounts, Sampling
    <3>2. /\ past[c].first \in Nat /\ last_ts[c] \in Nat /\ past[c].busy \in Nat
          /\ busy[c] \in Nat
      BY <1>2, <2>2, <2>5 DEF Accounts
    <3>3. /\ Charge(c, prev) <= clock - last_ts[c]
          /\ prev # Idle => Charge(c, prev) = clock - last_ts[c]
      BY <1>1, <2>5, <3>1, <3>2 DEF Charge, Sampling
    <3>4. /\ past[c].first <= last_ts[c] /\ last_ts[c] <= clock
          /\ past[c].busy + busy[c] <= last_ts[c] - past[c].first
          /\ past[c].pegged => past[c].busy + busy[c] = last_ts[c] - past[c].first
      BY <3>1 DEF Sampling, Charged
    <3>5. past[c].first <= clock
      BY <1>1, <3>2, <3>4
    <3> PICK q \in Nat : q = Charge(c, prev) /\ busy'[c] = busy[c] + q
      BY <1>1, <1>3, Zenon
    <3>6. past[c].busy + busy'[c] <= clock - past[c].first
      <4>1. q <= clock - last_ts[c]
        BY <3>3, Zenon
      <4> HIDE DEF prev
      <4> QED BY <1>1, <3>2, <3>4, <4>1
    <3>7. ASSUME past[c].pegged
          PROVE  past[c].busy + busy'[c] = clock - past[c].first
      <4>1. /\ q = clock - last_ts[c]
            /\ past[c].busy + busy[c] = last_ts[c] - past[c].first
        BY <1>7, <3>3, <3>4, <3>7, Zenon
      <4>2. clock \in Nat
        BY <1>1
      <4> HIDE DEF prev
      <4> QED BY <3>2, <4>1, <4>2
    <3>8. /\ past'[c].first <= last_ts'[c] /\ last_ts'[c] <= clock'
          /\ past'[c].busy + busy'[c] <= last_ts'[c] - past'[c].first
          /\ past'[c].first <= window_start' => past'[c].busy <= window_start' - past'[c].first
      <4>1. past[c].first <= window_start => past[c].busy <= window_start - past[c].first
        BY <3>1 DEF Sampling
      <4> QED BY <1>1, <1>3, <1>4, <3>1, <3>5, <3>6, <4>1
    <3>9. past'[c].pegged => past'[c].busy + busy'[c] = last_ts'[c] - past'[c].first
      BY <1>3, <1>4, <3>1, <3>7, Zenon
    <3> QED BY <2>1, <2>3, <3>8, <3>9, Zenon DEF Accounts, Sampling, Charged
  <2> QED BY <2>4, <2>5
<1> QED BY <1>1, <1>5, <1>6, <1>8 DEF MonitorInv

(* The window ends: what it was charged is past, and fits before its end.  *)
LEMMA GetKirStateKeeps ==
  ASSUME MonitorInv, GetKirState
  PROVE  MonitorInv'
<1>1. /\ busy' = [c \in CPUs |-> 0] /\ window_start' = clock
      /\ past' = [c \in CPUs |-> [past[c] EXCEPT !.busy = @ + busy[c]]]
      /\ UNCHANGED <<clock, running, seq, buffer, lost, total_switches, last_ts,
                     recent_tasks>>
  BY DEF GetKirState, kernelVars
<1>2. clock \in Nat
  BY ClockIsTime DEF MonitorInv
<1>3. past' \in [CPUs -> [handled : Nat, first : Nat \cup {Unseen}, busy : Nat,
                          pegged : BOOLEAN]]
  <2>1. ASSUME NEW c \in CPUs
        PROVE  [past[c] EXCEPT !.busy = @ + busy[c]]
                 \in [handled : Nat, first : Nat \cup {Unseen}, busy : Nat,
                      pegged : BOOLEAN]
    <3>1. /\ past[c] \in [handled : Nat, first : Nat \cup {Unseen}, busy : Nat,
                           pegged : BOOLEAN]
          /\ busy[c] \in Nat
      BY DEF MonitorInv, MonitorTypeOK
    <3> QED BY <3>1
  <2> QED BY <1>1, <2>1
<1>4. MonitorTypeOK'
  BY <1>1, <1>2, <1>3 DEF MonitorInv, MonitorTypeOK
<1>5. ASSUME NEW c \in CPUs
      PROVE  Accounts(c)' /\ NeverIdle(c)'
  <2>1. Accounts(c) /\ NeverIdle(c) /\ CpuTypes(c)
    BY CpuTypesHold DEF MonitorInv
  <2>2. /\ past \in [CPUs -> [handled : Nat, first : Nat \cup {Unseen}, busy : Nat,
                              pegged : BOOLEAN]]
        /\ past'[c] = [past[c] EXCEPT !.busy = @ + busy[c]] /\ busy'[c] = 0
    BY <1>1 DEF MonitorInv, MonitorTypeOK
  <2>3. /\ past'[c].first = past[c].first /\ past'[c].pegged = past[c].pegged
        /\ past'[c].busy = past[c].busy + busy[c]
    BY <2>2
  <2>4. NeverIdle(c)'
    BY <1>1, <2>1, <2>3 DEF NeverIdle
  <2>5. window_start' # Unseen
    BY <1>1, <1>2, UnseenIsNoTime
  <2>6. CASE last_ts[c] = Unseen
    BY <1>1, <2>1, <2>2, <2>3, <2>4, <2>6 DEF Accounts
  <2>7. CASE last_ts[c] # Unseen
    <3>1. Sampling(c, past[c].first, last_ts[c]) /\ past[c].first # Unseen
      BY <2>1, <2>7 DEF Accounts
    <3>2. /\ past[c].first \in Nat /\ last_ts[c] \in Nat /\ past[c].busy \in Nat
          /\ busy[c] \in Nat
      BY <2>1, <2>7, <3>1 DEF CpuTypes
    <3>3. /\ past[c].first <= last_ts[c] /\ last_ts[c] <= clock
          /\ past[c].busy + busy[c] <= last_ts[c] - past[c].first
          /\ past[c].pegged => past[c].busy + busy[c] = last_ts[c] - past[c].first
      BY <3>1 DEF Sampling, Charged
    <3>4. /\ past'[c].busy + busy'[c] = past[c].busy + busy[c]
          /\ past'[c].busy <= clock - past[c].first
      BY <1>2, <2>2, <2>3, <3>2, <3>3
    <3>5. /\ last_ts'[c] = last_ts[c] /\ clock' = clock /\ window_start' = clock
      BY <1>1
    <3>6. past'[c].pegged => \E t \in Tasks : recent_tasks'[c][t] = last_ts'[c]
      BY <1>1, <2>3, <3>1 DEF Sampling
    <3>7. /\ past'[c].first <= last_ts'[c] /\ last_ts'[c] <= clock'
          /\ past'[c].busy + busy'[c] <= last_ts'[c] - past'[c].first
          /\ past'[c].pegged => past'[c].busy + busy'[c] = last_ts'[c] - past'[c].first
          /\ past'[c].first <= window_start' => past'[c].busy <= window_start' - past'[c].first
      BY <2>3, <3>3, <3>4, <3>5, Zenon
    <3> QED BY <2>3, <2>4, <2>5, <2>7, <3>1, <3>5, <3>6, <3>7, Zenon DEF Accounts, Sampling, Charged
  <2> QED BY <2>4, <2>6, <2>7
<1> QED BY <1>4, <1>5 DEF MonitorInv

LEMMA MonitorInvHolds == MonitorSpec => []MonitorInv
<1>1. MonitorInv /\ [MonitorNext]_monitorVars => MonitorInv'
  <2> SUFFICES ASSUME MonitorInv, [MonitorNext]_monitorVars PROVE MonitorInv'
    OBVIOUS
  <2>1. CASE Tick
    BY <2>1, TickKeeps
  <2>2. ASSUME NEW c \in CPUs, NEW t \in Tasks \cup {Idle}, Switch(c, t)
        PROVE  MonitorInv'
    BY <2>2, SwitchKeeps
  <2>3. ASSUME NEW c \in CPUs, HandleEvent(c)
        PROVE  MonitorInv'
    BY <2>3, HandleEventKeeps
  <2>4. CASE GetKirState
    BY <2>4, GetKirStateKeeps
  <2>5. CASE UNCHANGED monitorVars
    BY <2>5 DEF MonitorInv, MonitorTypeOK, Accounts, Sampling, Charged, NeverIdle,
                monitorVars, kernelVars
  <2> QED BY <2>1, <2>2, <2>3, <2>4, <2>5 DEF MonitorNext
<1> QED BY <1>1, MonitorInvInit, PTL DEF MonitorSpec

(* Every variable of the monitor keeps its type (monitors.py).             *)
THEOREM MonitorTypeHolds == MonitorSpec => []MonitorTypeOK
<1>1. MonitorInv => MonitorTypeOK
  BY DEF MonitorInv
<1> QED BY <1>1, MonitorInvHolds, PTL

(***************************************************************************)
(* Whatever the order of polls and windows, a CPU is charged for no moment *)
(* twice, and for all of them if it is never idle (_handle_event() and     *)
(* get_kir_state() of monitors.py).                                        *)
(***************************************************************************)
THEOREM BusyChargedOnce == MonitorSpec => []ChargedOnce
<1>1. MonitorInv => ChargedOnce
  <2> SUFFICES ASSUME MonitorInv, NEW c \in CPUs
               PROVE  IF past[c].first = Unseen THEN Charged(c) = 0
                      ELSE /\ Charged(c) <= last_ts[c] - past[c].first
                           /\ past[c].pegged => Charged(c) = last_ts[c] - past[c].first
    BY DEF ChargedOnce
  <2>1. Accounts(c)
    BY DEF MonitorInv
  <2> QED BY <2>1 DEF Accounts, Sampling, Charged
<1> QED BY <1>1, MonitorInvHolds, PTL

(* Utilisation is clipped to 100 hundredths, and reaches them when busy    *)
(* time is at least the window.                                            *)
LEMMA ClipAtFull ==
  ASSUME NEW x \in Int, x >= 100
  PROVE  Min({100, x}) = 100
<1>1. /\ 100 \in {100, x}
      /\ \A y \in {100, x} : 100 <= y
      /\ \A y \in {100, x} : y <= 100 => y = 100
  OBVIOUS
<1> QED BY <1>1, Zenon DEF Min

(***************************************************************************)
(* A CPU that is never idle reads fully utilised, with a task in its       *)
(* queue, right after each of its samples (get_kir_state() of monitors.py).*)
(***************************************************************************)
THEOREM PeggedStaysFull == MonitorSpec => []PeggedReadsFull
<1>1. MonitorInv => PeggedReadsFull
  <2> SUFFICES ASSUME MonitorInv, NEW c \in CPUs, past[c].pegged, last_ts[c] = clock,
                      past[c].first <= window_start, window_start < clock
               PROVE  Utilization(c) = 100 /\ Runnable(c) >= 1
    BY DEF PeggedReadsFull
  <2>1. clock \in Nat /\ CpuTypes(c) /\ Accounts(c)
    BY ClockIsTime, CpuTypesHold DEF MonitorInv
  <2>2. Sampling(c, past[c].first, clock) /\ past[c].first # Unseen
    BY <2>1, UnseenIsNoTime DEF Accounts
  <2>3. window_start # Unseen /\ window_start \in Nat
    BY <2>2 DEF Sampling, MonitorInv, MonitorTypeOK
  <2>4. past[c].first \in Nat /\ past[c].busy \in Nat /\ busy[c] \in Nat
    BY <2>1, <2>2 DEF CpuTypes
  <2>5. Utilization(c) = 100
    <3>1. /\ past[c].busy + busy[c] = clock - past[c].first
          /\ past[c].busy <= window_start - past[c].first
      BY <2>2 DEF Sampling, Charged
    <3>2. Window = clock - window_start /\ Window \in Nat /\ Window >= 1
      BY <2>1, <2>3 DEF Window
    <3>3. busy[c] >= Window
      BY <2>1, <2>3, <2>4, <3>1, <3>2
    <3>4. (100 * busy[c]) \div Window \in Int /\ (100 * busy[c]) \div Window >= 100
      BY <2>4, <3>2, <3>3
    <3> QED BY <3>4, ClipAtFull DEF Utilization
  <2>6. Runnable(c) >= 1
    <3> DEFINE R == {t \in Tasks : /\ recent_tasks[c][t] # Unseen
                                   /\ clock - recent_tasks[c][t] <= TaskTTL}
    <3>1. PICK t \in Tasks : recent_tasks[c][t] = clock
      BY <2>2 DEF Sampling
    <3>2. t \in R
      BY <2>1, <3>1, UnseenIsNoTime, MonitorAssumption
    <3>3. IsFiniteSet(R)
      BY MonitorAssumption, FS_Subset
    <3>4. Cardinality(R) \in Nat /\ Cardinality(R) # 0
      BY <3>2, <3>3, FS_CardinalityType, FS_EmptySet
    <3> QED BY <3>4 DEF Runnable
  <2> QED BY <2>5, <2>6
<1> QED BY <1>1, MonitorInvHolds, PTL

-----------------------------------------------------------------------------
(* Division by the sampling period.                                        *)
LEMMA Multiples ==
  ASSUME NEW P \in Nat, P >= 1, NEW a \in Int, NEW b \in Int, a > b
  PROVE  P * a >= P * b + P
<1>1. PICK k \in Nat : a = b + 1 + k
  <2>1. a - b - 1 \in Nat /\ a = b + 1 + (a - b - 1)
    OBVIOUS
  <2> QED BY <2>1
<1>2. P * (b + 1 + k) = P * b + P + P * k
  OBVIOUS
<1>3. P * k >= 0
  OBVIOUS
<1> QED BY <1>1, <1>2, <1>3

LEMMA QuotientAndRest ==
  ASSUME NEW n \in Nat, NEW P \in Nat, P >= 1
  PROVE  /\ n \div P \in Int /\ n % P \in 0 .. P - 1
         /\ n = P * (n \div P) + (n % P)
OBVIOUS

LEMMA QuotientIsUnique ==
  ASSUME NEW n \in Nat, NEW P \in Nat, P >= 1, NEW q \in Int, NEW r \in 0 .. P - 1,
         n = P * q + r
  PROVE  n \div P = q /\ n % P = r
<1> DEFINE d == n \div P
           m == n % P
<1>1. d \in Int /\ m \in 0 .. P - 1 /\ n = P * d + m
  BY QuotientAndRest
<1> HIDE DEF d, m
<1>2. P * d \in Int /\ P * q \in Int
  BY <1>1
<1>3. ~(d > q)
  <2>1. d > q => P * d >= P * q + P
    BY <1>1, Multiples
  <2> QED BY <1>1, <1>2, <2>1
<1>4. ~(q > d)
  <2>1. q > d => P * q >= P * d + P
    BY <1>1, Multiples
  <2> QED BY <1>1, <1>2, <2>1
<1>5. d = q
  BY <1>1, <1>3, <1>4
<1>6. m = r
  BY <1>1, <1>5
<1> QED BY <1>5, <1>6 DEF d, m

(* The next switch is sampled when it begins a new period.                 *)
Periods(n) == (n + SAMPLE_PERIOD - 1) \div SAMPLE_PERIOD

LEMMA PeriodsCount ==
  /\ Periods(0) = 0
  /\ \A n \in Nat : Periods(n + 1) = Periods(n) + (IF Sampled(n + 1) THEN 1 ELSE 0)
<1> DEFINE P == SAMPLE_PERIOD
<1>1. P \in Nat /\ P >= 2 /\ P >= 1
  BY MonitorAssumption
<1> HIDE DEF P
<1>2. (0 + P - 1) \div P = 0
  <2>1. 0 + P - 1 \in Nat /\ 0 + P - 1 \in 0 .. P - 1 /\ 0 + P - 1 = P * 0 + (0 + P - 1)
    BY <1>1
  <2> QED BY <1>1, <2>1, QuotientIsUnique
<1>3. ASSUME NEW n \in Nat
      PROVE  (n + 1 + P - 1) \div P
               = ((n + P - 1) \div P) + (IF (n + 1) % P = 1 THEN 1 ELSE 0)
  <2> DEFINE m == n + P - 1
             q == m \div P
             r == m % P
  <2>1. m \in Nat /\ n + 1 + P - 1 = m + 1 /\ m + 1 \in Nat /\ n + 1 \in Nat
    BY <1>1
  <2>2. q \in Int /\ r \in 0 .. P - 1 /\ m = P * q + r
    BY <1>1, <2>1, QuotientAndRest
  <2>3. n = m - P + 1
    BY <1>1
  <2> HIDE DEF m, q, r
  <2>4. P * (q + 1) = P * q + P /\ P * (q - 1) = P * q - P /\ P * q \in Int
    BY <1>1, <2>2
  <2>5. CASE r = P - 1
    <3>1. q + 1 \in Int /\ 0 \in 0 .. P - 1 /\ m + 1 = P * (q + 1) + 0
      BY <1>1, <2>1, <2>2, <2>4, <2>5
    <3>2. (m + 1) \div P = q + 1
      BY <1>1, <2>1, <3>1, QuotientIsUnique
    <3>3. 1 \in 0 .. P - 1 /\ n + 1 = P * q + 1
      BY <1>1, <2>1, <2>2, <2>3, <2>4, <2>5
    <3>4. (n + 1) % P = 1
      BY <1>1, <2>1, <2>2, <3>3, QuotientIsUnique
    <3> QED BY <2>1, <3>2, <3>4 DEF m, q
  <2>6. CASE r # P - 1
    <3>1. r + 1 \in 0 .. P - 1 /\ m + 1 = P * q + (r + 1)
      BY <1>1, <2>1, <2>2, <2>4, <2>6
    <3>2. (m + 1) \div P = q
      BY <1>1, <2>1, <2>2, <3>1, QuotientIsUnique
    <3>3. (n + 1) % P # 1
      <4>1. n + 1 = P * (q - 1) + (r + 2)
        BY <1>1, <2>1, <2>2, <2>3, <2>4
      <4>2. CASE r + 2 = P
        <5>1. n + 1 = P * q + 0 /\ 0 \in 0 .. P - 1
          BY <1>1, <2>2, <2>4, <4>1, <4>2
        <5> QED BY <1>1, <2>1, <2>2, <5>1, QuotientIsUnique
      <4>3. CASE r + 2 # P
        <5>1. r + 2 \in 0 .. P - 1 /\ q - 1 \in Int /\ r + 2 # 1
          BY <1>1, <2>2, <2>6, <4>3
        <5>2. (n + 1) % P = r + 2
          BY <1>1, <2>1, <4>1, <5>1, QuotientIsUnique
        <5> QED BY <5>1, <5>2
      <4> QED BY <4>2, <4>3
    <3>4. (m + 1) \div P = q + 0
      BY <2>2, <3>2
    <3> QED BY <2>1, <3>3, <3>4 DEF m, q
  <2> QED BY <2>5, <2>6
<1> QED BY <1>2, <1>3 DEF Periods, Sampled, P

LEMMA PeriodsStep ==
  ASSUME NEW n \in Nat
  PROVE  /\ Periods(n) \in Int
         /\ Sampled(n + 1) => Periods(n + 1) = Periods(n) + 1
         /\ ~Sampled(n + 1) => Periods(n + 1) = Periods(n)
<1>1. Periods(n) \in Int
  BY QuotientAndRest, MonitorAssumption DEF Periods
<1>2. Periods(n + 1) = Periods(n) + (IF Sampled(n + 1) THEN 1 ELSE 0)
  BY PeriodsCount
<1>3. CASE Sampled(n + 1)
  BY <1>1, <1>2, <1>3
<1>4. CASE ~Sampled(n + 1)
  <2>1. Periods(n + 1) = Periods(n) + 0
    BY <1>2, <1>4
  <2> QED BY <1>1, <1>4, <2>1
<1> QED BY <1>3, <1>4

(* Every sample of a CPU is handled, waits or is lost.                     *)
Conserved(c) ==
  past[c].handled + Len(buffer[c]) + lost[c] = Periods(seq[c])

Handled == [c \in CPUs |-> past[c].handled]

CountInv ==
  /\ window_start # Unseen => window_start <= clock
  /\ \A c \in CPUs : Conserved(c)
  /\ total_switches = SumFunctionOnSet(Handled, CPUs)

LEMMA CountInvInit == MonitorInit => CountInv
<1> SUFFICES ASSUME MonitorInit PROVE CountInv
  OBVIOUS
<1>1. \A c \in CPUs : /\ past[c].handled = 0 /\ Len(buffer[c]) = 0
                      /\ lost[c] = 0 /\ seq[c] = 0
  BY DEF MonitorInit
<1>2. \A c \in CPUs : Conserved(c)
  BY <1>1, PeriodsCount DEF Conserved
<1>3. \A c \in CPUs : Handled[c] = 0
  BY <1>1 DEF Handled
<1>4. SumFunctionOnSet(Handled, CPUs) = Cardinality(CPUs) * 0
  BY <1>3, SumOfEqual, MonitorAssumption
<1>5. Cardinality(CPUs) \in Nat
  BY FS_CardinalityType, MonitorAssumption
<1>6. SumFunctionOnSet(Handled, CPUs) = 0
  BY <1>4, <1>5
<1> QED BY <1>2, <1>6 DEF CountInv, MonitorInit

(* What leaves the numbers of samples handled alone leaves their sum.      *)
LEMMA HandledKept ==
  ASSUME CountInv, total_switches' = total_switches,
         \A c \in CPUs : past'[c].handled = past[c].handled
  PROVE  total_switches' = SumFunctionOnSet(Handled', CPUs)
<1>1. Handled' = Handled
  BY DEF Handled
<1> QED BY <1>1 DEF CountInv

LEMMA TickCounts ==
  ASSUME MonitorInv, CountInv, Tick
  PROVE  CountInv'
<1>1. clock \in Nat /\ clock' = clock + 1
  BY ClockIsTime DEF MonitorInv, Tick
<1>2. UNCHANGED <<seq, buffer, lost, total_switches, window_start, past>>
  BY DEF Tick
<1>3. window_start' # Unseen => window_start' <= clock'
  BY <1>1, <1>2 DEF CountInv, MonitorInv, MonitorTypeOK
<1>4. \A c \in CPUs : Conserved(c)'
  BY <1>2 DEF CountInv, Conserved
<1> QED BY <1>2, <1>3, <1>4, HandledKept DEF CountInv

LEMMA GetKirStateCounts ==
  ASSUME MonitorInv, CountInv, GetKirState
  PROVE  CountInv'
<1>1. clock \in Nat /\ window_start' = clock
      /\ UNCHANGED <<clock, seq, buffer, lost, total_switches>>
  BY ClockIsTime DEF MonitorInv, GetKirState, kernelVars
<1>2. \A c \in CPUs : past'[c].handled = past[c].handled
  BY DEF GetKirState, MonitorInv, MonitorTypeOK
<1>3. \A c \in CPUs : Conserved(c)'
  BY <1>1, <1>2 DEF CountInv, Conserved
<1>4. window_start' <= clock'
  BY <1>1
<1> QED BY <1>1, <1>2, <1>3, <1>4, HandledKept DEF CountInv

(* A sample more waits, or is lost.                                        *)
LEMMA OneMore ==
  ASSUME NEW h \in Int, NEW b \in Int, NEW l \in Int, NEW p \in Int, h + b + l = p
  PROVE  h + (b + 1) + l = p + 1 /\ h + b + (l + 1) = p + 1
OBVIOUS

LEMMA SwitchCounts ==
  ASSUME MonitorInv, CountInv, NEW c \in CPUs, NEW t \in Tasks \cup {Idle}, Switch(c, t)
  PROVE  CountInv'
<1>1. /\ UNCHANGED <<clock, total_switches, window_start>>
      /\ seq' = [seq EXCEPT ![c] = @ + 1]
      /\ past' = [past EXCEPT ![c].pegged = @ /\ t # Idle]
  BY DEF Switch
<1>2. /\ seq \in [CPUs -> 0 .. MaxSwitches] /\ lost \in [CPUs -> Nat]
      /\ buffer \in [CPUs -> Seq(Tasks \cup {Idle})]
      /\ past \in [CPUs -> [handled : Nat, first : Nat \cup {Unseen}, busy : Nat,
                            pegged : BOOLEAN]]
  BY DEF MonitorInv, MonitorTypeOK
<1>3. \A d \in CPUs : past'[d].handled = past[d].handled
  BY <1>1, <1>2
<1>4. \A d \in CPUs \ {c} : Conserved(d)'
  <2>1. \A d \in CPUs \ {c} : buffer'[d] = buffer[d] /\ lost'[d] = lost[d]
    BY <1>2 DEF Switch
  <2>2. \A d \in CPUs \ {c} : seq'[d] = seq[d]
    BY <1>1, <1>2
  <2> QED BY <1>3, <2>1, <2>2 DEF CountInv, Conserved
<1>5. Conserved(c)'
  <2>1. /\ seq[c] \in Nat /\ seq'[c] = seq[c] + 1 /\ lost[c] \in Nat
        /\ Len(buffer[c]) \in Nat /\ past[c].handled \in Nat
    BY <1>1, <1>2, MonitorAssumption, LenProperties
  <2>2. past'[c].handled = past[c].handled
    BY <1>3
  <2>3. past[c].handled + Len(buffer[c]) + lost[c] = Periods(seq[c])
    BY DEF CountInv, Conserved
  <2>4. Periods(seq[c]) \in Int
    BY <2>1, PeriodsStep
  <2>5. CASE ~Sampled(seq'[c])
    <3>1. Periods(seq'[c]) = Periods(seq[c])
      BY <2>1, <2>5, PeriodsStep
    <3>2. buffer'[c] = buffer[c] /\ lost'[c] = lost[c]
      BY <2>5 DEF Switch
    <3> QED BY <2>2, <2>3, <3>1, <3>2 DEF Conserved
  <2>6. CASE Sampled(seq'[c])
    <3>1. Periods(seq'[c]) = Periods(seq[c]) + 1
      BY <2>1, <2>6, PeriodsStep
    <3>2. \/ buffer' = [buffer EXCEPT ![c] = Append(@, running[c])] /\ lost' = lost
          \/ lost' = [lost EXCEPT ![c] = @ + 1] /\ buffer' = buffer
      BY <2>6 DEF Switch
    <3>3. ASSUME buffer' = [buffer EXCEPT ![c] = Append(@, running[c])], lost' = lost
          PROVE  Conserved(c)'
      <4>1. running[c] \in Tasks \cup {Idle}
        BY DEF MonitorInv, MonitorTypeOK
      <4>2. Len(Append(buffer[c], running[c])) = Len(buffer[c]) + 1
        BY <1>2, <4>1, AppendProperties
      <4>3. buffer'[c] = Append(buffer[c], running[c])
        BY <1>2, <3>3
      <4>4. Len(buffer'[c]) = Len(buffer[c]) + 1 /\ lost'[c] = lost[c]
        BY <3>3, <4>2, <4>3
      <4>5. past[c].handled + (Len(buffer[c]) + 1) + lost[c] = Periods(seq[c]) + 1
        BY <2>1, <2>3, <2>4, OneMore
      <4>6. past'[c].handled + Len(buffer'[c]) + lost'[c] = Periods(seq'[c])
        BY <2>2, <3>1, <4>4, <4>5, Zenon
      <4> QED BY <4>6 DEF Conserved
    <3>4. ASSUME lost' = [lost EXCEPT ![c] = @ + 1], buffer' = buffer
          PROVE  Conserved(c)'
      <4>1. lost'[c] = lost[c] + 1 /\ buffer'[c] = buffer[c]
        BY <1>2, <3>4
      <4>2. past[c].handled + Len(buffer[c]) + (lost[c] + 1) = Periods(seq[c]) + 1
        BY <2>1, <2>3, <2>4, OneMore
      <4>3. past'[c].handled + Len(buffer'[c]) + lost'[c] = Periods(seq'[c])
        BY <2>2, <3>1, <4>1, <4>2, Zenon
      <4> QED BY <4>3 DEF Conserved
    <3> QED BY <3>2, <3>3, <3>4
  <2> QED BY <2>5, <2>6
<1>6. window_start' # Unseen => window_start' <= clock'
  BY <1>1 DEF CountInv
<1> QED BY <1>1, <1>3, <1>4, <1>5, <1>6, HandledKept DEF CountInv

LEMMA HandleEventCounts ==
  ASSUME MonitorInv, CountInv, NEW c \in CPUs, HandleEvent(c)
  PROVE  CountInv'
<1>1. /\ UNCHANGED <<clock, seq, lost>> /\ total_switches' = total_switches + 1
      /\ buffer[c] # <<>> /\ buffer' = [buffer EXCEPT ![c] = Tail(@)]
      /\ window_start' = IF window_start = Unseen THEN clock ELSE window_start
      /\ past' = [past EXCEPT ![c].handled = @ + 1,
                              ![c].first = IF @ = Unseen THEN clock ELSE @]
  BY DEF HandleEvent
<1>2. /\ lost \in [CPUs -> Nat] /\ buffer \in [CPUs -> Seq(Tasks \cup {Idle})]
      /\ past \in [CPUs -> [handled : Nat, first : Nat \cup {Unseen}, busy : Nat,
                            pegged : BOOLEAN]]
  BY DEF MonitorInv, MonitorTypeOK
<1>3. /\ past'[c].handled = past[c].handled + 1
      /\ \A d \in CPUs \ {c} : past'[d].handled = past[d].handled
  BY <1>1, <1>2
<1>4. ASSUME NEW d \in CPUs \ {c} PROVE Conserved(d)'
  <2>1. buffer'[d] = buffer[d] /\ lost'[d] = lost[d] /\ seq'[d] = seq[d]
    BY <1>1, <1>2
  <2>2. past'[d].handled = past[d].handled
    BY <1>3
  <2> QED BY <2>1, <2>2 DEF CountInv, Conserved
<1>5. Conserved(c)'
  <2>1. Len(buffer'[c]) = Len(buffer[c]) - 1 /\ Len(buffer[c]) \in Nat
    BY <1>1, <1>2, HeadTailProperties, LenProperties
  <2>2. past[c].handled \in Nat /\ lost[c] \in Nat
    BY <1>2
  <2>3. past[c].handled + Len(buffer[c]) + lost[c] = Periods(seq[c])
    BY DEF CountInv, Conserved
  <2>4. ASSUME NEW h \in Nat, NEW b \in Nat, NEW l \in Nat
        PROVE  (h + 1) + (b - 1) + l = h + b + l
    OBVIOUS
  <2>5. (past[c].handled + 1) + (Len(buffer[c]) - 1) + lost[c]
          = past[c].handled + Len(buffer[c]) + lost[c]
    BY <2>1, <2>2, <2>4, Zenon
  <2>6. past'[c].handled + Len(buffer'[c]) + lost'[c] = Periods(seq'[c])
    BY <1>1, <1>3, <2>1, <2>3, <2>5, Zenon
  <2> QED BY <2>6 DEF Conserved
<1>6. total_switches' = SumFunctionOnSet(Handled', CPUs)
  <2>1. /\ \A d \in CPUs : Handled[d] \in Int /\ Handled'[d] \in Int
        /\ \A d \in CPUs \ {c} : Handled'[d] = Handled[d]
        /\ Handled'[c] - Handled[c] = 1
    <3>1. \A d \in CPUs : past[d].handled \in Nat
      BY <1>2
    <3> QED BY <1>3, <3>1 DEF Handled
  <2>2. /\ SumFunctionOnSet(Handled, CPUs) \in Int
        /\ SumFunctionOnSet(Handled', CPUs)
             = SumFunctionOnSet(Handled, CPUs) + (Handled'[c] - Handled[c])
    BY <2>1, SumOfChange, MonitorAssumption
  <2> QED BY <1>1, <2>1, <2>2 DEF CountInv
<1>7. window_start' # Unseen => window_start' <= clock'
  <2>1. clock \in Nat
    BY ClockIsTime DEF MonitorInv
  <2> QED BY <1>1, <2>1 DEF CountInv
<1> QED BY <1>4, <1>5, <1>6, <1>7 DEF CountInv

LEMMA CountInvHolds == MonitorSpec => []CountInv
<1>1. MonitorInv /\ CountInv /\ [MonitorNext]_monitorVars => CountInv'
  <2> SUFFICES ASSUME MonitorInv, CountInv, [MonitorNext]_monitorVars PROVE CountInv'
    OBVIOUS
  <2>1. CASE Tick
    BY <2>1, TickCounts
  <2>2. ASSUME NEW c \in CPUs, NEW t \in Tasks \cup {Idle}, Switch(c, t)
        PROVE  CountInv'
    BY <2>2, SwitchCounts
  <2>3. ASSUME NEW c \in CPUs, HandleEvent(c)
        PROVE  CountInv'
    BY <2>3, HandleEventCounts
  <2>4. CASE GetKirState
    BY <2>4, GetKirStateCounts
  <2>5. CASE UNCHANGED monitorVars
    BY <2>5 DEF CountInv, Conserved, Handled, monitorVars, kernelVars
  <2> QED BY <2>1, <2>2, <2>3, <2>4, <2>5 DEF MonitorNext
<1> QED BY <1>1, MonitorInvHolds, CountInvInit, PTL DEF MonitorSpec

(***************************************************************************)
(* Of the switches of a CPU one in every sampling period is handled, waits *)
(* or was dropped, never two or none, and total_switches adds up those     *)
(* handled on all CPUs (ebpf_scheduler.c, _handle_event()).                *)
(***************************************************************************)
THEOREM SamplesStayConserved == MonitorSpec => []SamplesConserved
<1>1. CountInv => SamplesConserved
  <2> SUFFICES ASSUME CountInv PROVE SamplesConserved
    OBVIOUS
  <2>1. SumFunction(Handled) = SumFunctionOnSet(Handled, CPUs)
    BY SumOfFunction DEF Handled
  <2> QED BY <2>1 DEF CountInv, Conserved, Periods, Handled, SamplesConserved
<1> QED BY <1>1, CountInvHolds, PTL
=============================================================================
