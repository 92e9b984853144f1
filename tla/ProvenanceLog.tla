--------------------------- MODULE ProvenanceLog ---------------------------
(***************************************************************************)
(* ProvenanceLogger (learned_kernel/telemetry/provenance.py): a JSONL file *)
(* of records chained by hashes, the loggers that append to it from cached *)
(* sequence number and hash, and verify_chain().                           *)
(*                                                                         *)
(* SHA-256 is modelled as injective: the hash of a record body is a value  *)
(* built from the body alone.  A line is a chained record, a record of the *)
(* earlier, unchained format (it has neither seq_no nor record_hash), or   *)
(* junk that json.loads refuses.  The file is its terminated lines and a   *)
(* tail, the unterminated rest that an interrupted write leaves.           *)
(***************************************************************************)
EXTENDS Integers, Sequences

CONSTANTS
  Loggers,        \* processes that may hold a ProvenanceLogger of the file
  Payloads,       \* what a record says, apart from the chain
  Fsync,          \* the fsync parameter of the loggers
  LegacyLines,    \* lines of the earlier format the file starts with
  FailOutcomes,   \* what a record_decision that raises may have written
  KillOutcomes,   \* what one that is killed may have written
  MaxLines,       \* bound on the lines of the file
  MaxFaults,      \* bound on the calls that raise
  MaxKills,       \* bound on kills and power losses
  MaxTampers      \* bound on changes made to the file from outside

Outcomes == {"nothing", "fragment", "unterminated", "line"}

ASSUME LogConstantsAssumption ==
  /\ Loggers # {} /\ Payloads # {} /\ Fsync \in BOOLEAN
  /\ FailOutcomes \subseteq Outcomes /\ KillOutcomes \subseteq Outcomes
  /\ LegacyLines \in Nat /\ MaxLines \in Nat
  /\ MaxFaults \in Nat /\ MaxKills \in Nat /\ MaxTampers \in Nat

GENESIS == [genesis |-> TRUE]

NoHash == [genesis |-> FALSE]

Hash(s, p, b) == [seq |-> s, prev |-> p, payload |-> b]

Chained(s, p, b) ==
  [kind |-> "chained", seq |-> s, prev |-> p, payload |-> b, hash |-> Hash(s, p, b)]

Legacy == [kind |-> "legacy"]

Junk == [kind |-> "junk"]

NoLine == [kind |-> "none"]

Closed == [open |-> FALSE, seq |-> 0, prev |-> GENESIS]

Opened(s, p) == [open |-> TRUE, seq |-> s, prev |-> p]

VARIABLES
  lines,    \* the terminated lines of the file
  tail,     \* the unterminated rest, or NoLine
  loggers,  \* each process's logger: _seq and _prev_hash
  durable,  \* how many lines are known to be on disk
  acked,    \* hashes that record_decision has returned
  harm,     \* history: the least line that something has spoilt, or 0
  mishaps   \* how many faults, kills and changes there were

logVars == <<lines, tail, loggers, durable, acked, harm, mishaps>>

LogInit ==
  /\ lines = [i \in 1 .. LegacyLines |-> Legacy]
  /\ tail = NoLine
  /\ loggers = [l \in Loggers |-> Closed]
  /\ durable = LegacyLines
  /\ acked = {}
  /\ harm = 0
  /\ mishaps = [faults |-> 0, kills |-> 0, tampers |-> 0]

(* What a reader of the file sees: Python yields an unterminated line too. *)
Content == IF tail = NoLine THEN lines ELSE Append(lines, tail)

-----------------------------------------------------------------------------
StoredHash(L, i) ==
  CASE i = 0 -> GENESIS
    [] i > 0 /\ L[i].kind = "chained" -> L[i].hash
    [] OTHER -> NoHash

\* Mutant of LineOK: the hash is not recomputed.
Mutant_NotRehashed(L, i) ==
  /\ L[i].kind = "chained"
  /\ L[i].seq = i
  /\ L[i].prev = StoredHash(L, i - 1)

(* verify_chain() goes on past a line that is a record, has the next       *)
(* number, the last hash, and the hash of its own contents.                *)
LineOK(L, i) ==
  /\ L[i].kind = "chained"
  /\ L[i].seq = i
  /\ L[i].prev = StoredHash(L, i - 1)
  /\ L[i].hash = Hash(L[i].seq, L[i].prev, L[i].payload)

Broken(L) == {i \in DOMAIN L : ~LineOK(L, i)}

FirstBroken(L) == CHOOSE i \in Broken(L) : \A j \in Broken(L) : i <= j

(* What it returns, (ok, first_bad_seq, reason), or that it raises: only   *)
(* FileNotFoundError is caught, so a line that json.loads refuses ends the *)
(* call without a result.                                                  *)
ChainIntact == [raised |-> FALSE, ok |-> TRUE, bad |-> -1]

BadAt(i) == [raised |-> FALSE, ok |-> FALSE, bad |-> i]

Undecodable == [raised |-> TRUE]

VerifyChain(L) ==
  IF Broken(L) = {} THEN ChainIntact
  ELSE IF L[FirstBroken(L)].kind = "junk" THEN Undecodable
  ELSE BadAt(FirstBroken(L))

Intact == VerifyChain(Content) = ChainIntact

(* _recover_tail(): every line must parse; the last chained record gives   *)
(* the hash, and each unchained one after it counts in the sequence.       *)
Parses(L) == \A i \in DOMAIN L : L[i].kind # "junk"

ChainedLines(L) == {i \in DOMAIN L : L[i].kind = "chained"}

LastChained(L) ==
  CHOOSE i \in ChainedLines(L) : \A j \in ChainedLines(L) : j <= i

\* Mutants of Recovered: lines counted from 0; the hash not taken over.
Mutant_CountedFromZero(L) == Opened(Len(L) - 1, GENESIS)

Mutant_HashForgotten(L) == Opened(Len(L), GENESIS)

Recovered(L) ==
  IF ChainedLines(L) = {}
  THEN Opened(Len(L), GENESIS)
  ELSE LET i == LastChained(L)
       IN  Opened(L[i].seq + Len(L) - i, L[i].hash)

(* ProvenanceLogger(log_file) raises if a line does not parse.             *)
Open(l) ==
  /\ ~loggers[l].open
  /\ Parses(Content)
  /\ loggers' = [loggers EXCEPT ![l] = Recovered(Content)]
  /\ UNCHANGED <<lines, tail, durable, acked, harm, mishaps>>

Exit(l) ==
  /\ loggers[l].open
  /\ loggers' = [loggers EXCEPT ![l] = Closed]
  /\ UNCHANGED <<lines, tail, durable, acked, harm, mishaps>>

-----------------------------------------------------------------------------
(* What write() leaves in the file: it appends, to an unterminated rest    *)
(* too, and the two together are no JSON.                                  *)
Joined(r) == IF tail = NoLine THEN r ELSE Junk

Written(r, w) ==
  CASE w = "nothing" -> UNCHANGED <<lines, tail>>
    [] w = "fragment" -> tail' = Junk /\ UNCHANGED lines
    [] w = "unterminated" -> tail' = Joined(r) /\ UNCHANGED lines
    [] w = "line" -> lines' = Append(lines, Joined(r)) /\ tail' = NoLine

NextRecord(l, b) == Chained(loggers[l].seq + 1, loggers[l].prev, b)

Least(i, j) == IF i = 0 \/ (j # 0 /\ j < i) THEN j ELSE i

(* What l remembers is not what the file says: somebody else has appended  *)
(* since l read the file or wrote to it, or its last call raised.          *)
Stale(l) == loggers[l] # Recovered(Content)

(* The write breaks the chain at its line: not the whole record, appended  *)
(* to a rest without newline, or not the successor of the last record.     *)
Spoils(l, w) ==
  w # "nothing" /\ (w = "fragment" \/ tail # NoLine \/ Stale(l))

HarmAfter(l, w) ==
  IF Spoils(l, w) THEN Least(harm, Len(lines) + 1) ELSE harm

\* Mutant of RecordDecision: it does not wait for the disk.
Mutant_NotSynced(l, b) ==
  /\ loggers[l].open /\ Len(lines) < MaxLines
  /\ LET r == NextRecord(l, b)
     IN  /\ Written(r, "line")
         /\ loggers' = [loggers EXCEPT ![l] = Opened(r.seq, r.hash)]
         /\ acked' = acked \cup {r.hash}
  /\ harm' = HarmAfter(l, "line")
  /\ UNCHANGED <<durable, mishaps>>

(* record_decision(): count, chain, append, (fsync), remember the hash.    *)
RecordDecision(l, b) ==
  /\ loggers[l].open /\ Len(lines) < MaxLines
  /\ LET r == NextRecord(l, b)
     IN  /\ Written(r, "line")
         /\ loggers' = [loggers EXCEPT ![l] = Opened(r.seq, r.hash)]
         /\ acked' = acked \cup {r.hash}
  /\ durable' = IF Fsync THEN Len(lines') ELSE durable
  /\ harm' = HarmAfter(l, "line")
  /\ UNCHANGED mishaps

(* It raises (hashing, open, write or fsync): the number stays counted,    *)
(* the hash is not remembered.                                             *)
RecordFails(l, b) ==
  /\ loggers[l].open /\ Len(lines) < MaxLines
  /\ mishaps.faults < MaxFaults
  /\ mishaps' = [mishaps EXCEPT !.faults = @ + 1]
  /\ \E w \in FailOutcomes :
       Written(NextRecord(l, b), w) /\ harm' = HarmAfter(l, w)
  /\ loggers' = [loggers EXCEPT ![l] = Opened(@.seq + 1, @.prev)]
  /\ UNCHANGED <<durable, acked>>

(* The process is killed in it.                                            *)
RecordKilled(l, b) ==
  /\ loggers[l].open /\ Len(lines) < MaxLines
  /\ mishaps.kills < MaxKills
  /\ mishaps' = [mishaps EXCEPT !.kills = @ + 1]
  /\ \E w \in KillOutcomes :
       Written(NextRecord(l, b), w) /\ harm' = HarmAfter(l, w)
  /\ loggers' = [loggers EXCEPT ![l] = Closed]
  /\ UNCHANGED <<durable, acked>>

(* What is left of the harm when only n lines of the file survive.         *)
HarmWithin(n) == IF harm > n THEN 0 ELSE harm

(* The machine goes down: of what is not on disk a prefix survives, and    *)
(* perhaps the next line without its newline, or a part of it (where a     *)
(* kill may leave the same).                                               *)
PowerLoss ==
  /\ mishaps.kills < MaxKills
  /\ mishaps' = [mishaps EXCEPT !.kills = @ + 1]
  /\ loggers' = [l \in Loggers |-> Closed]
  /\ \E n \in durable .. Len(lines) :
       /\ lines' = SubSeq(lines, 1, n)
       /\ \/ tail' = NoLine /\ harm' = HarmWithin(n)
          \/ /\ n < Len(Content) /\ "fragment" \in KillOutcomes
             /\ tail' = Junk /\ harm' = Least(HarmWithin(n), n + 1)
          \/ /\ n < Len(Content) /\ "unterminated" \in KillOutcomes
             /\ tail' = Content[n + 1] /\ harm' = HarmWithin(n + 1)
  /\ UNCHANGED <<durable, acked>>

-----------------------------------------------------------------------------
(* Changes from outside to a log that is not harmed yet: the history the   *)
(* hash chain is there to protect.                                         *)
Tamper(i) ==
  /\ harm = 0
  /\ mishaps.tampers < MaxTampers
  /\ mishaps' = [mishaps EXCEPT !.tampers = @ + 1]
  /\ harm' = Least(harm, i)
  /\ durable' = Len(lines')
  /\ UNCHANGED <<tail, loggers, acked>>

EditLine(i, b) ==
  /\ lines[i].kind = "chained" /\ lines[i].payload # b
  /\ lines' = [lines EXCEPT ![i].payload = b]
  /\ Tamper(i)

(* Not the last line: no record after it could tell.                       *)
DeleteLine(i) ==
  /\ i < Len(lines)
  /\ lines' = SubSeq(lines, 1, i - 1) \o SubSeq(lines, i + 1, Len(lines))
  /\ Tamper(i)

SwapLines(i, j) ==
  /\ i < j
  /\ lines' = [lines EXCEPT ![i] = lines[j], ![j] = lines[i]]
  /\ Tamper(i)

LogNext ==
  \/ \E l \in Loggers : Open(l) \/ Exit(l)
  \/ \E l \in Loggers, b \in Payloads :
       RecordDecision(l, b) \/ RecordFails(l, b) \/ RecordKilled(l, b)
  \/ PowerLoss
  \/ \E i \in DOMAIN lines : DeleteLine(i) \/ \E b \in Payloads : EditLine(i, b)
  \/ \E i, j \in DOMAIN lines : SwapLines(i, j)

LogSpec == LogInit /\ [][LogNext]_logVars

-----------------------------------------------------------------------------
(* Every variable has the values its code can give it.                     *)
Hashes == {lines[i].hash : i \in ChainedLines(lines)}

LogTypeOK ==
  /\ Len(lines) <= MaxLines + LegacyLines
  /\ \A i \in DOMAIN lines : lines[i].kind \in {"chained", "legacy", "junk"}
  /\ tail.kind \in {"chained", "legacy", "junk", "none"}
  /\ \A l \in Loggers : loggers[l].open \in BOOLEAN /\ loggers[l].seq \in Nat
  /\ durable \in 0 .. Len(lines)
  /\ harm \in Nat

(***************************************************************************)
(* "The chain verifies when untampered": whatever calls, restarts and      *)
(* faults wrote a log with a chained record in it, verify_chain() accepts  *)
(* the log.                                                                *)
(***************************************************************************)
UntamperedIsIntact ==
  mishaps.tampers = 0 /\ ChainedLines(Content) # {} => Intact

(***************************************************************************)
(* A log that nothing has spoilt verifies, whatever its history: calls     *)
(* that raised before they wrote or after they wrote all, kills, power     *)
(* losses, restarts and loggers taking turns included.                     *)
(***************************************************************************)
UnharmedVerifies == harm = 0 => Intact

(***************************************************************************)
(* Of all that has gone wrong (an edited, deleted or displaced record, a   *)
(* record by a logger with a stale tail, half a record, a record behind an *)
(* unterminated one) the first place decides what verify_chain() does:     *)
(* it returns the number of that line or, if the line is no JSON, raises.  *)
(* It never accepts such a log, nor reports another line; and nothing that *)
(* is appended later covers the place up.  (That it "pinpoints the first   *)
(* corrupted sequence number" is true of a line that is JSON only.)        *)
(***************************************************************************)
HarmDecides ==
  harm # 0 =>
    VerifyChain(Content) =
      IF Content[harm].kind = "junk" THEN Undecodable ELSE BadAt(harm)

(***************************************************************************)
(* With fsync, a record whose hash was returned survives kills and power   *)
(* losses, and what loggers that resume afterwards append.                 *)
(***************************************************************************)
AckedIsDurable == Fsync /\ harm = 0 => acked \subseteq Hashes
=============================================================================
