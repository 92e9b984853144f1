----------------------------- MODULE LogProofs -----------------------------
(***************************************************************************)
(* What the log guarantees for any number of loggers, records, faults,     *)
(* kills, power losses and changes from outside.                           *)
(*                                                                         *)
(* Hashes nest, so the lines of a log are elements of no set that could be *)
(* written down: a log is just some sequence, and the lemmas on sequences  *)
(* are stated for those.                                                   *)
(***************************************************************************)
EXTENDS ProvenanceLog, SequenceTheorems, WellFoundedInduction, TLAPS

IsLog(L) == \E S : L \in Seq(S)

(* The first n lines of L continue the chain.                              *)
LogOK(L, n) == \A i \in 1 .. n : LineOK(L, i)

(* M continues the first n lines of L.                                     *)
SameUpTo(L, M, n) == \A i \in 1 .. n : M[i] = L[i]

-----------------------------------------------------------------------------
(* Logs as sequences.                                                      *)
LEMMA LogLength ==
  ASSUME NEW L, IsLog(L)
  PROVE  Len(L) \in Nat /\ DOMAIN L = 1 .. Len(L)
<1>1. PICK S : L \in Seq(S)
  BY DEF IsLog
<1> QED BY <1>1, LenProperties

LEMMA AppendToLog ==
  ASSUME NEW L, IsLog(L), NEW r
  PROVE  /\ IsLog(Append(L, r)) /\ Len(Append(L, r)) = Len(L) + 1
         /\ SameUpTo(L, Append(L, r), Len(L))
         /\ Append(L, r)[Len(L) + 1] = r
<1>1. PICK S : L \in Seq(S)
  BY DEF IsLog
<1>2. L \in Seq(S \cup {r})
  BY <1>1, SeqMonotonic
<1> QED BY <1>2, AppendProperties DEF IsLog, SameUpTo

LEMMA CutLog ==
  ASSUME NEW L, IsLog(L), NEW n \in 0 .. Len(L)
  PROVE  /\ IsLog(SubSeq(L, 1, n)) /\ Len(SubSeq(L, 1, n)) = n
         /\ SameUpTo(L, SubSeq(L, 1, n), n)
<1>1. PICK S : L \in Seq(S)
  BY DEF IsLog
<1>2. Len(L) \in Nat
  BY <1>1, LenProperties
<1>3. \A i \in 1 .. n : L[i] \in S
  BY <1>1, <1>2, ElementOfSeq
<1>4. /\ SubSeq(L, 1, n) \in Seq(S)
      /\ Len(SubSeq(L, 1, n)) = IF 1 <= n THEN n - 1 + 1 ELSE 0
      /\ \A i \in 1 .. n - 1 + 1 : SubSeq(L, 1, n)[i] = L[1 + i - 1]
  BY <1>2, <1>3, SubSeqProperties
<1>5. Len(SubSeq(L, 1, n)) = n
  BY <1>2, <1>4
<1>6. SameUpTo(L, SubSeq(L, 1, n), n)
  BY <1>2, <1>4 DEF SameUpTo
<1> QED BY <1>4, <1>5, <1>6 DEF IsLog

LEMMA RewriteLog ==
  ASSUME NEW L, IsLog(L), NEW M, M = [i \in DOMAIN L |-> M[i]]
  PROVE  IsLog(M) /\ Len(M) = Len(L)
<1>1. Len(L) \in Nat /\ DOMAIN L = 1 .. Len(L)
  BY LogLength
<1> DEFINE S == {M[i] : i \in 1 .. Len(L)}
<1>2. M \in [1 .. Len(L) -> S]
  BY <1>1
<1>3. M \in Seq(S)
  BY <1>1, <1>2
<1>4. DOMAIN M = 1 .. Len(M) /\ DOMAIN M = 1 .. Len(L) /\ Len(M) \in Nat
  BY <1>2, <1>3, LenProperties
<1> HIDE DEF S
<1>5. \A m, n \in Nat : 1 .. m = 1 .. n => m = n
  <2> SUFFICES ASSUME NEW m \in Nat, NEW n \in Nat, 1 .. m = 1 .. n PROVE m = n
    OBVIOUS
  <2>1. m > 0 => m \in 1 .. n
    OBVIOUS
  <2>2. n > 0 => n \in 1 .. m
    OBVIOUS
  <2> QED BY <2>1, <2>2
<1>6. Len(M) = Len(L)
  BY <1>1, <1>4, <1>5
<1> QED BY <1>3, <1>6 DEF IsLog

LEMMA DeleteFromLog ==
  ASSUME NEW L, IsLog(L), NEW i \in 1 .. Len(L)
  PROVE  LET M == SubSeq(L, 1, i - 1) \o SubSeq(L, i + 1, Len(L))
         IN  /\ IsLog(M) /\ Len(M) = Len(L) - 1 /\ SameUpTo(L, M, i - 1)
             /\ \A k \in i .. Len(L) - 1 : M[k] = L[k + 1]
<1>1. PICK S : L \in Seq(S)
  BY DEF IsLog
<1>2. Len(L) \in Nat
  BY <1>1, LenProperties
<1>3. \A j \in 1 .. Len(L) : L[j] \in S
  BY <1>1, <1>2, ElementOfSeq
<1> DEFINE A == SubSeq(L, 1, i - 1)
           B == SubSeq(L, i + 1, Len(L))
           M == A \o B
<1>4. A \in Seq(S) /\ Len(A) = i - 1 /\ SameUpTo(L, A, i - 1)
  <2>1. \A j \in 1 .. i - 1 : L[j] \in S
    BY <1>2, <1>3
  <2>2. i - 1 \in Int /\ i - 1 \in 0 .. Len(L)
    BY <1>2
  <2>3. A \in Seq(S)
    BY <2>1, <2>2, SubSeqProperties
  <2> QED BY <2>2, <2>3, CutLog
<1>5. /\ B \in Seq(S) /\ Len(B) = Len(L) - i
      /\ \A k \in 1 .. Len(L) - i : B[k] = L[i + k]
  <2>1. \A j \in i + 1 .. Len(L) : L[j] \in S
    BY <1>2, <1>3
  <2>2. i + 1 \in Int
    BY <1>2
  <2>3. /\ B \in Seq(S)
        /\ Len(B) = IF i + 1 <= Len(L) THEN Len(L) - (i + 1) + 1 ELSE 0
        /\ \A k \in 1 .. Len(L) - (i + 1) + 1 : B[k] = L[(i + 1) + k - 1]
    BY <1>2, <2>1, <2>2, SubSeqProperties
  <2> HIDE DEF B
  <2>4. Len(B) = Len(L) - i
    BY <1>2, <2>3
  <2>5. ASSUME NEW k \in 1 .. Len(L) - i PROVE B[k] = L[i + k]
    <3>1. k \in 1 .. Len(L) - (i + 1) + 1 /\ (i + 1) + k - 1 = i + k
      BY <1>2
    <3> QED BY <2>3, <3>1
  <2> QED BY <2>3, <2>4, <2>5
<1>6. M = A \o B
  OBVIOUS
<1> HIDE DEF A, B, M
<1>7. /\ A \o B \in Seq(S) /\ Len(A \o B) = Len(A) + Len(B)
      /\ \A j \in 1 .. Len(A) + Len(B) :
           (A \o B)[j] = IF j <= Len(A) THEN A[j] ELSE B[j - Len(A)]
  BY <1>4, <1>5, ConcatProperties
<1>8. IsLog(M) /\ Len(M) = Len(L) - 1
  <2>1. IsLog(M)
    BY <1>6, <1>7 DEF IsLog
  <2>2. Len(M) = (i - 1) + (Len(L) - i)
    BY <1>4, <1>5, <1>6, <1>7
  <2> QED BY <1>2, <2>1, <2>2
<1>9. SameUpTo(L, M, i - 1)
  <2> SUFFICES ASSUME NEW j \in 1 .. i - 1 PROVE M[j] = L[j]
    BY DEF SameUpTo
  <2>1. j \in 1 .. Len(A) + Len(B) /\ j <= Len(A)
    BY <1>2, <1>4, <1>5
  <2>2. M[j] = A[j]
    BY <1>6, <1>7, <2>1
  <2>3. A[j] = L[j]
    BY <1>4 DEF SameUpTo
  <2> QED BY <2>2, <2>3
<1>10. ASSUME NEW k \in i .. Len(L) - 1 PROVE M[k] = L[k + 1]
  <2>1. k \in 1 .. Len(A) + Len(B) /\ ~(k <= Len(A))
    BY <1>2, <1>4, <1>5
  <2>2. M[k] = B[k - Len(A)]
    BY <1>6, <1>7, <2>1
  <2>3. k - Len(A) = k - i + 1 /\ k - i + 1 \in 1 .. Len(L) - i /\ i + (k - i + 1) = k + 1
    BY <1>2, <1>4
  <2> QED BY <1>5, <2>2, <2>3
<1> QED BY <1>8, <1>9, <1>10 DEF A, B, M

(* The longest number of a nonempty set of line numbers exists.            *)
LEMMA LastOfLines ==
  ASSUME NEW n \in Nat, NEW S \in SUBSET (1 .. n), S # {}
  PROVE  \E i \in S : \A j \in S : j <= i
<1> DEFINE T == {n - i : i \in S}
<1>1. T \subseteq Nat /\ T # {}
  <2>1. \A i \in S : n - i \in Nat /\ n - i \in T
    OBVIOUS
  <2>2. PICK i \in S : TRUE
    OBVIOUS
  <2> QED BY <2>1, <2>2
<1>2. PICK m \in T : \A k \in T : <<k, m>> \notin OpToRel(<, Nat)
  BY <1>1, WFMin, NatLessThanWellFounded, Zenon
<1>3. PICK i \in S : m = n - i
  OBVIOUS
<1>4. ASSUME NEW j \in S PROVE j <= i
  <2>1. n - j \in T /\ n - j \in Nat /\ m \in Nat
    BY <1>1
  <2>2. ~(n - j < m)
    BY <1>2, <2>1 DEF OpToRel
  <2> QED BY <1>3, <2>2
<1> QED BY <1>4

-----------------------------------------------------------------------------
(* The chain.  Whether a line continues it depends on that line and on the *)
(* one before.                                                             *)
LEMMA LineOKIsLocal ==
  ASSUME NEW L, NEW M, NEW n \in Nat, SameUpTo(L, M, n), NEW i \in 1 .. n,
         LineOK(L, i)
  PROVE  LineOK(M, i)
<1>1. M[i] = L[i]
  BY DEF SameUpTo
<1>2. StoredHash(M, i - 1) = StoredHash(L, i - 1)
  <2>1. CASE i = 1
    BY <2>1 DEF StoredHash
  <2>2. CASE i > 1
    <3>1. M[i - 1] = L[i - 1]
      BY <2>2 DEF SameUpTo
    <3> QED BY <2>2, <3>1 DEF StoredHash
  <2> QED BY <2>1, <2>2
<1> QED BY <1>1, <1>2 DEF LineOK

(* From an intact log a new logger takes the number and hash of the last   *)
(* line.                                                                   *)
LEMMA RecoveredFromIntact ==
  ASSUME NEW L, IsLog(L), \A i \in 1 .. Len(L) : LineOK(L, i)
  PROVE  Recovered(L) = Opened(Len(L), StoredHash(L, Len(L)))
<1>1. Len(L) \in Nat /\ DOMAIN L = 1 .. Len(L)
  BY LogLength
<1>2. CASE Len(L) = 0
  <2>1. ChainedLines(L) = {}
    BY <1>1, <1>2 DEF ChainedLines
  <2>2. StoredHash(L, Len(L)) = GENESIS
    BY <1>2 DEF StoredHash
  <2> QED BY <2>1, <2>2 DEF Recovered
<1>3. CASE Len(L) > 0
  <2> DEFINE n == Len(L)
  <2>1. L[n].kind = "chained" /\ L[n].seq = n
    BY <1>1, <1>3 DEF LineOK
  <2>2. n \in ChainedLines(L) /\ \A j \in ChainedLines(L) : j <= n
    BY <1>1, <1>3, <2>1 DEF ChainedLines
  <2>3. \A i \in ChainedLines(L) :
          (\A j \in ChainedLines(L) : j <= i) => i = n
    BY <1>1, <2>2 DEF ChainedLines
  <2>4. LastChained(L) = n
    BY <2>2, <2>3 DEF LastChained
  <2>5. StoredHash(L, n) = L[n].hash
    BY <1>1, <1>3, <2>1 DEF StoredHash
  <2>6. Recovered(L) = Opened(L[n].seq + Len(L) - n, L[n].hash)
    BY <2>2, <2>4 DEF Recovered
  <2>7. L[n].seq + Len(L) - n = Len(L)
    BY <1>1, <2>1
  <2> QED BY <2>5, <2>6, <2>7
<1> QED BY <1>1, <1>2, <1>3

(* A record with the next number and the last hash continues the chain.    *)
LEMMA NextLineOK ==
  ASSUME NEW L, IsLog(L), NEW b
  PROVE  LET r == Chained(Len(L) + 1, StoredHash(L, Len(L)), b)
         IN  LineOK(Append(L, r), Len(L) + 1)
<1> DEFINE r == Chained(Len(L) + 1, StoredHash(L, Len(L)), b)
           M == Append(L, r)
<1>1. Len(L) \in Nat
  BY LogLength
<1>2. SameUpTo(L, M, Len(L)) /\ M[Len(L) + 1] = r
  BY AppendToLog
<1>3. StoredHash(M, Len(L)) = StoredHash(L, Len(L))
  BY <1>1, <1>2 DEF StoredHash, SameUpTo
<1>4. /\ r.kind = "chained" /\ r.seq = Len(L) + 1
      /\ r.prev = StoredHash(L, Len(L))
      /\ r.hash = Hash(r.seq, r.prev, r.payload)
  BY DEF Chained
<1> HIDE DEF r, M
<1>5. (Len(L) + 1) - 1 = Len(L)
  BY <1>1
<1>6. LineOK(M, Len(L) + 1)
  BY <1>2, <1>3, <1>4, <1>5 DEF LineOK
<1> QED BY <1>6 DEF M, r

-----------------------------------------------------------------------------
(* The shape of lines and loggers.                                         *)
Record(s, p, b, h) ==
  [kind |-> "chained", seq |-> s, prev |-> p, payload |-> b, hash |-> h]

LineShape(x) ==
  x = Legacy \/ x = Junk \/ \E s \in Nat : \E p, b, h : x = Record(s, p, b, h)

LoggerShape(g) == g = Closed \/ \E s \in Nat : \E p : g = Opened(s, p)

LEMMA LineShapeFacts ==
  ASSUME NEW x, LineShape(x)
  PROVE  /\ x # NoLine /\ x.kind \in {"chained", "legacy", "junk"}
         /\ x.kind = "chained" => x.seq \in Nat
         /\ x.kind = "chained" => \E s \in Nat : \E p, b, h : x = Record(s, p, b, h)
<1>1. CASE x = Legacy \/ x = Junk
  BY <1>1 DEF Legacy, Junk, NoLine
<1>2. CASE \E s \in Nat : \E p, b, h : x = Record(s, p, b, h)
  <2>0. PICK s \in Nat : \E p, b, h : x = Record(s, p, b, h)
    BY <1>2
  <2>1. PICK p, b, h : x = Record(s, p, b, h)
    BY <2>0
  <2>2. x.kind = "chained" /\ x.seq = s
    BY <2>1 DEF Record
  <2>3. x # NoLine
    BY <2>2 DEF NoLine
  <2> QED BY <1>2, <2>2, <2>3
<1> QED BY <1>1, <1>2 DEF LineShape

LEMMA ChainedShape ==
  ASSUME NEW s \in Nat, NEW p, NEW b
  PROVE  LineShape(Chained(s, p, b))
BY DEF LineShape, Chained, Record

LEMMA OpenedFields ==
  ASSUME NEW s, NEW p
  PROVE  Opened(s, p).open = TRUE /\ Opened(s, p).seq = s /\ Opened(s, p).prev = p
BY DEF Opened

LEMMA LoggerShapeFacts ==
  ASSUME NEW g, LoggerShape(g)
  PROVE  /\ g.open \in BOOLEAN /\ g.seq \in Nat
         /\ g.open => g = Opened(g.seq, g.prev)
<1>1. CASE g = Closed
  BY <1>1 DEF Closed
<1>2. CASE \E s \in Nat : \E p : g = Opened(s, p)
  <2>0. PICK s \in Nat : \E p : g = Opened(s, p)
    BY <1>2
  <2>1. PICK p : g = Opened(s, p)
    BY <2>0
  <2>2. g.open = TRUE /\ g.seq = s /\ g.prev = p
    BY <2>1, OpenedFields
  <2> QED BY <2>1, <2>2
<1> QED BY <1>1, <1>2 DEF LoggerShape

(* Resuming any log that can be written gives a logger.                    *)
LEMMA RecoveredShape ==
  ASSUME NEW L, IsLog(L), \A i \in 1 .. Len(L) : LineShape(L[i])
  PROVE  \E s \in Nat : \E p : Recovered(L) = Opened(s, p)
<1>1. Len(L) \in Nat /\ DOMAIN L = 1 .. Len(L)
  BY LogLength
<1>2. CASE ChainedLines(L) = {}
  BY <1>1, <1>2 DEF Recovered
<1>3. CASE ChainedLines(L) # {}
  <2> DEFINE i == LastChained(L)
  <2>1. ChainedLines(L) \in SUBSET (1 .. Len(L))
    BY <1>1 DEF ChainedLines
  <2>2. \E k \in ChainedLines(L) : \A j \in ChainedLines(L) : j <= k
    BY <1>1, <1>3, <2>1, LastOfLines
  <2>3. i \in ChainedLines(L)
    BY <2>2 DEF LastChained
  <2>4. i \in 1 .. Len(L) /\ L[i].kind = "chained"
    BY <1>1, <2>3 DEF ChainedLines
  <2>5. L[i].seq \in Nat
    BY <2>4, LineShapeFacts
  <2>6. Recovered(L) = Opened(L[i].seq + Len(L) - i, L[i].hash)
    BY <1>3 DEF Recovered
  <2> HIDE DEF i
  <2>7. L[i].seq + Len(L) - i \in Nat
    BY <1>1, <2>4, <2>5
  <2> QED BY <2>6, <2>7
<1> QED BY <1>2, <1>3

-----------------------------------------------------------------------------
(* Where a log is harmed, exactly: h is the first line that does not       *)
(* continue the chain, or 0 if they all do.                                *)
ExactAt(L, h) ==
  /\ h \in 0 .. Len(L)
  /\ \A i \in 1 .. Len(L) : i < h \/ h = 0 => LineOK(L, i)
  /\ h # 0 => ~LineOK(L, h)

LEMMA SameIsSymmetric ==
  ASSUME NEW L, NEW M, NEW n, SameUpTo(L, M, n)
  PROVE  SameUpTo(M, L, n)
BY DEF SameUpTo

(* When only n lines of the log survive.                                   *)
LEMMA CutExact ==
  ASSUME NEW L, NEW M, IsLog(L), IsLog(M), NEW h, ExactAt(L, h),
         Len(M) <= Len(L), SameUpTo(L, M, Len(M))
  PROVE  ExactAt(M, IF h > Len(M) THEN 0 ELSE h)
<1> DEFINE k == IF h > Len(M) THEN 0 ELSE h
<1>1. Len(L) \in Nat /\ Len(M) \in Nat /\ h \in 0 .. Len(L)
  BY LogLength DEF ExactAt
<1>2. ASSUME NEW i \in 1 .. Len(M), i < k \/ k = 0 PROVE LineOK(M, i)
  <2>1. i \in 1 .. Len(L) /\ (i < h \/ h = 0)
    BY <1>1, <1>2
  <2> QED BY <1>1, <2>1, LineOKIsLocal DEF ExactAt
<1>3. ASSUME k # 0 PROVE ~LineOK(M, k)
  <2>1. k = h /\ h \in 1 .. Len(M)
    BY <1>1, <1>3
  <2>2. ~LineOK(L, h)
    BY <1>3, <2>1 DEF ExactAt
  <2> QED BY <1>1, <2>1, <2>2, LineOKIsLocal, SameIsSymmetric
<1>4. k \in 0 .. Len(M)
  BY <1>1
<1> QED BY <1>2, <1>3, <1>4 DEF ExactAt

(* When a line that does not continue the chain follows the first n.       *)
LEMMA BreakExact ==
  ASSUME NEW L, NEW M, IsLog(L), IsLog(M), NEW h, ExactAt(L, h),
         NEW n \in 0 .. Len(L), Len(M) >= n + 1, SameUpTo(L, M, n),
         ~LineOK(M, n + 1)
  PROVE  ExactAt(M, Least(IF h > n THEN 0 ELSE h, n + 1))
<1> DEFINE k == Least(IF h > n THEN 0 ELSE h, n + 1)
<1>1. Len(L) \in Nat /\ Len(M) \in Nat /\ h \in 0 .. Len(L)
  BY LogLength DEF ExactAt
<1>2. CASE h \in 1 .. n
  <2>1. k = h
    BY <1>1, <1>2 DEF Least
  <2>2. ~LineOK(M, h)
    BY <1>1, <1>2, LineOKIsLocal, SameIsSymmetric DEF ExactAt
  <2>3. ASSUME NEW i \in 1 .. Len(M), i < h PROVE LineOK(M, i)
    <3>1. i \in 1 .. Len(L) /\ i \in 1 .. n
      BY <1>1, <1>2, <2>3
    <3> QED BY <1>1, <2>3, <3>1, LineOKIsLocal DEF ExactAt
  <2> QED BY <1>1, <1>2, <2>1, <2>2, <2>3 DEF ExactAt
<1>3. CASE h \notin 1 .. n
  <2>1. k = n + 1
    BY <1>1, <1>3 DEF Least
  <2>2. ASSUME NEW i \in 1 .. n PROVE LineOK(M, i)
    <3>1. i \in 1 .. Len(L) /\ (i < h \/ h = 0)
      BY <1>1, <1>3
    <3> QED BY <1>1, <3>1, LineOKIsLocal DEF ExactAt
  <2>3. \A i \in 1 .. Len(M) : i < n + 1 => i \in 1 .. n
    BY <1>1
  <2>4. n + 1 \in 0 .. Len(M) /\ n + 1 # 0
    BY <1>1
  <2>5. ExactAt(M, n + 1)
    BY <2>2, <2>3, <2>4 DEF ExactAt
  <2> HIDE DEF k
  <2>6. ExactAt(M, k)
    BY <2>1, <2>5
  <2> QED BY <2>6 DEF k
<1> QED BY <1>2, <1>3

(* When a line is added to a log that is harmed already, or continues it.  *)
LEMMA ExtendExact ==
  ASSUME NEW L, NEW M, IsLog(L), IsLog(M), NEW h, ExactAt(L, h),
         Len(M) = Len(L) + 1, SameUpTo(L, M, Len(L)),
         h = 0 => LineOK(M, Len(M))
  PROVE  ExactAt(M, h)
<1>1. Len(L) \in Nat /\ Len(M) \in Nat /\ h \in 0 .. Len(L)
  BY LogLength DEF ExactAt
<1>2. ASSUME NEW i \in 1 .. Len(M), i < h \/ h = 0 PROVE LineOK(M, i)
  <2>1. CASE i \in 1 .. Len(L)
    BY <1>1, <1>2, <2>1, LineOKIsLocal DEF ExactAt
  <2>2. CASE i \notin 1 .. Len(L)
    <3>1. i = Len(M) /\ h = 0
      BY <1>1, <1>2, <2>2
    <3> QED BY <3>1
  <2> QED BY <2>1, <2>2
<1>3. ASSUME h # 0 PROVE ~LineOK(M, h)
  <2>1. h \in 1 .. Len(L)
    BY <1>1, <1>3
  <2> QED BY <1>1, <1>3, <2>1, LineOKIsLocal, SameIsSymmetric DEF ExactAt
<1> QED BY <1>1, <1>2, <1>3 DEF ExactAt

(* In an intact log, a logger continues the chain only from its end.       *)
LEMMA NextLineBreaks ==
  ASSUME NEW L, IsLog(L), NEW s \in Nat, NEW p, NEW b,
         Opened(s, p) # Opened(Len(L), StoredHash(L, Len(L)))
  PROVE  ~LineOK(Append(L, Chained(s + 1, p, b)), Len(L) + 1)
<1> DEFINE r == Chained(s + 1, p, b)
           M == Append(L, r)
<1> SUFFICES ASSUME LineOK(M, Len(L) + 1) PROVE FALSE
  OBVIOUS
<1>1. Len(L) \in Nat
  BY LogLength
<1>2. SameUpTo(L, M, Len(L)) /\ M[Len(L) + 1] = r
  BY AppendToLog
<1>3. StoredHash(M, Len(L)) = StoredHash(L, Len(L))
  BY <1>1, <1>2 DEF StoredHash, SameUpTo
<1>4. r.seq = s + 1 /\ r.prev = p
  BY DEF Chained
<1> HIDE DEF r, M
<1>5. (Len(L) + 1) - 1 = Len(L)
  BY <1>1
<1>6. s + 1 = Len(L) + 1 /\ p = StoredHash(L, Len(L))
  BY <1>2, <1>3, <1>4, <1>5 DEF LineOK
<1>7. s = Len(L)
  BY <1>1, <1>6
<1> QED BY <1>6, <1>7

-----------------------------------------------------------------------------
(* The inductive invariant.  Shape: the lines are lines, the loggers are   *)
(* loggers, and what is on disk and where harm is are lines that exist.    *)
Shape ==
  /\ IsLog(lines) /\ Len(lines) <= MaxLines + LegacyLines
  /\ \A i \in 1 .. Len(lines) : LineShape(lines[i])
  /\ tail = NoLine \/ LineShape(tail)
  /\ loggers = [l \in Loggers |-> loggers[l]]
  /\ \A l \in Loggers : LoggerShape(loggers[l])
  /\ durable \in 0 .. Len(lines)
  /\ harm \in 0 .. Len(lines) + 1

HashOnDisk(h) ==
  \E i \in 1 .. durable : lines[i].kind = "chained" /\ lines[i].hash = h

(* Unless harm befell what is on disk, acknowledged records are there.     *)
Secured ==
  Fsync /\ (harm = 0 \/ harm > durable) => \A h \in acked : HashOnDisk(h)

(* The harm is exactly where the file first breaks the chain.  (Lines of   *)
(* the old format break it at once, so this is about logs without them.)   *)
Exact == LegacyLines = 0 => ExactAt(Content, harm)

LogInv == Shape /\ Secured /\ Exact

LEMMA LogInitOK == LogInit => LogInv
<1> SUFFICES ASSUME LogInit PROVE LogInv
  OBVIOUS
<1>1. LegacyLines \in Nat /\ MaxLines \in Nat
  BY LogConstantsAssumption
<1>2. /\ lines \in Seq({Legacy}) /\ Len(lines) = LegacyLines
      /\ \A i \in 1 .. Len(lines) : lines[i] = Legacy
  BY <1>1 DEF LogInit
<1>3. harm = 0 /\ durable = Len(lines) /\ tail = NoLine
  BY <1>2 DEF LogInit
<1>4. Shape
  <2>1. IsLog(lines)
    BY <1>2 DEF IsLog
  <2>2. \A i \in 1 .. Len(lines) : LineShape(lines[i])
    BY <1>2 DEF LineShape
  <2>3. /\ loggers = [l \in Loggers |-> loggers[l]]
        /\ \A l \in Loggers : LoggerShape(loggers[l])
    BY DEF LogInit, LoggerShape
  <2> QED BY <1>1, <1>2, <1>3, <2>1, <2>2, <2>3 DEF Shape
<1>5. Secured
  BY DEF Secured, LogInit
<1>6. Exact
  BY <1>2, <1>3 DEF Exact, ExactAt, Content
<1> QED BY <1>4, <1>5, <1>6 DEF LogInv

(* What a reader sees: the lines and perhaps one more.                     *)
LEMMA ContentFacts ==
  ASSUME Shape
  PROVE  /\ IsLog(Content) /\ SameUpTo(lines, Content, Len(lines))
         /\ Len(Content) = IF tail = NoLine THEN Len(lines) ELSE Len(lines) + 1
         /\ \A i \in 1 .. Len(Content) : LineShape(Content[i])
<1>1. IsLog(lines) /\ Len(lines) \in Nat
  BY LogLength DEF Shape
<1>2. CASE tail = NoLine
  BY <1>1, <1>2 DEF Content, SameUpTo, Shape
<1>3. CASE tail # NoLine
  <2>1. Content = Append(lines, tail) /\ LineShape(tail)
    BY <1>3 DEF Content, Shape
  <2>2. /\ IsLog(Content) /\ Len(Content) = Len(lines) + 1
        /\ SameUpTo(lines, Content, Len(lines)) /\ Content[Len(lines) + 1] = tail
    BY <1>1, <2>1, AppendToLog
  <2>3. ASSUME NEW i \in 1 .. Len(Content) PROVE LineShape(Content[i])
    <3>1. i \in 1 .. Len(lines) \/ i = Len(lines) + 1
      BY <1>1, <2>2
    <3> QED BY <2>1, <2>2, <3>1 DEF SameUpTo, Shape
  <2> QED BY <1>3, <2>2, <2>3
<1> QED BY <1>2, <1>3

LEMMA LeastOfHarm ==
  ASSUME NEW n \in Nat, NEW h \in 0 .. n + 1, NEW m \in 1 .. n + 1
  PROVE  /\ Least(h, m) \in 1 .. m
         /\ h # 0 => Least(h, m) <= h
         /\ Least(h, m) = m \/ Least(h, m) = h
BY DEF Least

(* What is on disk stays there when lines are kept up to it.               *)
LEMMA KeptHashes ==
  ASSUME Shape, Secured, durable' = durable, acked' = acked,
         SameUpTo(lines, lines', durable),
         harm' = 0 \/ harm' > durable => harm = 0 \/ harm > durable
  PROVE  Secured'
<1> SUFFICES ASSUME Fsync, harm' = 0 \/ harm' > durable', NEW h \in acked'
             PROVE  HashOnDisk(h)'
  BY DEF Secured
<1>1. HashOnDisk(h)
  BY DEF Secured
<1>2. PICK i \in 1 .. durable : lines[i].kind = "chained" /\ lines[i].hash = h
  BY <1>1 DEF HashOnDisk
<1>3. lines'[i] = lines[i]
  BY <1>2 DEF SameUpTo
<1> QED BY <1>2, <1>3 DEF HashOnDisk

-----------------------------------------------------------------------------
(* Opening, closing and counting change no line.                           *)
LEMMA LoggersOnlyKeep ==
  ASSUME LogInv, UNCHANGED <<lines, tail, durable, acked, harm>>,
         loggers' = [l \in Loggers |-> loggers'[l]],
         \A l \in Loggers : LoggerShape(loggers'[l])
  PROVE  LogInv'
<1>1. Shape'
  BY DEF LogInv, Shape
<1>2. Secured'
  BY DEF LogInv, Secured, HashOnDisk
<1>3. Content' = Content
  BY DEF Content
<1>4. Exact'
  BY <1>3 DEF LogInv, Exact
<1> QED BY <1>1, <1>2, <1>4 DEF LogInv

LEMMA OneLoggerShape ==
  ASSUME Shape, NEW l \in Loggers, NEW g, LoggerShape(g),
         loggers' = [loggers EXCEPT ![l] = g]
  PROVE  /\ loggers' = [k \in Loggers |-> loggers'[k]]
         /\ \A k \in Loggers : LoggerShape(loggers'[k])
BY DEF Shape

LEMMA OpenKeeps ==
  ASSUME LogInv, NEW l \in Loggers, Open(l) \/ Exit(l)
  PROVE  LogInv'
<1>1. LoggerShape(Closed) /\ LoggerShape(Recovered(Content))
  BY ContentFacts, RecoveredShape DEF LogInv, LoggerShape
<1>2. PICK g \in {Closed, Recovered(Content)} : loggers' = [loggers EXCEPT ![l] = g]
  BY DEF Open, Exit
<1>3. UNCHANGED <<lines, tail, durable, acked, harm>>
  BY DEF Open, Exit
<1> QED BY <1>1, <1>2, <1>3, OneLoggerShape, LoggersOnlyKeep DEF LogInv

(* The line or rest that a write of something leaves at the end.           *)
LEMMA WrittenContent ==
  ASSUME Shape, NEW r, LineShape(r), NEW w \in Outcomes \ {"nothing"}, Written(r, w)
  PROVE  LET x == IF w = "fragment" \/ tail # NoLine THEN Junk ELSE r
         IN  /\ Content' = Append(lines, x)
             /\ lines' = IF w = "line" THEN Append(lines, x) ELSE lines
             /\ tail' = IF w = "line" THEN NoLine ELSE x
<1> DEFINE x == IF w = "fragment" \/ tail # NoLine THEN Junk ELSE r
<1>1. x # NoLine
  BY LineShapeFacts DEF Junk, NoLine
<1>2. w # "fragment" => Joined(r) = x
  BY DEF Joined
<1>3. /\ lines' = IF w = "line" THEN Append(lines, x) ELSE lines
      /\ tail' = IF w = "line" THEN NoLine ELSE x
  <2>1. CASE w = "fragment"
    BY <2>1 DEF Written
  <2>2. CASE w = "unterminated"
    BY <1>2, <2>2 DEF Written
  <2>3. CASE w = "line"
    BY <1>2, <2>3 DEF Written
  <2> QED BY <2>1, <2>2, <2>3 DEF Outcomes
<1>4. Content' = Append(lines, x)
  BY <1>1, <1>3 DEF Content
<1> QED BY <1>3, <1>4

(* After any write, harm is still exactly where the chain breaks first.    *)
LEMMA WriteExact ==
  ASSUME Shape, Exact, NEW l \in Loggers, NEW b, NEW w \in Outcomes,
         loggers[l].open, Written(NextRecord(l, b), w), harm' = HarmAfter(l, w)
  PROVE  Exact'
<1> SUFFICES ASSUME LegacyLines = 0 PROVE ExactAt(Content', harm')
  BY DEF Exact
<1> DEFINE n == Len(lines)
           r == NextRecord(l, b)
           x == IF w = "fragment" \/ tail # NoLine THEN Junk ELSE r
           g == loggers[l]
<1>1. /\ n \in Nat /\ IsLog(lines) /\ IsLog(Content)
      /\ n \in 0 .. Len(Content) /\ ExactAt(Content, harm)
  BY LogLength, ContentFacts DEF Shape, Exact
<1>2. g.seq \in Nat /\ g = Opened(g.seq, g.prev)
  BY LoggerShapeFacts DEF Shape
<1>3. LineShape(r)
  BY <1>2, ChainedShape DEF NextRecord
<1>4. CASE w = "nothing"
  <2>1. Content' = Content /\ harm' = harm
    BY <1>4 DEF Written, Content, HarmAfter, Spoils
  <2> QED BY <1>1, <2>1
<1>5. CASE w # "nothing"
  <2>1. Content' = Append(lines, x)
    BY <1>3, <1>5, WrittenContent
  <2>2. /\ IsLog(Content') /\ Len(Content') = n + 1
        /\ SameUpTo(lines, Content', n) /\ Content'[n + 1] = x
    BY <1>1, <2>1, AppendToLog
  <2>3. SameUpTo(Content, Content', n)
    BY <2>2, ContentFacts DEF SameUpTo
  <2>4. harm \in 0 .. n + 1
    BY DEF Shape
  <2>5. Least(IF harm > n THEN 0 ELSE harm, n + 1) = Least(harm, n + 1)
    BY <1>1, <2>4 DEF Least
  <2>6. CASE x = Junk
    <3>1. ~LineOK(Content', n + 1)
      BY <2>2, <2>6 DEF LineOK, Junk
    <3>2. r # Junk
      BY DEF NextRecord, Chained, Junk
    <3>3. Spoils(l, w)
      BY <1>5, <2>6, <3>2 DEF Spoils
    <3>4. harm' = Least(harm, n + 1)
      BY <3>3 DEF HarmAfter
    <3>5. Len(Content') >= n + 1
      BY <1>1, <2>2
    <3>6. ExactAt(Content', Least(IF harm > n THEN 0 ELSE harm, n + 1))
      BY <1>1, <2>2, <2>3, <3>1, <3>5, BreakExact
    <3> QED BY <2>5, <3>4, <3>6
  <2>7. CASE x # Junk
    <3>1. tail = NoLine /\ Content = lines /\ x = r
      BY <2>7 DEF Content
    <3>2. harm \in 0 .. n
      BY <1>1, <3>1 DEF ExactAt
    <3>3. Spoils(l, w) <=> Stale(l)
      BY <1>5, <2>7 DEF Spoils
    <3>4. r = Chained(g.seq + 1, g.prev, b)
      BY DEF NextRecord
    <3>5. CASE harm # 0
      <4>1. harm' = harm
        BY <1>1, <3>2, <3>5 DEF HarmAfter, Least
      <4> QED BY <1>1, <2>2, <3>1, <3>5, <4>1, ExtendExact
    <3>6. CASE harm = 0
      <4>1. \A i \in 1 .. n : LineOK(lines, i)
        BY <1>1, <3>1, <3>6 DEF ExactAt
      <4>2. Recovered(Content) = Opened(n, StoredHash(lines, n))
        BY <1>1, <3>1, <4>1, RecoveredFromIntact
      <4>3. CASE Stale(l)
        <5>1. g # Opened(n, StoredHash(lines, n))
          BY <4>2, <4>3 DEF Stale
        <5>2. ~LineOK(Append(lines, Chained(g.seq + 1, g.prev, b)), n + 1)
          BY <1>1, <1>2, <5>1, NextLineBreaks
        <5>3. ~LineOK(Content', n + 1)
          BY <2>1, <3>1, <3>4, <5>2
        <5>4. Len(Content') >= n + 1
          BY <1>1, <2>2
        <5>5. ExactAt(Content', Least(IF harm > n THEN 0 ELSE harm, n + 1))
          BY <1>1, <2>2, <2>3, <5>3, <5>4, BreakExact
        <5> QED BY <2>5, <3>3, <4>3, <5>5 DEF HarmAfter
      <4>4. CASE ~Stale(l)
        <5>1. g = Opened(n, StoredHash(lines, n))
          BY <4>2, <4>4 DEF Stale
        <5>2. g.seq = n /\ g.prev = StoredHash(lines, n)
          BY <5>1 DEF Opened
        <5>3. Content' = Append(lines, Chained(n + 1, StoredHash(lines, n), b))
          BY <2>1, <3>1, <3>4, <5>2
        <5>4. LineOK(Content', Len(Content'))
          BY <1>1, <2>2, <5>3, NextLineOK
        <5>5. harm' = harm
          BY <3>3, <4>4 DEF HarmAfter
        <5> QED BY <1>1, <2>2, <3>1, <5>4, <5>5, ExtendExact
      <4> QED BY <4>3, <4>4
    <3> QED BY <3>5, <3>6
  <2> QED BY <2>6, <2>7
<1> QED BY <1>4, <1>5

(* After any write, the shape.                                             *)
LEMMA WriteShape ==
  ASSUME Shape, NEW l \in Loggers, NEW b, NEW w \in Outcomes,
         loggers[l].open, Len(lines) < MaxLines,
         Written(NextRecord(l, b), w), harm' = HarmAfter(l, w),
         NEW g, LoggerShape(g), loggers' = [loggers EXCEPT ![l] = g],
         durable' \in {durable, Len(lines')}
  PROVE  /\ Shape' /\ SameUpTo(lines, lines', Len(lines))
         /\ harm' # 0 => Spoils(l, w) \/ harm # 0
         /\ harm # 0 => harm' # 0 /\ harm' <= harm
<1> DEFINE n == Len(lines)
           r == NextRecord(l, b)
<1>1. /\ n \in Nat /\ IsLog(lines) /\ durable \in 0 .. n /\ harm \in 0 .. n + 1
      /\ LegacyLines \in Nat /\ MaxLines \in Nat
  BY LogLength, LogConstantsAssumption DEF Shape
<1>2. LineShape(r)
  <2>1. loggers[l].seq \in Nat
    BY LoggerShapeFacts DEF Shape
  <2> QED BY <2>1, ChainedShape DEF NextRecord
<1>3. /\ IsLog(lines') /\ SameUpTo(lines, lines', n)
      /\ Len(lines') \in n .. n + 1
      /\ \A i \in 1 .. Len(lines') : LineShape(lines'[i])
      /\ tail' = NoLine \/ LineShape(tail')
  <2>1. CASE w = "nothing"
    <3>1. lines' = lines /\ tail' = tail
      BY <2>1 DEF Written
    <3> QED BY <1>1, <3>1 DEF Shape, SameUpTo
  <2>2. CASE w # "nothing"
    <3> DEFINE x == IF w = "fragment" \/ tail # NoLine THEN Junk ELSE r
    <3>1. /\ lines' = IF w = "line" THEN Append(lines, x) ELSE lines
          /\ tail' = IF w = "line" THEN NoLine ELSE x
      BY <1>2, <2>2, WrittenContent
    <3>2. LineShape(x)
      BY <1>2 DEF LineShape
    <3> HIDE DEF x
    <3>3. CASE w = "line"
      <4>1. /\ IsLog(lines') /\ SameUpTo(lines, lines', n)
            /\ Len(lines') = n + 1 /\ lines'[n + 1] = x
        BY <1>1, <3>1, <3>3, AppendToLog
      <4>2. ASSUME NEW i \in 1 .. n + 1 PROVE LineShape(lines'[i])
        <5>1. i \in 1 .. n \/ i = n + 1
          BY <1>1
        <5> QED BY <3>2, <4>1, <5>1 DEF SameUpTo, Shape
      <4> QED BY <1>1, <3>1, <3>3, <4>1, <4>2
    <3>4. CASE w # "line"
      BY <1>1, <3>1, <3>2, <3>4 DEF Shape, SameUpTo
    <3> QED BY <3>3, <3>4
  <2> QED BY <2>1, <2>2
<1>4. /\ harm' \in 0 .. n + 1
      /\ harm' # 0 => Spoils(l, w) \/ harm # 0
      /\ harm # 0 => harm' # 0 /\ harm' <= harm
  BY <1>1, LeastOfHarm DEF HarmAfter
<1>5. /\ loggers' = [k \in Loggers |-> loggers'[k]]
      /\ \A k \in Loggers : LoggerShape(loggers'[k])
  BY OneLoggerShape
<1>6. /\ Len(lines') <= MaxLines + LegacyLines
      /\ durable' \in 0 .. Len(lines') /\ harm' \in 0 .. Len(lines') + 1
  BY <1>1, <1>3, <1>4
<1> QED BY <1>3, <1>4, <1>5, <1>6 DEF Shape

-----------------------------------------------------------------------------
(* One lemma per action.                                                   *)
LEMMA RecordDecisionKeeps ==
  ASSUME LogInv, NEW l \in Loggers, NEW b, RecordDecision(l, b)
  PROVE  LogInv'
<1> DEFINE n == Len(lines)
           r == NextRecord(l, b)
           g == Opened(r.seq, r.hash)
<1>1. n \in Nat /\ IsLog(lines) /\ durable \in 0 .. n /\ harm \in 0 .. n + 1
  BY LogLength DEF LogInv, Shape
<1>2. /\ "line" \in Outcomes /\ Written(r, "line") /\ harm' = HarmAfter(l, "line")
      /\ loggers[l].open /\ n < MaxLines /\ loggers' = [loggers EXCEPT ![l] = g]
      /\ durable' = (IF Fsync THEN Len(lines') ELSE durable)
      /\ acked' = acked \cup {r.hash}
  BY DEF RecordDecision, Outcomes
<1>3. r.seq \in Nat /\ LineShape(r) /\ r.kind = "chained"
  <2>1. loggers[l].seq \in Nat
    BY LoggerShapeFacts DEF LogInv, Shape
  <2> QED BY <2>1, ChainedShape DEF NextRecord, Chained
<1>4. LoggerShape(g)
  BY <1>3 DEF LoggerShape
<1>5. /\ Shape' /\ SameUpTo(lines, lines', n)
      /\ harm # 0 => harm' # 0 /\ harm' <= harm
  BY <1>2, <1>4, WriteShape DEF LogInv
<1>6. Exact'
  BY <1>2, WriteExact DEF LogInv
<1>7. Secured'
  <2> SUFFICES ASSUME Fsync, harm' = 0 \/ harm' > durable', NEW h \in acked'
               PROVE  HashOnDisk(h)'
    BY DEF Secured
  <2>1. lines' = Append(lines, Joined(r))
    BY <1>2 DEF Written
  <2>2. durable' = n + 1 /\ lines'[n + 1] = Joined(r)
    BY <1>1, <1>2, <2>1, AppendToLog
  <2>3. harm' = 0 /\ harm = 0 /\ ~Spoils(l, "line")
    BY <1>1, <1>2, <2>2, LeastOfHarm DEF HarmAfter
  <2>4. lines'[n + 1] = r
    BY <2>2, <2>3 DEF Spoils, Joined
  <2>5. CASE h \in acked
    <3>1. PICK i \in 1 .. durable : lines[i].kind = "chained" /\ lines[i].hash = h
      BY <2>3, <2>5 DEF LogInv, Secured, HashOnDisk
    <3>2. i \in 1 .. n /\ i \in 1 .. durable'
      BY <1>1, <2>2
    <3> QED BY <1>5, <3>1, <3>2 DEF SameUpTo, HashOnDisk
  <2>6. CASE h = r.hash
    <3>1. n + 1 \in 1 .. durable'
      BY <1>1, <2>2
    <3> QED BY <1>3, <2>4, <2>6, <3>1 DEF HashOnDisk
  <2> QED BY <1>2, <2>5, <2>6
<1> QED BY <1>5, <1>6, <1>7 DEF LogInv

(* A call that raises or is killed acknowledges nothing.                   *)
LEMMA BrokenOffWriteKeeps ==
  ASSUME LogInv, NEW l \in Loggers, NEW b, NEW w \in Outcomes,
         loggers[l].open, Len(lines) < MaxLines,
         Written(NextRecord(l, b), w), harm' = HarmAfter(l, w),
         NEW g, LoggerShape(g), loggers' = [loggers EXCEPT ![l] = g],
         durable' = durable, acked' = acked
  PROVE  LogInv'
<1>1. Len(lines) \in Nat /\ durable \in 0 .. Len(lines) /\ harm \in 0 .. Len(lines) + 1
  BY LogLength DEF LogInv, Shape
<1>2. durable' \in {durable, Len(lines')}
  OBVIOUS
<1>3. /\ Shape' /\ SameUpTo(lines, lines', Len(lines))
      /\ harm # 0 => harm' # 0 /\ harm' <= harm
  BY <1>2, WriteShape DEF LogInv
<1>4. Exact'
  BY WriteExact DEF LogInv
<1>5. Secured'
  <2>1. SameUpTo(lines, lines', durable)
    BY <1>1, <1>3 DEF SameUpTo
  <2>2. harm' \in Nat
    BY <1>3, LogLength DEF Shape
  <2>3. harm' = 0 \/ harm' > durable => harm = 0 \/ harm > durable
    BY <1>1, <1>3, <2>2
  <2> QED BY <2>1, <2>3, KeptHashes DEF LogInv
<1> QED BY <1>3, <1>4, <1>5 DEF LogInv

LEMMA RecordFailsKeeps ==
  ASSUME LogInv, NEW l \in Loggers, NEW b, RecordFails(l, b)
  PROVE  LogInv'
<1>1. PICK w \in Outcomes : Written(NextRecord(l, b), w) /\ harm' = HarmAfter(l, w)
  BY LogConstantsAssumption DEF RecordFails
<1>2. /\ loggers[l].open /\ Len(lines) < MaxLines
      /\ durable' = durable /\ acked' = acked
      /\ loggers' = [loggers EXCEPT ![l] = Opened(@.seq + 1, @.prev)]
  BY DEF RecordFails
<1> DEFINE g == Opened(loggers[l].seq + 1, loggers[l].prev)
<1>3. loggers[l].seq \in Nat
  BY LoggerShapeFacts DEF LogInv, Shape
<1>4. LoggerShape(g)
  BY <1>3 DEF LoggerShape
<1>5. loggers' = [loggers EXCEPT ![l] = g]
  BY <1>2
<1> QED BY <1>1, <1>2, <1>4, <1>5, BrokenOffWriteKeeps

LEMMA RecordKilledKeeps ==
  ASSUME LogInv, NEW l \in Loggers, NEW b, RecordKilled(l, b)
  PROVE  LogInv'
<1>1. PICK w \in Outcomes : Written(NextRecord(l, b), w) /\ harm' = HarmAfter(l, w)
  BY LogConstantsAssumption DEF RecordKilled
<1>2. /\ loggers[l].open /\ Len(lines) < MaxLines
      /\ durable' = durable /\ acked' = acked
      /\ loggers' = [loggers EXCEPT ![l] = Closed]
  BY DEF RecordKilled
<1>3. LoggerShape(Closed)
  BY DEF LoggerShape
<1> QED BY <1>1, <1>2, <1>3, BrokenOffWriteKeeps

(* A power loss keeps n lines, and a rest.                                 *)
LEMMA PowerLossKeeps ==
  ASSUME LogInv, PowerLoss
  PROVE  LogInv'
<1>1. /\ Len(lines) \in Nat /\ harm \in 0 .. Len(lines) + 1
      /\ durable \in 0 .. Len(lines) /\ MaxLines \in Nat /\ LegacyLines \in Nat
      /\ IsLog(lines) /\ IsLog(Content) /\ Len(Content) \in Len(lines) .. Len(lines) + 1
      /\ SameUpTo(lines, Content, Len(lines))
  BY LogLength, ContentFacts, LogConstantsAssumption DEF LogInv, Shape
<1>2. PICK n \in durable .. Len(lines) :
        /\ lines' = SubSeq(lines, 1, n)
        /\ \/ tail' = NoLine /\ harm' = HarmWithin(n)
           \/ /\ n < Len(Content)
              /\ tail' = Junk /\ harm' = Least(HarmWithin(n), n + 1)
           \/ /\ n < Len(Content)
              /\ tail' = Content[n + 1] /\ harm' = HarmWithin(n + 1)
  BY DEF PowerLoss
<1>3. n \in 0 .. Len(lines) /\ n \in Nat
  BY <1>1
<1>4. IsLog(lines') /\ Len(lines') = n /\ SameUpTo(lines, lines', n)
  BY <1>1, <1>2, <1>3, CutLog
<1>5. durable' = durable /\ acked' = acked /\ loggers' = [l \in Loggers |-> Closed]
  BY DEF PowerLoss
<1>6. tail' = NoLine \/ LineShape(tail')
  <2>1. n < Len(Content) => n + 1 \in 1 .. Len(Content)
    BY <1>1, <1>3
  <2> QED BY <1>2, <2>1, ContentFacts DEF LogInv, LineShape
<1>7. /\ HarmWithin(n) \in 0 .. n /\ HarmWithin(n + 1) \in 0 .. n + 1
      /\ harm \in 1 .. n => HarmWithin(n) = harm /\ HarmWithin(n + 1) = harm
      /\ harm \in 1 .. n => Least(HarmWithin(n), n + 1) = harm
      /\ Least(HarmWithin(n), n + 1) \in 0 .. n + 1
  BY <1>1, <1>3 DEF HarmWithin, Least
<1>8. harm' \in 0 .. n + 1 /\ (harm \in 1 .. n => harm' = harm)
  BY <1>2, <1>3, <1>7
<1>9. Shape'
  <2>1. \A i \in 1 .. Len(lines') : LineShape(lines'[i])
    BY <1>1, <1>3, <1>4 DEF LogInv, Shape, SameUpTo
  <2>2. /\ loggers' = [l \in Loggers |-> loggers'[l]]
        /\ \A l \in Loggers : LoggerShape(loggers'[l])
    BY <1>5 DEF LoggerShape
  <2>3. Len(lines') <= MaxLines + LegacyLines /\ durable' \in 0 .. Len(lines')
    BY <1>1, <1>3, <1>4, <1>5 DEF LogInv, Shape
  <2> QED BY <1>4, <1>6, <1>8, <2>1, <2>2, <2>3 DEF Shape
<1>10. Secured'
  <2>1. SameUpTo(lines, lines', durable)
    BY <1>1, <1>3, <1>4 DEF SameUpTo
  <2>2. harm' = 0 \/ harm' > durable => harm = 0 \/ harm > durable
    BY <1>1, <1>3, <1>8
  <2> QED BY <1>5, <2>1, <2>2, KeptHashes DEF LogInv
<1>11. ASSUME LegacyLines = 0 PROVE ExactAt(Content', harm')
  <2>1. ExactAt(Content, harm)
    BY <1>11 DEF LogInv, Exact
  <2>2. SameUpTo(Content, lines', n)
    BY <1>1, <1>3, <1>4 DEF SameUpTo
  <2>3. CASE tail' = NoLine
    <3>1. Content' = lines' /\ harm' = HarmWithin(n)
      <4>1. Junk # NoLine
        BY DEF Junk, NoLine
      <4>2. n < Len(Content) => Content[n + 1] # NoLine
        <5>1. n < Len(Content) => n + 1 \in 1 .. Len(Content)
          BY <1>1, <1>3
        <5> QED BY <5>1, ContentFacts, LineShapeFacts DEF LogInv
      <4> QED BY <1>2, <2>3, <4>1, <4>2 DEF Content
    <3>2. Len(lines') <= Len(Content)
      BY <1>1, <1>3, <1>4
    <3> QED BY <1>1, <1>4, <2>1, <2>2, <3>1, <3>2, CutExact DEF HarmWithin
  <2>4. CASE tail' # NoLine
    <3>1. Content' = Append(lines', tail') /\ n < Len(Content)
      BY <1>2, <2>4 DEF Content
    <3>2. /\ IsLog(Content') /\ Len(Content') = n + 1
          /\ SameUpTo(lines', Content', n) /\ Content'[n + 1] = tail'
      BY <1>4, <3>1, AppendToLog
    <3>3. SameUpTo(Content, Content', n)
      BY <2>2, <3>2 DEF SameUpTo
    <3>4. CASE tail' = Junk /\ harm' = Least(HarmWithin(n), n + 1)
      <4>1. ~LineOK(Content', n + 1)
        BY <3>2, <3>4 DEF LineOK, Junk
      <4>2. n \in 0 .. Len(Content) /\ Len(Content') >= n + 1
        BY <1>1, <1>3, <3>2
      <4> QED BY <1>1, <2>1, <3>2, <3>3, <3>4, <4>1, <4>2, BreakExact DEF HarmWithin
    <3>5. CASE tail' = Content[n + 1] /\ harm' = HarmWithin(n + 1)
      <4>1. SameUpTo(Content, Content', n + 1)
        <5>1. \A i \in 1 .. n + 1 : i \in 1 .. n \/ i = n + 1
          BY <1>3
        <5> QED BY <3>2, <3>3, <3>5, <5>1 DEF SameUpTo
      <4>2. Len(Content') <= Len(Content)
        BY <1>1, <1>3, <3>1, <3>2
      <4> QED BY <1>1, <2>1, <3>2, <3>5, <4>1, <4>2, CutExact DEF HarmWithin
    <3> QED BY <1>2, <2>4, <3>4, <3>5
  <2> QED BY <2>3, <2>4
<1> QED BY <1>9, <1>10, <1>11 DEF LogInv, Exact

-----------------------------------------------------------------------------
(* A change of the file that spoils line i and keeps the lines before it.  *)
LEMMA TamperKeeps ==
  ASSUME LogInv, NEW i \in 1 .. Len(lines), Tamper(i),
         IsLog(lines'), Len(lines') \in i .. Len(lines),
         SameUpTo(lines, lines', i - 1),
         \A k \in 1 .. Len(lines') : LineShape(lines'[k]),
         LegacyLines = 0 => ~LineOK(lines', i)
  PROVE  LogInv'
<1>1. /\ Len(lines) \in Nat /\ Len(lines') \in Nat /\ IsLog(lines)
      /\ MaxLines \in Nat /\ LegacyLines \in Nat
  BY LogLength, LogConstantsAssumption DEF LogInv, Shape
<1>2. /\ harm = 0 /\ harm' = i /\ durable' = Len(lines')
      /\ tail' = tail /\ acked' = acked /\ loggers' = loggers
  BY DEF Tamper, Least
<1>3. Shape'
  BY <1>1, <1>2 DEF LogInv, Shape
<1>4. Secured'
  BY <1>1, <1>2 DEF Secured
<1>5. ASSUME LegacyLines = 0 PROVE ExactAt(Content', harm')
  <2>1. ExactAt(Content, 0)
    BY <1>2, <1>5 DEF LogInv, Exact
  <2>2. /\ IsLog(Content) /\ SameUpTo(lines, Content, Len(lines))
        /\ Len(Content) \in Nat /\ Len(Content) >= Len(lines)
    BY <1>1, ContentFacts DEF LogInv
  <2>3. /\ IsLog(Content') /\ SameUpTo(lines', Content', Len(lines'))
        /\ Len(Content') >= Len(lines')
    <3>1. CASE tail' = NoLine
      BY <1>1, <3>1 DEF Content, SameUpTo
    <3>2. CASE tail' # NoLine
      BY <1>1, <3>2, AppendToLog DEF Content
    <3> QED BY <3>1, <3>2
  <2>4. SameUpTo(Content, Content', i - 1)
    BY <1>1, <2>2, <2>3 DEF SameUpTo
  <2>5. ~LineOK(Content', i)
    BY <1>1, <1>5, <2>3, LineOKIsLocal, SameIsSymmetric
  <2>6. i - 1 \in 0 .. Len(Content) /\ Len(Content') >= (i - 1) + 1 /\ (i - 1) + 1 = i
    BY <1>1, <2>2, <2>3, LogLength
  <2>7. ExactAt(Content', Least(IF 0 > i - 1 THEN 0 ELSE 0, (i - 1) + 1))
    BY <2>1, <2>2, <2>3, <2>4, <2>5, <2>6, BreakExact
  <2> QED BY <1>1, <1>2, <2>6, <2>7 DEF Least
<1> QED BY <1>3, <1>4, <1>5 DEF LogInv, Exact

(* In an unharmed log every line is sound.                                 *)
LEMMA UnharmedLines ==
  ASSUME LogInv, LegacyLines = 0, harm = 0, NEW i \in 1 .. Len(lines)
  PROVE  LineOK(lines, i)
<1>1. Len(lines) \in Nat /\ IsLog(Content) /\ Len(Content) >= Len(lines)
  BY LogLength, ContentFacts DEF LogInv, Shape
<1>2. SameUpTo(Content, lines, Len(lines))
  BY ContentFacts, SameIsSymmetric DEF LogInv
<1>3. i \in 1 .. Len(Content)
  BY <1>1, LogLength
<1>4. LineOK(Content, i)
  BY <1>3 DEF LogInv, Exact, ExactAt
<1> QED BY <1>1, <1>2, <1>4, LineOKIsLocal

LEMMA EditLineKeeps ==
  ASSUME LogInv, NEW i \in DOMAIN lines, NEW b, EditLine(i, b)
  PROVE  LogInv'
<1>1. /\ i \in 1 .. Len(lines) /\ Len(lines) \in Nat /\ IsLog(lines)
      /\ DOMAIN lines = 1 .. Len(lines)
  BY LogLength DEF LogInv, Shape
<1>0. PICK s \in Nat : \E p, c, h : lines[i] = Record(s, p, c, h)
  BY <1>1, LineShapeFacts DEF EditLine, LogInv, Shape
<1>2. PICK p, c, h : lines[i] = Record(s, p, c, h)
  BY <1>0
<1>3. b # c /\ lines' = [lines EXCEPT ![i] = Record(s, p, b, h)]
  <2>1. lines[i].payload = c /\ [lines[i] EXCEPT !.payload = b] = Record(s, p, b, h)
    BY <1>2 DEF Record
  <2> QED BY <2>1 DEF EditLine
<1>4. /\ IsLog(lines') /\ Len(lines') = Len(lines)
      /\ lines'[i] = Record(s, p, b, h)
      /\ \A k \in 1 .. Len(lines) : k # i => lines'[k] = lines[k]
  <2>1. lines' = [k \in DOMAIN lines |-> lines'[k]]
    BY <1>3
  <2> QED BY <1>1, <1>3, <2>1, RewriteLog
<1>5. SameUpTo(lines, lines', i - 1) /\ Len(lines') \in i .. Len(lines)
  BY <1>1, <1>4 DEF SameUpTo
<1>6. \A k \in 1 .. Len(lines') : LineShape(lines'[k])
  BY <1>1, <1>4 DEF LineShape, LogInv, Shape
<1>7. ASSUME LegacyLines = 0 PROVE ~LineOK(lines', i)
  <2>1. LineOK(lines, i)
    BY <1>1, <1>7, UnharmedLines DEF EditLine, Tamper
  <2>2. h = Hash(s, p, c)
    BY <1>2, <2>1 DEF LineOK, Record
  <2>3. Hash(s, p, c) # Hash(s, p, b)
    <3>1. Hash(s, p, c).payload = c /\ Hash(s, p, b).payload = b
      BY DEF Hash
    <3> QED BY <1>3, <3>1
  <2> QED BY <1>4, <2>2, <2>3 DEF LineOK, Record
<1> QED BY <1>1, <1>4, <1>5, <1>6, <1>7, TamperKeeps DEF EditLine

(* A sound line is not sound at any other place.                           *)
LEMMA MovedLineBreaks ==
  ASSUME LogInv, LegacyLines = 0, harm = 0, NEW i \in 1 .. Len(lines),
         NEW j \in 1 .. Len(lines), i # j, NEW M, M[i] = lines[j]
  PROVE  ~LineOK(M, i)
<1>1. lines[j].seq = j
  BY UnharmedLines DEF LineOK
<1> QED BY <1>1 DEF LineOK

LEMMA DeleteLineKeeps ==
  ASSUME LogInv, NEW i \in DOMAIN lines, DeleteLine(i)
  PROVE  LogInv'
<1>1. /\ i \in 1 .. Len(lines) /\ Len(lines) \in Nat /\ IsLog(lines)
      /\ i < Len(lines)
  BY LogLength DEF LogInv, Shape, DeleteLine
<1>2. /\ IsLog(lines') /\ Len(lines') = Len(lines) - 1
      /\ SameUpTo(lines, lines', i - 1)
      /\ \A k \in i .. Len(lines) - 1 : lines'[k] = lines[k + 1]
  BY <1>1, DeleteFromLog DEF DeleteLine
<1>3. Len(lines') \in i .. Len(lines)
  BY <1>1, <1>2
<1>4. ASSUME NEW k \in 1 .. Len(lines') PROVE LineShape(lines'[k])
  <2>1. CASE k \in 1 .. i - 1
    BY <1>1, <1>2, <2>1 DEF SameUpTo, LogInv, Shape
  <2>2. CASE k \in i .. Len(lines) - 1
    <3>1. k + 1 \in 1 .. Len(lines)
      BY <1>1, <2>2
    <3> QED BY <1>2, <2>2, <3>1 DEF LogInv, Shape
  <2> QED BY <1>1, <1>2, <2>1, <2>2
<1>5. ASSUME LegacyLines = 0 PROVE ~LineOK(lines', i)
  <2>1. i + 1 \in 1 .. Len(lines) /\ i # i + 1 /\ lines'[i] = lines[i + 1]
    BY <1>1, <1>2
  <2> QED BY <1>1, <1>5, <2>1, MovedLineBreaks DEF DeleteLine, Tamper
<1> QED BY <1>1, <1>2, <1>3, <1>4, <1>5, TamperKeeps DEF DeleteLine

LEMMA SwapLinesKeeps ==
  ASSUME LogInv, NEW i \in DOMAIN lines, NEW j \in DOMAIN lines, SwapLines(i, j)
  PROVE  LogInv'
<1>1. /\ i \in 1 .. Len(lines) /\ j \in 1 .. Len(lines) /\ Len(lines) \in Nat
      /\ IsLog(lines) /\ DOMAIN lines = 1 .. Len(lines)
  BY LogLength DEF LogInv, Shape
<1>2. i < j /\ lines' = [lines EXCEPT ![i] = lines[j], ![j] = lines[i]]
  BY DEF SwapLines
<1>3. /\ IsLog(lines') /\ Len(lines') = Len(lines)
      /\ lines'[i] = lines[j] /\ lines'[j] = lines[i]
      /\ \A k \in 1 .. Len(lines) : k # i /\ k # j => lines'[k] = lines[k]
  <2>1. lines' = [k \in DOMAIN lines |-> lines'[k]]
    BY <1>2
  <2> QED BY <1>1, <1>2, <2>1, RewriteLog
<1>4. SameUpTo(lines, lines', i - 1) /\ Len(lines') \in i .. Len(lines)
  BY <1>1, <1>2, <1>3 DEF SameUpTo
<1>5. \A k \in 1 .. Len(lines') : LineShape(lines'[k])
  BY <1>1, <1>3 DEF LogInv, Shape
<1>6. LegacyLines = 0 => ~LineOK(lines', i)
  <2>1. i # j /\ harm = 0
    BY <1>1, <1>2 DEF SwapLines, Tamper
  <2> QED BY <1>1, <1>3, <2>1, MovedLineBreaks
<1> QED BY <1>1, <1>3, <1>4, <1>5, <1>6, TamperKeeps DEF SwapLines

LEMMA LogInvHolds == LogSpec => []LogInv
<1>1. LogInv /\ [LogNext]_logVars => LogInv'
  <2> SUFFICES ASSUME LogInv, [LogNext]_logVars PROVE LogInv'
    OBVIOUS
  <2>1. ASSUME NEW l \in Loggers, Open(l) \/ Exit(l)
        PROVE  LogInv'
    BY <2>1, OpenKeeps
  <2>2. ASSUME NEW l \in Loggers, NEW b \in Payloads, RecordDecision(l, b)
        PROVE  LogInv'
    BY <2>2, RecordDecisionKeeps
  <2>3. ASSUME NEW l \in Loggers, NEW b \in Payloads, RecordFails(l, b)
        PROVE  LogInv'
    BY <2>3, RecordFailsKeeps
  <2>4. ASSUME NEW l \in Loggers, NEW b \in Payloads, RecordKilled(l, b)
        PROVE  LogInv'
    BY <2>4, RecordKilledKeeps
  <2>5. CASE PowerLoss
    BY <2>5, PowerLossKeeps
  <2>6. ASSUME NEW i \in DOMAIN lines, DeleteLine(i)
        PROVE  LogInv'
    BY <2>6, DeleteLineKeeps
  <2>7. ASSUME NEW i \in DOMAIN lines, NEW b \in Payloads, EditLine(i, b)
        PROVE  LogInv'
    BY <2>7, EditLineKeeps
  <2>8. ASSUME NEW i \in DOMAIN lines, NEW j \in DOMAIN lines, SwapLines(i, j)
        PROVE  LogInv'
    BY <2>8, SwapLinesKeeps
  <2>9. CASE UNCHANGED logVars
    <3>1. UNCHANGED <<lines, tail, durable, acked, harm>> /\ loggers' = loggers
      BY <2>9 DEF logVars
    <3> QED BY <3>1, LoggersOnlyKeep DEF LogInv, Shape
  <2> QED BY <2>1, <2>2, <2>3, <2>4, <2>5, <2>6, <2>7, <2>8, <2>9 DEF LogNext
<1> QED BY <1>1, LogInitOK, PTL DEF LogSpec

-----------------------------------------------------------------------------
(* Lines, tail and loggers always have the values their code can give      *)
(* them; in particular a logger that resumes any log, harmed or not, takes *)
(* over a number.                                                          *)
THEOREM LogTypeCorrect == LogSpec => []LogTypeOK
<1>1. LogInv => LogTypeOK
  <2> SUFFICES ASSUME LogInv PROVE LogTypeOK
    OBVIOUS
  <2>1. /\ Len(lines) \in Nat /\ DOMAIN lines = 1 .. Len(lines)
        /\ Len(lines) <= MaxLines + LegacyLines
        /\ durable \in 0 .. Len(lines) /\ harm \in Nat
    BY LogLength DEF LogInv, Shape
  <2>2. \A i \in DOMAIN lines : lines[i].kind \in {"chained", "legacy", "junk"}
    BY <2>1, LineShapeFacts DEF LogInv, Shape
  <2>3. tail.kind \in {"chained", "legacy", "junk", "none"}
    BY LineShapeFacts DEF LogInv, Shape, NoLine
  <2>4. \A l \in Loggers : loggers[l].open \in BOOLEAN /\ loggers[l].seq \in Nat
    BY LoggerShapeFacts DEF LogInv, Shape
  <2> QED BY <2>1, <2>2, <2>3, <2>4 DEF LogTypeOK
<1> QED BY <1>1, LogInvHolds, PTL

(* What verify_chain() returns is decided by the first line that does not  *)
(* continue the chain.                                                     *)
LEMMA ExactVerdict ==
  ASSUME NEW L, IsLog(L), NEW h, ExactAt(L, h)
  PROVE  /\ h = 0 => VerifyChain(L) = ChainIntact
         /\ h # 0 => VerifyChain(L) =
                       IF L[h].kind = "junk" THEN Undecodable ELSE BadAt(h)
<1>1. Len(L) \in Nat /\ DOMAIN L = 1 .. Len(L) /\ h \in 0 .. Len(L)
  BY LogLength DEF ExactAt
<1>2. ASSUME h = 0 PROVE Broken(L) = {}
  BY <1>1, <1>2 DEF Broken, ExactAt
<1>3. ASSUME h # 0 PROVE h \in Broken(L) /\ FirstBroken(L) = h
  <2>1. h \in Broken(L)
    BY <1>1, <1>3 DEF Broken, ExactAt
  <2>2. ASSUME NEW j \in Broken(L) PROVE j \in Nat /\ h <= j
    <3>1. j \in 1 .. Len(L) /\ ~LineOK(L, j)
      BY <1>1 DEF Broken
    <3> QED BY <1>1, <3>1 DEF ExactAt
  <2>3. ASSUME NEW i \in Broken(L), \A j \in Broken(L) : i <= j PROVE i = h
    BY <1>1, <2>1, <2>2, <2>3
  <2> QED BY <2>1, <2>2, <2>3 DEF FirstBroken
<1>4. h # 0 => Broken(L) # {}
  BY <1>3
<1> QED BY <1>2, <1>3, <1>4 DEF VerifyChain

(* Without lines of the old format, a log that nothing has spoilt          *)
(* verifies, after any calls that raised, kills, power losses and          *)
(* restarts.                                                               *)
THEOREM UnharmedLogVerifies == LegacyLines = 0 => (LogSpec => []UnharmedVerifies)
<1> SUFFICES ASSUME LegacyLines = 0 PROVE LogSpec => []UnharmedVerifies
  OBVIOUS
<1>1. LogInv => UnharmedVerifies
  <2> SUFFICES ASSUME LogInv, harm = 0
               PROVE  VerifyChain(Content) = ChainIntact
    BY DEF UnharmedVerifies, Intact
  <2>1. IsLog(Content) /\ ExactAt(Content, harm)
    BY ContentFacts DEF LogInv, Exact
  <2> QED BY <2>1, ExactVerdict
<1> QED BY <1>1, LogInvHolds, PTL

(* Without lines of the old format, the first line at which anything went  *)
(* wrong (a change from outside, half a record, a record behind an         *)
(* unterminated one, or a record by a logger with a stale tail) decides    *)
(* what verify_chain() does: it returns the number of that line, or raises *)
(* if the line is no JSON; later appends by whoever resumes the log never  *)
(* cover it up.                                                            *)
THEOREM HarmDecidesVerdict == LegacyLines = 0 => (LogSpec => []HarmDecides)
<1> SUFFICES ASSUME LegacyLines = 0 PROVE LogSpec => []HarmDecides
  OBVIOUS
<1>1. LogInv => HarmDecides
  <2>1. LogInv => IsLog(Content) /\ ExactAt(Content, harm)
    BY ContentFacts DEF LogInv, Exact
  <2> QED BY <2>1, ExactVerdict DEF HarmDecides
<1> QED BY <1>1, LogInvHolds, PTL

(* With fsync, and as long as nothing harmed the log, every hash that      *)
(* record_decision returned is in it, after kills and power losses too.    *)
THEOREM AckedStaysDurable == LogSpec => []AckedIsDurable
<1>1. LogInv => AckedIsDurable
  <2> SUFFICES ASSUME LogInv, Fsync, harm = 0, NEW h \in acked
               PROVE  h \in Hashes
    BY DEF AckedIsDurable
  <2>1. PICK i \in 1 .. durable : lines[i].kind = "chained" /\ lines[i].hash = h
    BY DEF LogInv, Secured, HashOnDisk
  <2>2. i \in DOMAIN lines
    BY LogLength DEF LogInv, Shape
  <2> QED BY <2>1, <2>2 DEF Hashes, ChainedLines
<1> QED BY <1>1, LogInvHolds, PTL

-----------------------------------------------------------------------------
(* What the chain binds: a reader who knows only the number and the hash   *)
(* of the last record of an intact log knows all its records.  Nobody can  *)
(* put another intact log of as many lines with the same last hash in its  *)
(* place.                                                                  *)
THEOREM ChainBinds ==
  ASSUME NEW L, NEW M, NEW n \in Nat, LogOK(L, n), LogOK(M, n),
         StoredHash(L, n) = StoredHash(M, n)
  PROVE  \A i \in 1 .. n : L[i].hash = M[i].hash /\ L[i].payload = M[i].payload
<1> DEFINE Alike(i) == StoredHash(L, i) = StoredHash(M, i)
           T == {k \in Nat : k <= n /\ ~Alike(n - k)}
<1>1. ASSUME NEW i \in 1 .. n, Alike(i)
      PROVE  /\ Alike(i - 1)
             /\ L[i].hash = M[i].hash /\ L[i].payload = M[i].payload
  <2>1. LineOK(L, i) /\ LineOK(M, i)
    BY DEF LogOK
  <2>2. L[i].hash = M[i].hash
    <3>1. StoredHash(L, i) = L[i].hash
      BY <2>1 DEF StoredHash, LineOK
    <3>2. StoredHash(M, i) = M[i].hash
      BY <2>1 DEF StoredHash, LineOK
    <3> QED BY <1>1, <3>1, <3>2
  <2>3. Hash(L[i].seq, L[i].prev, L[i].payload) = Hash(M[i].seq, M[i].prev, M[i].payload)
    BY <2>1, <2>2 DEF LineOK
  <2>4. L[i].prev = M[i].prev /\ L[i].payload = M[i].payload
    <3>1. \A s, p, b : Hash(s, p, b).prev = p /\ Hash(s, p, b).payload = b
      BY DEF Hash
    <3> HIDE DEF Alike
    <3> QED BY <2>3, <3>1
  <2> QED BY <2>1, <2>2, <2>4 DEF LineOK
<1>2. T = {}
  <2> SUFFICES ASSUME T # {} PROVE FALSE
    OBVIOUS
  <2>1. T \subseteq Nat
    OBVIOUS
  <2>2. PICK k \in T : \A j \in T : <<j, k>> \notin OpToRel(<, Nat)
    BY <2>1, WFMin, NatLessThanWellFounded, Zenon
  <2>3. k \in Nat /\ k <= n /\ ~Alike(n - k)
    OBVIOUS
  <2>4. k # 0
    BY <2>3
  <2> HIDE DEF Alike
  <2>5. k - 1 \in Nat /\ k - 1 <= n /\ k - 1 < k /\ n - (k - 1) \in 1 .. n
        /\ (n - (k - 1)) - 1 = n - k
    BY <2>3, <2>4
  <2>6. k - 1 \notin T
    BY <2>2, <2>3, <2>5 DEF OpToRel
  <2>7. Alike(n - (k - 1))
    BY <2>5, <2>6
  <2>8. Alike((n - (k - 1)) - 1)
    BY <1>1, <2>5, <2>7
  <2> QED BY <2>3, <2>5, <2>8
<1>3. ASSUME NEW i \in 1 .. n PROVE Alike(i)
  <2> HIDE DEF Alike
  <2>1. n - i \in Nat /\ n - i <= n /\ n - (n - i) = i
    OBVIOUS
  <2>2. n - i \notin T
    BY <1>2
  <2> QED BY <2>1, <2>2
<1> HIDE DEF Alike
<1> QED BY <1>1, <1>3
=============================================================================
