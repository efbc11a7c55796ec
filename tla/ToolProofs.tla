----------------------------- MODULE ToolProofs -----------------------------
(***************************************************************************)
(* The smaller programs, for inputs of any size: the player feeds every    *)
(* edge once, the test runner runs every case as documented, the           *)
(* formatters log every bit.                                               *)
(***************************************************************************)
EXTENDS LogProofs, FiniteSetTheorems

-----------------------------------------------------------------------------
(* The player.                                                             *)

PlayerFields == {"tms", "curBits", "lastTckSample", "samples", "processed"}

PlayerTypes ==
  /\ DOMAIN mem = PlayerFields
  /\ tms \in [0..(MaxBits - 1) -> BOOLEAN]
  /\ curBits \in 0..(MaxBits - 2)
  /\ mem.samples \in Seq(Samples)
  /\ mem.processed \in Seq(BOOLEAN)

(* The last level of TCK; before the first sample it counts as high.       *)
TckSeen == IF mem.samples = <<>> THEN lastTckSample = TRUE ELSE lastTckSample = Last(mem.samples).tck

(* fed is the level of TMS at the rising edges of the samples s.           *)
FeedsEdgesOf(fed, s) ==
  /\ Len(fed) = Cardinality(Rising(s))
  /\ \A i \in Rising(s) : fed[Ordinal(s, i)] = s[i].tms

PlayerInv == prog = "player" => PlayerTypes /\ TckSeen /\ FeedsEdgesOf(Fed, mem.samples)

(* The edges of the samples and one more.                                  *)
LEMMA RisingAppend ==
  ASSUME NEW s \in Seq(Samples), NEW x \in Samples
  PROVE  Rising(Append(s, x)) =
           IF s # <<>> /\ ~Last(s).tck /\ x.tck THEN Rising(s) \cup {Len(s) + 1} ELSE Rising(s)
<1> DEFINE n == Len(s)
           t == Append(s, x)
<1>1. n \in Nat /\ Len(t) = n + 1 /\ t[n + 1] = x /\ \A i \in 1..n : t[i] = s[i]
  OBVIOUS
<1>2. s # <<>> <=> n >= 1
  OBVIOUS
<1>3. Last(s) = s[n]
  BY DEF Last
<1> HIDE DEF n, t
<1>4. ASSUME NEW i \in 2..n PROVE i \in Rising(t) <=> i \in Rising(s)
  <2>1. i \in 1..n /\ i - 1 \in 1..n /\ i \in 2..(n + 1)
    BY <1>1
  <2>2. t[i] = s[i] /\ t[i - 1] = s[i - 1]
    BY <1>1, <2>1
  <2> QED BY <1>1, <2>1, <2>2 DEF Rising, n
<1>5. n + 1 \in Rising(t) <=> n >= 1 /\ x.tck /\ ~s[n].tck
  <2>1. n + 1 \in 2..(n + 1) <=> n >= 1
    BY <1>1
  <2>2. n >= 1 => t[(n + 1) - 1] = s[n]
    BY <1>1
  <2> QED BY <1>1, <2>1, <2>2 DEF Rising
<1>6. Rising(t) \subseteq 2..(n + 1) /\ Rising(s) \subseteq 2..n
  BY <1>1 DEF Rising, n
<1>7. \A i \in 2..(n + 1) : i \in 2..n \/ i = n + 1
  BY <1>1
<1>8. ASSUME NEW i PROVE i \in Rising(t) <=> i \in Rising(s) \/ (i = n + 1 /\ n + 1 \in Rising(t))
  BY <1>1, <1>4, <1>6, <1>7
<1> QED BY <1>2, <1>3, <1>5, <1>8 DEF n, t

LEMMA RisingFinite ==
  ASSUME NEW s \in Seq(Samples)
  PROVE  IsFiniteSet(Rising(s)) /\ Cardinality(Rising(s)) \in Nat /\ \A i \in Rising(s) : i \in 2..Len(s)
<1>1. Rising(s) \in SUBSET (2..Len(s))
  BY DEF Rising
<1>2. IsFiniteSet(2..Len(s))
  BY FS_Interval
<1>3. IsFiniteSet(Rising(s))
  BY <1>1, <1>2, FS_Subset
<1> QED BY <1>1, <1>3, FS_CardinalityType

LEMMA OrdinalIsIndex ==
  ASSUME NEW s \in Seq(Samples), NEW i \in Rising(s)
  PROVE  Ordinal(s, i) \in 1..Cardinality(Rising(s))
<1> DEFINE T == {j \in Rising(s) : j <= i}
<1>1. IsFiniteSet(T) /\ Cardinality(T) \in Nat /\ Cardinality(T) <= Cardinality(Rising(s))
  <2>1. T \in SUBSET Rising(s)
    OBVIOUS
  <2> HIDE DEF T
  <2> QED BY <2>1, RisingFinite, FS_Subset, FS_CardinalityType
<1>2. i \in T
  BY RisingFinite
<1> HIDE DEF T
<1>3. Cardinality(T) # 0
  BY <1>1, <1>2, FS_EmptySet
<1> QED BY <1>1, <1>3, RisingFinite DEF Ordinal, T

(* One more sample without an edge, and with one.                          *)
LEMMA NoEdge ==
  ASSUME NEW s \in Seq(Samples), NEW x \in Samples, NEW fed,
         FeedsEdgesOf(fed, s), ~(s # <<>> /\ ~Last(s).tck /\ x.tck)
  PROVE  FeedsEdgesOf(fed, Append(s, x))
<1>1. Rising(Append(s, x)) = Rising(s)
  BY RisingAppend
<1>2. \A i \in Rising(s) : Append(s, x)[i] = s[i]
  BY RisingFinite
<1>3. \A i \in Rising(s) : Ordinal(Append(s, x), i) = Ordinal(s, i)
  BY <1>1 DEF Ordinal
<1> QED BY <1>1, <1>2, <1>3 DEF FeedsEdgesOf

LEMMA OneEdge ==
  ASSUME NEW s \in Seq(Samples), NEW x \in Samples, NEW fed \in Seq(BOOLEAN),
         FeedsEdgesOf(fed, s), s # <<>> /\ ~Last(s).tck /\ x.tck
  PROVE  FeedsEdgesOf(Append(fed, x.tms), Append(s, x))
<1> DEFINE t == Append(s, x)
           R == Rising(s)
           c == Cardinality(R)
           n == Len(s) + 1
<1>1. Rising(t) = R \cup {n}
  BY RisingAppend
<1>2. IsFiniteSet(R) /\ c \in Nat /\ n \notin R /\ \A i \in R : i < n /\ t[i] = s[i]
  BY RisingFinite
<1>3. Cardinality(R \cup {n}) = c + 1
  <2> HIDE DEF R, n
  <2> QED BY <1>2, FS_AddElement
<1>4. ASSUME NEW i \in R PROVE Ordinal(t, i) = Ordinal(s, i)
  <2>1. {j \in Rising(t) : j <= i} = {j \in R : j <= i}
    BY <1>1, <1>2, RisingFinite
  <2> QED BY <2>1 DEF Ordinal
<1>5. Ordinal(t, n) = c + 1
  <2>1. {j \in Rising(t) : j <= n} = R \cup {n}
    BY <1>1, <1>2, RisingFinite
  <2> QED BY <1>3, <2>1 DEF Ordinal
<1>6. Len(fed) = c /\ \A i \in R : Ordinal(s, i) \in 1..c /\ fed[Ordinal(s, i)] = s[i].tms
  BY OrdinalIsIndex DEF FeedsEdgesOf
<1>7. t[n] = x
  OBVIOUS
<1> HIDE DEF t, R, c, n
<1>8. Len(Append(fed, x.tms)) = c + 1 /\ Append(fed, x.tms)[c + 1] = x.tms
      /\ \A k \in 1..c : Append(fed, x.tms)[k] = fed[k]
  BY <1>6
<1>9. ASSUME NEW i \in Rising(t) PROVE Append(fed, x.tms)[Ordinal(t, i)] = t[i].tms
  BY <1>1, <1>2, <1>4, <1>5, <1>6, <1>7, <1>8
<1> QED BY <1>1, <1>3, <1>8, <1>9 DEF FeedsEdgesOf, t

-----------------------------------------------------------------------------
LEMMA PlayerInitHolds ==
  ASSUME Init
  PROVE  PlayerInv
<1> SUFFICES ASSUME prog = "player" PROVE PlayerTypes /\ TckSeen /\ FeedsEdgesOf(Fed, mem.samples)
  BY DEF PlayerInv
<1>1. mem = [ tms |-> [i \in 0..(MaxBits - 1) |-> FALSE], curBits |-> 0, lastTckSample |-> TRUE,
              samples |-> <<>>, processed |-> <<>> ]
  BY OwnInits DEF PlayerInit, Started
<1>2. PlayerTypes /\ TckSeen
  BY <1>1, PlayerAssumption DEF PlayerTypes, PlayerFields, TckSeen, tms, curBits, lastTckSample
<1>3. Fed = <<>> /\ mem.samples = <<>>
  BY <1>1 DEF Fed, curBits
<1>4. Rising(<<>>) = {}
  BY DEF Rising
<1> QED BY <1>2, <1>3, <1>4, FS_EmptySet DEF FeedsEdgesOf

(* Sequences that are equal up to a last element.                          *)
LEMMA IsAppend ==
  ASSUME NEW T, NEW p \in Seq(T), NEW q \in Seq(T), NEW v,
         Len(q) = Len(p) + 1, \A i \in 1..Len(p) : q[i] = p[i], q[Len(p) + 1] = v
  PROVE  q = Append(p, v)
OBVIOUS

(* The contents of a buffer of which n elements are used.                  *)
Buffered(b, n) == [i \in 1..n |-> b[i - 1]]

Stored(c, b, n, v) == c = [b EXCEPT ![n] = v]

LEMMA BufferedAppend ==
  ASSUME NEW b \in [0..(MaxBits - 1) -> BOOLEAN], NEW n \in 0..(MaxBits - 2), NEW p \in Seq(BOOLEAN),
         NEW v \in BOOLEAN, NEW c, Stored(c, b, n, v)
  PROVE  /\ c \in [0..(MaxBits - 1) -> BOOLEAN]
         /\ p \o Buffered(c, n + 1) = Append(p \o Buffered(b, n), v)
<1> USE PlayerAssumption
<1>1. Buffered(b, n) \in Seq(BOOLEAN) /\ Len(Buffered(b, n)) = n
  BY DEF Buffered
<1>2. c \in [0..(MaxBits - 1) -> BOOLEAN] /\ c[n] = v /\ \A i \in 0..(n - 1) : c[i] = b[i]
  BY DEF Stored
<1>3. Buffered(c, n + 1) \in Seq(BOOLEAN) /\ Len(Buffered(c, n + 1)) = n + 1
  BY <1>2 DEF Buffered
<1>4. \A i \in 1..n : Buffered(c, n + 1)[i] = Buffered(b, n)[i]
  BY <1>2 DEF Buffered
<1>5. Buffered(c, n + 1)[n + 1] = v
  BY <1>2 DEF Buffered
<1>6. Buffered(c, n + 1) = Append(Buffered(b, n), v)
  <2> DEFINE x == Buffered(b, n)
             y == Buffered(c, n + 1)
  <2>1. x \in Seq(BOOLEAN) /\ y \in Seq(BOOLEAN) /\ Len(x) = n
    BY <1>1, <1>3
  <2>2. Len(y) = Len(x) + 1
    BY <1>1, <1>3
  <2>3. \A i \in 1..Len(x) : y[i] = x[i]
    BY <1>4, <2>1
  <2>4. y[Len(x) + 1] = v
    BY <1>5, <2>1
  <2> HIDE DEF x, y
  <2>5. y = Append(x, v)
    BY <2>1, <2>2, <2>3, <2>4, IsAppend
  <2> QED BY <2>5 DEF x, y
<1>7. p \o Append(Buffered(b, n), v) = Append(p \o Buffered(b, n), v)
  BY <1>1
<1> QED BY <1>2, <1>6, <1>7

LEMMA BufferedType ==
  ASSUME NEW b \in [0..(MaxBits - 1) -> BOOLEAN], NEW n \in 0..(MaxBits - 1), NEW p \in Seq(BOOLEAN)
  PROVE  Buffered(b, n) \in Seq(BOOLEAN) /\ p \o Buffered(b, n) \in Seq(BOOLEAN)
<1>1. Buffered(b, n) \in Seq(BOOLEAN)
  BY PlayerAssumption DEF Buffered
<1> HIDE DEF Buffered
<1> QED BY <1>1

LEMMA SampleStep ==
  ASSUME PlayerTypes, TckSeen, FeedsEdgesOf(Fed, mem.samples), NEW s \in Samples, read_sample(s)
  PROVE  (PlayerTypes /\ TckSeen /\ FeedsEdgesOf(Fed, mem.samples))'
<1> USE DEF tms, curBits, lastTckSample
<1> DEFINE edge == ~lastTckSample /\ s.tck
           bits == IF edge THEN curBits + 1 ELSE curBits
           buffer == IF edge THEN [tms EXCEPT ![curBits] = s.tms] ELSE tms
           full == bits = MaxBits - 1
           c == [ tms |-> buffer, lastTckSample |-> s.tck, samples |-> Append(mem.samples, s),
                  curBits |-> IF full THEN 0 ELSE bits,
                  processed |-> IF full THEN mem.processed \o [i \in 1..bits |-> buffer[i - 1]]
                                        ELSE mem.processed ]
<1>1. mem' = Merge(c, mem)
  BY ZenonT(60) DEF read_sample, Step
<1>2. /\ DOMAIN mem' = PlayerFields
      /\ mem'.tms = buffer /\ mem'.lastTckSample = s.tck /\ mem'.samples = Append(mem.samples, s)
      /\ mem'.curBits = IF full THEN 0 ELSE bits
      /\ mem'.processed = IF full THEN mem.processed \o [i \in 1..bits |-> buffer[i - 1]]
                                  ELSE mem.processed
  <2> HIDE DEF buffer, bits, full
  <2> QED BY <1>1 DEF Merge, PlayerTypes, PlayerFields
<1> DEFINE old == mem.processed \o Buffered(tms, curBits)
           new == mem.processed \o Buffered(buffer, bits)
<1>t. /\ tms \in [0..(MaxBits - 1) -> BOOLEAN] /\ curBits \in 0..(MaxBits - 2)
      /\ mem.processed \in Seq(BOOLEAN) /\ curBits \in 0..(MaxBits - 1)
  BY PlayerAssumption DEF PlayerTypes
<1>3. Fed = old /\ old \in Seq(BOOLEAN)
  <2>1. Fed = old
    BY DEF Fed, Buffered
  <2> QED BY <1>t, <2>1, BufferedType
<1>4. /\ bits \in 0..(MaxBits - 1) /\ buffer \in [0..(MaxBits - 1) -> BOOLEAN]
      /\ new = IF edge THEN Append(old, s.tms) ELSE old
  <2>1. s.tms \in BOOLEAN
    BY DEF Samples
  <2>2. CASE edge
    <3>1. bits = curBits + 1 /\ Stored(buffer, tms, curBits, s.tms)
      BY <2>2 DEF Stored
    <3> HIDE DEF bits, buffer, edge
    <3>2. curBits + 1 \in 0..(MaxBits - 1)
      BY <1>t, PlayerAssumption
    <3>3. /\ buffer \in [0..(MaxBits - 1) -> BOOLEAN]
          /\ mem.processed \o Buffered(buffer, curBits + 1) = Append(old, s.tms)
      <4>1. PICK b, n, p, v : b = tms /\ n = curBits /\ p = mem.processed /\ v = s.tms
        OBVIOUS
      <4>2. /\ b \in [0..(MaxBits - 1) -> BOOLEAN] /\ n \in 0..(MaxBits - 2) /\ p \in Seq(BOOLEAN)
            /\ v \in BOOLEAN /\ Stored(buffer, b, n, v)
        BY <1>t, <2>1, <3>1, <4>1
      <4>3. /\ buffer \in [0..(MaxBits - 1) -> BOOLEAN]
            /\ p \o Buffered(buffer, n + 1) = Append(p \o Buffered(b, n), v)
        BY <4>2, BufferedAppend
      <4> QED BY <4>1, <4>3
    <3> QED BY <2>2, <3>1, <3>2, <3>3
  <2>3. CASE ~edge
    <3>1. bits = curBits /\ buffer = tms
      BY <2>3
    <3> HIDE DEF bits, buffer, edge
    <3> QED BY <1>t, <2>3, <3>1
  <2> QED BY <2>2, <2>3
<1>5. new \in Seq(BOOLEAN)
  <2> HIDE DEF bits, buffer
  <2> QED BY <1>t, <1>4, BufferedType
<1>6. Buffered(buffer, bits) \in Seq(BOOLEAN) /\ mem.processed \in Seq(BOOLEAN)
  <2> HIDE DEF buffer, bits
  <2> QED BY <1>t, <1>4, BufferedType
<1>7. mem'.processed \in Seq(BOOLEAN) /\ Fed' = new
  <2> HIDE DEF buffer, bits
  <2>1. CASE full
    <3>1. mem'.processed = new /\ mem'.curBits = 0
      BY <1>2, <2>1 DEF Buffered
    <3> HIDE DEF new
    <3> QED BY <1>5, <3>1 DEF Fed
  <2>2. CASE ~full
    <3>1. mem'.processed = mem.processed /\ mem'.curBits = bits /\ mem'.tms = buffer
      BY <1>2, <2>2
    <3> QED BY <1>6, <3>1 DEF Fed, Buffered
  <2> QED BY <2>1, <2>2
<1>8. PlayerTypes'
  <2>1. mem'.curBits \in 0..(MaxBits - 2)
    <3> HIDE DEF bits
    <3> QED BY <1>2, <1>4, PlayerAssumption
  <2>2. mem'.samples \in Seq(Samples) /\ mem'.tms \in [0..(MaxBits - 1) -> BOOLEAN]
    <3> HIDE DEF buffer
    <3> QED BY <1>2, <1>4 DEF PlayerTypes
  <2> QED BY <1>2, <1>7, <2>1, <2>2 DEF PlayerTypes
<1>9. TckSeen'
  <2>1. mem.samples \in Seq(Samples)
    BY DEF PlayerTypes
  <2>2. Append(mem.samples, s) # <<>> /\ Last(Append(mem.samples, s)) = s
    BY <2>1 DEF Last
  <2> QED BY <1>2, <2>2 DEF TckSeen
<1>10. edge <=> mem.samples # <<>> /\ ~Last(mem.samples).tck /\ s.tck
  BY DEF TckSeen
<1>11. FeedsEdgesOf(new, Append(mem.samples, s))
  <2>1. mem.samples \in Seq(Samples) /\ FeedsEdgesOf(old, mem.samples)
    BY <1>3 DEF PlayerTypes
  <2> HIDE DEF new, old, edge
  <2>2. CASE edge
    BY <1>3, <1>4, <1>10, <2>1, <2>2, OneEdge
  <2>3. CASE ~edge
    BY <1>3, <1>4, <1>10, <2>1, <2>3, NoEdge
  <2> QED BY <2>2, <2>3
<1>12. FeedsEdgesOf(Fed, mem.samples)'
  <2> HIDE DEF new
  <2> QED BY <1>2, <1>7, <1>11 DEF FeedsEdgesOf
<1> QED BY <1>8, <1>9, <1>12

(* The buffer is processed at the end of the file; other steps change      *)
(* nothing.                                                                *)
LEMMA EndOfFileStep ==
  ASSUME PlayerTypes, TckSeen, FeedsEdgesOf(Fed, mem.samples), end_of_file
  PROVE  (PlayerTypes /\ TckSeen /\ FeedsEdgesOf(Fed, mem.samples))'
<1> USE DEF tms, curBits, lastTckSample
<1> DEFINE fed == mem.processed \o [i \in 1..curBits |-> tms[i - 1]]
<1>1. mem' = Merge([curBits |-> 0, processed |-> fed], mem)
  BY DEF end_of_file, Step
<1>2. fed = Fed
  BY DEF Fed
<1>t. fed \in Seq(BOOLEAN)
  <2>1. fed = mem.processed \o Buffered(tms, curBits)
    BY DEF Buffered
  <2>2. /\ tms \in [0..(MaxBits - 1) -> BOOLEAN] /\ mem.processed \in Seq(BOOLEAN)
        /\ curBits \in 0..(MaxBits - 1)
    BY PlayerAssumption DEF PlayerTypes
  <2> QED BY <2>1, <2>2, BufferedType
<1> HIDE DEF fed
<1>3. /\ DOMAIN mem' = PlayerFields
      /\ mem'.curBits = 0 /\ mem'.processed = fed
      /\ mem'.tms = mem.tms /\ mem'.lastTckSample = mem.lastTckSample /\ mem'.samples = mem.samples
  BY <1>1 DEF Merge, PlayerTypes, PlayerFields
<1>4. Fed' = fed
  BY <1>t, <1>3 DEF Fed
<1>5. PlayerTypes' /\ TckSeen'
  BY <1>t, <1>3, PlayerAssumption DEF PlayerTypes, TckSeen
<1> QED BY <1>2, <1>3, <1>4, <1>5 DEF FeedsEdgesOf

LEMMA PlayerInvStep ==
  ASSUME PlayerInv, [Next]_vars
  PROVE  PlayerInv'
<1> SUFFICES ASSUME prog' = "player"
             PROVE  (PlayerTypes /\ TckSeen /\ FeedsEdgesOf(Fed, mem.samples))'
  BY DEF PlayerInv
<1>1. prog = "player"
  BY SameProgram
<1>2. PlayerTypes /\ TckSeen /\ FeedsEdgesOf(Fed, mem.samples)
  BY <1>1 DEF PlayerInv
<1>3. CASE open_samples \/ read_error \/ UNCHANGED vars
  <2>1. DOMAIN mem' = DOMAIN mem /\ \A f \in DOMAIN mem : mem'[f] = mem[f]
    BY <1>3 DEF open_samples, read_error, vars, Step, Merge, Nothing
  <2>2. mem'.tms = mem.tms /\ mem'.curBits = mem.curBits /\ mem'.lastTckSample = mem.lastTckSample
        /\ mem'.samples = mem.samples /\ mem'.processed = mem.processed /\ DOMAIN mem' = PlayerFields
    BY <1>2, <2>1 DEF PlayerTypes, PlayerFields
  <2>3. Fed' = Fed
    BY <2>2 DEF Fed, tms, curBits
  <2> QED BY <1>2, <2>2, <2>3 DEF PlayerTypes, TckSeen, FeedsEdgesOf, tms, curBits, lastTckSample
<1> QED BY <1>1, <1>2, <1>3, SampleStep, EndOfFileStep, OwnSteps DEF PlayerNext

(* PlayerFeedsEdges holds of any recording and any buffer of two bits or   *)
(* more (player.c:68): no edge is lost, repeated or overruns the buffer    *)
(* where one processing ends and the next begins.                          *)
THEOREM EveryEdgeIsFed == Spec => []PlayerFeedsEdges
<1>1. Init => PlayerInv
  BY PlayerInitHolds
<1>2. PlayerInv /\ [Next]_vars => PlayerInv'
  BY PlayerInvStep
<1>3. PlayerInv => PlayerFeedsEdges
  BY DEF PlayerInv, PlayerFeedsEdges, PlayerTypes, FeedsEdgesOf
<1> QED BY <1>1, <1>2, <1>3, PTL DEF Spec

-----------------------------------------------------------------------------
(* The test runner.                                                        *)

RunnerFields ==
  {"suites", "suiteIdx", "caseIdx", "numCasesTotal", "numFailedCases", "restorePoint", "failed", "sz",
   "checks", "wrong", "wrongCases", "ran", "fatalIn"}

InCase == {"before", "test", "after", "report"}

RunnerTypes ==
  /\ DOMAIN mem = RunnerFields
  /\ input \in Seq(Nat)
  /\ suites \in Seq(0..MAX_CASES_PER_SUITE)
  /\ mem.suiteIdx \in Nat /\ mem.caseIdx \in Nat
  /\ mem.sz \in 0..StrbufSz
  /\ mem.wrong \in Nat
  /\ mem.wrongCases \in Nat

(* What a case has run, and where a fatal check would continue, as it is   *)
(* in each of its functions.                                               *)
CaseSoFar ==
  /\ pc = "before" => mem.ran = <<"before">> /\ restorePoint = "report" /\ mem.fatalIn = "none"
  /\ pc = "test" => mem.ran = <<"before", "test">> /\ restorePoint = "after" /\ mem.fatalIn = "none"
  /\ pc = "after" => /\ mem.ran = <<"before", "test", "after">> /\ restorePoint = "report"
                     /\ mem.fatalIn # "before"
  /\ pc = "report" => mem.ran = Documented

(* A case is marked as failed if one of its checks was wrong, and counted. *)
FailuresCounted ==
  /\ pc \in InCase => (failed <=> mem.wrong > 0)
  /\ mem.numFailedCases = mem.wrongCases

(* The cases up to the one that was run last.                              *)
CasesRun ==
  {n \in Cases(input) : n[1] < mem.suiteIdx \/ (n[1] = mem.suiteIdx /\ n[2] <= mem.caseIdx)}

CasesCounted ==
  /\ IsFiniteSet(CasesRun)
  /\ mem.numCasesTotal = Cardinality(CasesRun)
  /\ pc = "register" => mem.suiteIdx = 1 /\ mem.caseIdx = 0
  /\ pc \in InCase \cup {"run", "exit"} => suites = input
  /\ pc = "exit" => CasesRun = Cases(input)

RunnerGood == RunnerTypes /\ CaseSoFar /\ FailuresCounted /\ CasesCounted
RunnerInv == prog = "tests" => RunnerGood

LEMMA RunnerInitHolds ==
  ASSUME Init
  PROVE  RunnerInv
<1> SUFFICES ASSUME prog = "tests" PROVE RunnerGood
  BY DEF RunnerInv
<1>1. PICK sizes \in SuiteSizes :
        Started("tests", sizes, "register",
            [ suites |-> <<>>, suiteIdx |-> 1, caseIdx |-> 0, numCasesTotal |-> 0, numFailedCases |-> 0,
              restorePoint |-> "none", failed |-> FALSE, sz |-> 0,
              checks |-> 0, wrong |-> 0, wrongCases |-> 0, ran |-> <<>>, fatalIn |-> "none" ])
  BY OwnInits DEF RunnerInit
<1>2. /\ mem.suites = <<>> /\ mem.suiteIdx = 1 /\ mem.caseIdx = 0 /\ mem.numCasesTotal = 0
      /\ mem.numFailedCases = 0 /\ mem.sz = 0 /\ mem.wrong = 0 /\ mem.wrongCases = 0
      /\ DOMAIN mem = RunnerFields /\ pc = "register" /\ input \in Seq(Nat)
  BY <1>1, RunnerAssumption DEF Started, RunnerFields
<1>3. RunnerTypes
  BY <1>2, RunnerAssumption DEF RunnerTypes, suites
<1>4. CaseSoFar /\ FailuresCounted
  BY <1>2 DEF CaseSoFar, FailuresCounted, InCase
<1>5. CasesRun = {}
  <2>1. ASSUME NEW n \in Cases(input)
        PROVE  n[1] \in Nat /\ n[1] >= 1 /\ n[2] \in Nat /\ n[2] >= 1
    BY <1>2 DEF Cases
  <2> QED BY <1>2, <2>1 DEF CasesRun
<1>6. CasesCounted
  BY <1>2, <1>5, FS_EmptySet DEF CasesCounted, InCase
<1> QED BY <1>3, <1>4, <1>6 DEF RunnerGood

(* What a step of a check, or between functions, leaves alone.             *)
CountersKept ==
  /\ mem'.suites = mem.suites /\ mem'.suiteIdx = mem.suiteIdx /\ mem'.caseIdx = mem.caseIdx
  /\ mem'.numCasesTotal = mem.numCasesTotal /\ input' = input

LEMMA CasesStillCounted ==
  ASSUME RunnerGood, CountersKept, pc \in InCase, pc' \in InCase \cup {"run"}
  PROVE  CasesCounted'
<1>1. CasesRun' = CasesRun
  BY DEF CasesRun, CountersKept
<1> QED BY <1>1 DEF CasesCounted, CountersKept, RunnerGood, InCase, suites

-----------------------------------------------------------------------------
(* Registration.                                                           *)

LEMMA RegisterStep ==
  ASSUME RunnerGood, prog = "tests", register_suite \/ register_case
  PROVE  RunnerGood'
<1> USE DEF suites, restorePoint, failed
<1>1. PICK s \in Seq(0..MAX_CASES_PER_SUITE) :
        \/ Step("tests", "register", "register", [suites |-> s])
        \/ s = suites /\ Step("tests", "register", "aborted", Nothing)
  <2>1. suites \in Seq(0..MAX_CASES_PER_SUITE) /\ MAX_CASES_PER_SUITE \in Nat /\ input \in Seq(Nat)
    BY RunnerAssumption DEF RunnerGood, RunnerTypes
  <2>2. Append(suites, 0) \in Seq(0..MAX_CASES_PER_SUITE)
    BY <2>1
  <2>3. suites # <<>> /\ Last(suites) < MAX_CASES_PER_SUITE =>
          [suites EXCEPT ![Len(suites)] = @ + 1] \in Seq(0..MAX_CASES_PER_SUITE)
    BY <2>1 DEF Last
  <2>4. CASE register_suite
    BY <2>1, <2>2, <2>4 DEF register_suite
  <2>5. CASE register_case
    BY <2>1, <2>3, <2>5 DEF register_case
  <2> QED BY <2>4, <2>5
<1>2. /\ pc = "register" /\ pc' \in {"register", "aborted"} /\ input' = input
      /\ DOMAIN mem' = RunnerFields /\ mem'.suites = s
      /\ \A f \in RunnerFields \ {"suites"} : mem'[f] = mem[f]
  <2>1. DOMAIN mem = RunnerFields /\ "suites" \in RunnerFields
    BY DEF RunnerGood, RunnerTypes, RunnerFields
  <2>2. CASE Step("tests", "register", "register", [suites |-> s])
    BY <2>1, <2>2, StepFields
  <2>3. CASE s = suites /\ Step("tests", "register", "aborted", Nothing)
    BY <2>1, <2>3, StepFields, NothingChanges
  <2> QED BY <1>1, <2>2, <2>3
<1>3. RunnerTypes'
  BY <1>2 DEF RunnerGood, RunnerTypes, RunnerFields
<1>4. CaseSoFar' /\ FailuresCounted'
  BY <1>2 DEF RunnerGood, CaseSoFar, FailuresCounted, InCase, RunnerFields
<1>5. CasesRun' = CasesRun
  BY <1>2 DEF CasesRun, RunnerFields
<1>6. CasesCounted'
  BY <1>2, <1>5 DEF RunnerGood, CasesCounted, RunnerFields, InCase
<1> QED BY <1>3, <1>4, <1>6 DEF RunnerGood

LEMMA RegisteredStep ==
  ASSUME RunnerGood, registered
  PROVE  RunnerGood'
<1>1. /\ pc = "register" /\ pc' = "run" /\ input' = input /\ suites = input
      /\ DOMAIN mem' = RunnerFields
      /\ \A f \in RunnerFields : mem'[f] = mem[f]
  BY DEF registered, Step, Merge, Nothing, RunnerGood, RunnerTypes, RunnerFields
<1>3. RunnerTypes'
  BY <1>1 DEF RunnerGood, RunnerTypes, RunnerFields, suites
<1>4. CaseSoFar' /\ FailuresCounted'
  BY <1>1 DEF RunnerGood, CaseSoFar, FailuresCounted, InCase, RunnerFields
<1>5. CasesRun' = CasesRun
  BY <1>1 DEF CasesRun, RunnerFields
<1>6. CasesCounted'
  BY <1>1, <1>5 DEF RunnerGood, CasesCounted, RunnerFields, InCase, suites
<1> QED BY <1>3, <1>4, <1>6 DEF RunnerGood

-----------------------------------------------------------------------------
(* Running the cases.                                                      *)

LEMMA CasesArePairs ==
  ASSUME NEW sizes \in Seq(Nat)
  PROVE  \A n : n \in Cases(sizes) <=>
           \E s, c \in Nat : n = <<s, c>> /\ s \in 1..Len(sizes) /\ c \in 1..sizes[s]
<1>1. DOMAIN sizes = 1..Len(sizes) /\ \A s \in 1..Len(sizes) : sizes[s] \in Nat
  OBVIOUS
<1>2. ASSUME NEW n, n \in Cases(sizes)
      PROVE  \E s, c \in Nat : n = <<s, c>> /\ s \in 1..Len(sizes) /\ c \in 1..sizes[s]
  <2>1. PICK s \in 1..Len(sizes) : n \in {s} \X (1..sizes[s])
    BY <1>1, <1>2 DEF Cases
  <2>2. PICK c \in 1..sizes[s] : n = <<s, c>>
    BY <2>1
  <2> QED BY <1>1, <2>1, <2>2
<1>3. ASSUME NEW s \in Nat, NEW c \in Nat, s \in 1..Len(sizes), c \in 1..sizes[s]
      PROVE  <<s, c>> \in Cases(sizes)
  <2>1. <<s, c>> \in {s} \X (1..sizes[s])
    BY <1>3
  <2> QED BY <1>1, <1>3, <2>1 DEF Cases
<1> QED BY <1>2, <1>3

(* What is left is what was not run.                                       *)
LEMMA LeftIsNotRun ==
  ASSUME RunnerTypes, suites = input
  PROVE  CasesLeft = Cases(input) \ CasesRun
<1>1. /\ input \in Seq(Nat) /\ MAX_CASES_PER_SUITE \in Nat
      /\ \A s \in 1..Len(input) : input[s] \in 0..MAX_CASES_PER_SUITE
  BY SMTT(30), RunnerAssumption DEF RunnerTypes
<1>2. mem.suiteIdx \in Nat /\ mem.caseIdx \in Nat
  BY DEF RunnerTypes
<1>3. ASSUME NEW n, n \in CasesLeft PROVE n \in Cases(input) \ CasesRun
  <2>1. /\ n \in (1..Len(input)) \X (1..MAX_CASES_PER_SUITE) /\ n[2] <= input[n[1]]
        /\ n[1] > mem.suiteIdx \/ (n[1] = mem.suiteIdx /\ n[2] > mem.caseIdx)
    BY <1>3 DEF CasesLeft
  <2>2. PICK s \in 1..Len(input), c \in 1..MAX_CASES_PER_SUITE : n = <<s, c>>
    BY <2>1
  <2>3. s \in Nat /\ c \in Nat /\ c \in 1..input[s]
    BY <1>1, <2>1, <2>2
  <2>4. n \in Cases(input)
    BY <1>1, <2>2, <2>3, CasesArePairs
  <2> QED BY <1>2, <2>1, <2>2, <2>3, <2>4 DEF CasesRun
<1>4. ASSUME NEW n, n \in Cases(input), n \notin CasesRun PROVE n \in CasesLeft
  <2>1. PICK s \in Nat, c \in Nat : n = <<s, c>> /\ s \in 1..Len(input) /\ c \in 1..input[s]
    BY <1>1, <1>4, CasesArePairs
  <2>2. c \in 1..MAX_CASES_PER_SUITE /\ c <= input[s]
    BY <1>1, <2>1
  <2>3. s > mem.suiteIdx \/ (s = mem.suiteIdx /\ c > mem.caseIdx)
    BY <1>2, <1>4, <2>1 DEF CasesRun
  <2> QED BY <2>1, <2>2, <2>3 DEF CasesLeft
<1> QED BY <1>3, <1>4

LEMMA BeginCaseStep ==
  ASSUME RunnerGood, begin_case
  PROVE  RunnerGood'
<1>1. PICK n \in CasesLeft :
        /\ IsNext(n)
        /\ Step("tests", "run", "before",
            [ suiteIdx |-> n[1], caseIdx |-> n[2], numCasesTotal |-> mem.numCasesTotal + 1,
              failed |-> FALSE, sz |-> 0, restorePoint |-> "report",
              checks |-> 0, wrong |-> 0, ran |-> <<"before">>, fatalIn |-> "none" ])
  BY DEF begin_case
<1> DEFINE c == [ suiteIdx |-> n[1], caseIdx |-> n[2], numCasesTotal |-> mem.numCasesTotal + 1,
                  failed |-> FALSE, sz |-> 0, restorePoint |-> "report",
                  checks |-> 0, wrong |-> 0, ran |-> <<"before">>, fatalIn |-> "none" ]
<1>2. DOMAIN c \subseteq RunnerFields /\ DOMAIN mem = RunnerFields
  BY DEF RunnerFields, RunnerGood, RunnerTypes
<1>3. /\ pc = "run" /\ pc' = "before" /\ input' = input /\ DOMAIN mem' = RunnerFields
      /\ \A f \in RunnerFields : mem'[f] = IF f \in DOMAIN c THEN c[f] ELSE mem[f]
  <2> HIDE DEF c
  <2> QED BY <1>1, <1>2, StepFields DEF c
<1>4. /\ mem'.suiteIdx = n[1] /\ mem'.caseIdx = n[2] /\ mem'.numCasesTotal = mem.numCasesTotal + 1
      /\ mem'.failed = FALSE /\ mem'.sz = 0 /\ mem'.restorePoint = "report" /\ mem'.wrong = 0
      /\ mem'.ran = <<"before">> /\ mem'.fatalIn = "none"
      /\ mem'.suites = mem.suites /\ mem'.wrongCases = mem.wrongCases
      /\ mem'.numFailedCases = mem.numFailedCases
  BY <1>3 DEF RunnerFields
<1> HIDE DEF c
<1>5. suites = input /\ CasesLeft = Cases(input) \ CasesRun /\ input \in Seq(Nat)
  BY <1>3, LeftIsNotRun DEF RunnerGood, CasesCounted, RunnerTypes
<1>6. PICK s \in Nat, k \in Nat : n = <<s, k>> /\ s \in 1..Len(input) /\ k \in 1..input[s]
  BY <1>5, CasesArePairs
<1>7. RunnerTypes'
  BY <1>3, <1>4, <1>6, RunnerAssumption DEF RunnerGood, RunnerTypes, suites
<1>8. CaseSoFar'
  BY <1>3, <1>4 DEF CaseSoFar, restorePoint
<1>9. FailuresCounted'
  BY <1>3, <1>4 DEF RunnerGood, FailuresCounted, failed
<1>10. CasesRun' = CasesRun \cup {n}
  <2>1. mem.suiteIdx \in Nat /\ mem.caseIdx \in Nat
    BY DEF RunnerGood, RunnerTypes
  <2>2. s > mem.suiteIdx \/ (s = mem.suiteIdx /\ k > mem.caseIdx)
    BY <1>6 DEF CasesLeft
  <2>3. CasesRun' = {m \in Cases(input) : m[1] < s \/ (m[1] = s /\ m[2] <= k)}
    BY <1>3, <1>4, <1>6 DEF CasesRun
  <2>4. ASSUME NEW m \in Cases(input)
        PROVE  m \in CasesRun' <=> m \in CasesRun \/ m = n
    <3>1. PICK a \in Nat, b \in Nat : m = <<a, b>>
      BY <1>5, CasesArePairs
    <3>2. CASE m \in CasesRun
      <4>1. a < mem.suiteIdx \/ (a = mem.suiteIdx /\ b <= mem.caseIdx)
        BY <3>1, <3>2 DEF CasesRun
      <4>2. a < s \/ (a = s /\ b <= k)
        BY <2>1, <2>2, <4>1
      <4> QED BY <2>3, <3>1, <3>2, <4>2
    <3>3. CASE m \notin CasesRun
      <4>1. s < a \/ (s = a /\ k <= b)
        BY <1>1, <1>5, <1>6, <3>1, <3>3 DEF IsNext
      <4>2. m \in CasesRun' <=> a < s \/ (a = s /\ b <= k)
        BY <2>3, <3>1
      <4>3. m = n <=> a = s /\ b = k
        BY <1>6, <3>1
      <4> QED BY <3>3, <4>1, <4>2, <4>3
    <3> QED BY <3>2, <3>3
  <2>5. CasesRun \subseteq Cases(input) /\ CasesRun' \subseteq Cases(input) /\ n \in Cases(input)
    BY <1>5, <2>3 DEF CasesRun
  <2> QED BY <2>4, <2>5
<1>11. n \notin CasesRun
  BY <1>5
<1>12. IsFiniteSet(CasesRun') /\ Cardinality(CasesRun') = Cardinality(CasesRun) + 1
  BY <1>10, <1>11, FS_AddElement DEF RunnerGood, CasesCounted
<1>13. CasesCounted'
  BY <1>3, <1>4, <1>5, <1>12 DEF RunnerGood, CasesCounted, suites
<1> QED BY <1>7, <1>8, <1>9, <1>13 DEF RunnerGood

LEMMA AppendNames ==
  /\ Append(<<"before">>, "test") = <<"before", "test">>
  /\ Append(<<"before", "test">>, "after") = <<"before", "test", "after">>
<1> DEFINE p == <<"before">>
           q == <<"before", "test">>
           r == <<"before", "test", "after">>
           T == {"before", "test", "after"}
<1>1. p \in Seq(T) /\ q \in Seq(T) /\ r \in Seq(T)
  OBVIOUS
<1>2. /\ Len(p) = 1 /\ Len(q) = 2 /\ Len(r) = 3
      /\ \A i \in 1..1 : q[i] = p[i]
      /\ \A i \in 1..2 : r[i] = q[i]
      /\ q[2] = "test" /\ r[3] = "after"
  OBVIOUS
<1> HIDE DEF p, q, r, T
<1>3. Len(q) = Len(p) + 1 /\ (\A i \in 1..Len(p) : q[i] = p[i]) /\ q[Len(p) + 1] = "test"
  BY <1>2
<1>4. Len(r) = Len(q) + 1 /\ (\A i \in 1..Len(q) : r[i] = q[i]) /\ r[Len(q) + 1] = "after"
  BY <1>2
<1>5. q = Append(p, "test")
  BY <1>1, <1>3, IsAppend
<1>6. r = Append(q, "after")
  BY <1>1, <1>4, IsAppend
<1> QED BY <1>5, <1>6 DEF p, q, r

(* A function of the case returned.                                        *)
LEMMA ReturnStep ==
  ASSUME RunnerGood, prog = "tests", before_returns \/ test_returns \/ after_returns
  PROVE  RunnerGood'
<1>1. DOMAIN mem = RunnerFields /\ DOMAIN Nothing \subseteq RunnerFields
      /\ {"restorePoint", "ran"} \subseteq RunnerFields
  BY NothingChanges DEF RunnerFields, RunnerGood, RunnerTypes
<1>2. \A f \in RunnerFields \ {"restorePoint", "ran"} : mem'[f] = mem[f]
  BY SMTT(30), <1>1, StepFields DEF before_returns, test_returns, after_returns, Nothing
<1>3. pc \in {"before", "test", "after"} /\ pc' \in InCase /\ input' = input /\ DOMAIN mem' = RunnerFields
  BY <1>1, StepFields DEF before_returns, test_returns, after_returns, Nothing, InCase
<1>4. CountersKept /\ mem'.sz = mem.sz /\ mem'.wrong = mem.wrong /\ mem'.wrongCases = mem.wrongCases
      /\ mem'.failed = mem.failed /\ mem'.numFailedCases = mem.numFailedCases /\ mem'.fatalIn = mem.fatalIn
  BY <1>2, <1>3 DEF CountersKept, RunnerFields
<1>5. RunnerTypes'
  BY <1>3, <1>4 DEF RunnerGood, RunnerTypes, CountersKept, suites
<1>6. FailuresCounted'
  BY <1>3, <1>4 DEF RunnerGood, FailuresCounted, failed, InCase
<1>7. CasesCounted'
  BY <1>3, <1>4, CasesStillCounted DEF InCase
<1>8. CASE before_returns
  <2>1. /\ pc = "before" /\ pc' = "test" /\ mem'.restorePoint = "after"
        /\ mem'.ran = Append(mem.ran, "test")
    BY <1>1, <1>8, StepFields DEF before_returns
  <2>2. CaseSoFar'
    <3>1. mem'.ran = IF pc = "before" THEN <<"before", "test">> ELSE <<"before", "test", "after">>
      BY <2>1, AppendNames DEF RunnerGood, CaseSoFar
    <3> QED BY <1>4, <2>1, <3>1 DEF RunnerGood, CaseSoFar, restorePoint
  <2> QED BY <1>5, <1>6, <1>7, <2>2 DEF RunnerGood
<1>9. CASE test_returns
  <2>1. /\ pc = "test" /\ pc' = "after" /\ mem'.restorePoint = "report"
        /\ mem'.ran = Append(mem.ran, "after")
    BY <1>1, <1>9, StepFields DEF test_returns
  <2>2. CaseSoFar'
    <3>1. mem'.ran = IF pc = "before" THEN <<"before", "test">> ELSE <<"before", "test", "after">>
      BY <2>1, AppendNames DEF RunnerGood, CaseSoFar
    <3> QED BY <1>4, <2>1, <3>1 DEF RunnerGood, CaseSoFar, restorePoint
  <2> QED BY <1>5, <1>6, <1>7, <2>2 DEF RunnerGood
<1>10. CASE after_returns
  <2>1. pc = "after" /\ pc' = "report" /\ mem'.ran = mem.ran
    BY <1>1, <1>10, StepFields, NothingChanges DEF after_returns
  <2>2. CaseSoFar'
    BY <1>4, <2>1 DEF RunnerGood, CaseSoFar, Documented
  <2> QED BY <1>5, <1>6, <1>7, <2>2 DEF RunnerGood
<1> QED BY <1>8, <1>9, <1>10

LEMMA ReportStep ==
  ASSUME RunnerGood, report
  PROVE  RunnerGood'
<1> DEFINE c == [ numFailedCases |-> IF failed THEN mem.numFailedCases + 1 ELSE mem.numFailedCases,
                  wrongCases |-> IF mem.wrong > 0 THEN mem.wrongCases + 1 ELSE mem.wrongCases ]
<1>1. DOMAIN mem = RunnerFields /\ DOMAIN c \subseteq RunnerFields
  BY DEF RunnerFields, RunnerGood, RunnerTypes
<1>2. Step("tests", "report", "run", c)
  BY DEF report
<1>3. /\ pc = "report" /\ pc' = "run" /\ input' = input /\ DOMAIN mem' = RunnerFields
      /\ \A f \in RunnerFields : mem'[f] = IF f \in DOMAIN c THEN c[f] ELSE mem[f]
  <2> HIDE DEF c
  <2> QED BY <1>1, <1>2, StepFields
<1>4. /\ mem'.numFailedCases = IF mem.failed THEN mem.numFailedCases + 1 ELSE mem.numFailedCases
      /\ mem'.wrongCases = IF mem.wrong > 0 THEN mem.wrongCases + 1 ELSE mem.wrongCases
  BY <1>3 DEF RunnerFields, failed
<1>5. CountersKept /\ mem'.sz = mem.sz /\ mem'.wrong = mem.wrong
  BY <1>3 DEF CountersKept, RunnerFields
<1> HIDE DEF c
<1>6. RunnerTypes'
  BY <1>3, <1>4, <1>5 DEF RunnerGood, RunnerTypes, CountersKept, suites
<1>7. CaseSoFar'
  BY <1>3 DEF CaseSoFar
<1>8. FailuresCounted'
  BY <1>3, <1>4 DEF RunnerGood, FailuresCounted, failed, InCase
<1>9. CasesCounted'
  BY <1>3, <1>5, CasesStillCounted DEF InCase
<1> QED BY <1>6, <1>7, <1>8, <1>9 DEF RunnerGood

LEMMA AllRunStep ==
  ASSUME RunnerGood, all_run
  PROVE  RunnerGood'
<1>1. DOMAIN mem = RunnerFields /\ Step("tests", "run", "exit", Nothing) /\ CasesLeft = {}
  BY DEF all_run, RunnerGood, RunnerTypes
<1>2. /\ pc = "run" /\ pc' = "exit" /\ input' = input /\ DOMAIN mem' = RunnerFields
      /\ \A f \in RunnerFields : mem'[f] = mem[f]
  BY <1>1, StepFields, NothingChanges
<1>3. RunnerTypes'
  BY <1>2 DEF RunnerGood, RunnerTypes, RunnerFields, suites
<1>4. CaseSoFar' /\ FailuresCounted'
  BY <1>2 DEF RunnerGood, CaseSoFar, FailuresCounted, InCase, RunnerFields
<1>5. CasesRun' = CasesRun
  BY <1>2 DEF CasesRun, RunnerFields
<1>6. CasesRun = Cases(input)
  <2>1. CasesLeft = Cases(input) \ CasesRun
    BY <1>2, LeftIsNotRun DEF RunnerGood, CasesCounted
  <2> QED BY <1>1, <2>1 DEF CasesRun
<1>7. CasesCounted'
  BY <1>2, <1>5, <1>6 DEF RunnerGood, CasesCounted, RunnerFields, InCase, suites
<1> QED BY <1>3, <1>4, <1>7 DEF RunnerGood

-----------------------------------------------------------------------------
(* The checks.                                                             *)

(* check_equal_span() decides equality.                                    *)
LEMMA CheckDecides ==
  ASSUME NEW p \in Spans, NEW q \in Spans, NEW invert \in BOOLEAN
  PROVE  check_passes(p, q, invert) <=> ((p = q) # invert)
<1>1. p \in Seq(0..255) /\ q \in Seq(0..255)
  BY RunnerAssumption
<1> DEFINE differ == {i \in DOMAIN p : p[i] # q[i]}
<1>2. firstDifferent(p, q) = -1 <=> differ = {}
  <2>1. differ \in SUBSET Nat
    BY <1>1
  <2> HIDE DEF differ
  <2>2. CASE differ # {}
    <3>1. PICK n \in differ : \A m \in differ : n <= m
      BY <2>1, <2>2, NatMinimum
    <3>2. Min(differ) \in differ
      BY <3>1 DEF Min
    <3>3. Min(differ) # -1
      BY <2>1, <3>2
    <3> QED BY <2>2, <3>3 DEF firstDifferent, differ
  <2> QED BY <2>2 DEF firstDifferent, differ
<1>3. Len(p) = Len(q) /\ differ = {} <=> p = q
  <2>1. CASE p = q
    BY <2>1
  <2>2. CASE Len(p) = Len(q) /\ differ = {}
    <3>1. \A i \in 1..Len(p) : p[i] = q[i]
      BY <1>1, <2>2
    <3> HIDE DEF differ
    <3> QED BY <1>1, <2>2, <3>1
  <2> QED BY <2>1, <2>2
<1> HIDE DEF differ
<1>4. check_passes(p, q, invert) <=> ((Len(p) = Len(q) /\ differ = {}) # invert)
  BY <1>2 DEF check_passes
<1> QED BY <1>3, <1>4

(* The report of a failed check stays in its buffer.                       *)
LEMMA AppendFits ==
  ASSUME NEW sz \in 0..StrbufSz, NEW len \in Nat
  PROVE  strbuf_vappend(sz, len) \in 0..StrbufSz
BY RunnerAssumption DEF strbuf_vappend

LEMMA ReportFits ==
  ASSUME NEW sz \in 0..StrbufSz, NEW new \in Reports(sz)
  PROVE  new \in 0..StrbufSz
<1>1. PICK len \in 0..StrbufSz : new = strbuf_vappend(strbuf_vappend(strbuf_vappend(sz, 2), len), 1)
  BY DEF Reports
<1>2. len \in Nat /\ 1 \in Nat /\ 2 \in Nat
  BY RunnerAssumption
<1>3. strbuf_vappend(sz, 2) \in 0..StrbufSz
  BY <1>2, AppendFits
<1>4. strbuf_vappend(strbuf_vappend(sz, 2), len) \in 0..StrbufSz
  BY <1>2, <1>3, AppendFits
<1> QED BY <1>1, <1>2, <1>4, AppendFits

(* A check: what it may do to the case it is in.                           *)
LEMMA CheckStep ==
  ASSUME RunnerGood, NEW p \in Spans, NEW q \in Spans, NEW invert \in BOOLEAN, check(p, q, invert)
  PROVE  RunnerGood'
<1> DEFINE c == [checks |-> mem.checks + 1, wrong |-> Wrong(p, q, invert)]
<1>1. /\ pc \in {"before", "test", "after"} /\ check_passes(p, q, invert)
      /\ Step("tests", pc, pc, c)
  BY DEF check, Checking
<1>2. DOMAIN mem = RunnerFields /\ DOMAIN c \subseteq RunnerFields /\ DOMAIN c = {"checks", "wrong"}
  BY DEF RunnerFields, RunnerGood, RunnerTypes
<1>3. c["wrong"] = mem.wrong
  BY <1>1, CheckDecides DEF Wrong
<1> HIDE DEF c
<1>4. /\ pc' = pc /\ input' = input /\ DOMAIN mem' = RunnerFields
      /\ \A f \in RunnerFields : mem'[f] = IF f \in DOMAIN c THEN c[f] ELSE mem[f]
  BY <1>1, <1>2, StepFields
<1>5. \A f \in RunnerFields \ {"checks"} : mem'[f] = mem[f]
  BY <1>2, <1>3, <1>4
<1>6. RunnerTypes'
  BY <1>4, <1>5 DEF RunnerGood, RunnerTypes, RunnerFields, suites
<1>7. CaseSoFar'
  BY <1>1, <1>4, <1>5 DEF RunnerGood, CaseSoFar, RunnerFields, restorePoint
<1>8. FailuresCounted'
  BY <1>4, <1>5 DEF RunnerGood, FailuresCounted, RunnerFields, failed
<1>9. CountersKept
  BY <1>4, <1>5 DEF CountersKept, RunnerFields
<1>10. CasesCounted'
  BY <1>1, <1>4, <1>9, CasesStillCounted DEF InCase
<1> QED BY <1>6, <1>7, <1>8, <1>10 DEF RunnerGood

(* What a fatal check changes besides.                                     *)
Jumps == IF restorePoint = "after"
           THEN [fatalIn |-> pc, restorePoint |-> "report", ran |-> Append(mem.ran, "after")]
           ELSE [fatalIn |-> pc]

LEMMA FailedCheckStep ==
  ASSUME RunnerGood, NEW p \in Spans, NEW q \in Spans, NEW invert \in BOOLEAN, NEW isFatal \in BOOLEAN,
         check_fails(p, q, invert, isFatal)
  PROVE  RunnerGood'
<1> DEFINE to == IF isFatal THEN restorePoint ELSE pc
           jumps == IF ~isFatal THEN Nothing ELSE Jumps
<1>1. PICK sz \in Reports(mem.sz) :
        Step("tests", pc, to,
             Merge([ failed |-> TRUE, sz |-> sz, checks |-> mem.checks + 1, wrong |-> Wrong(p, q, invert) ],
                   jumps))
  BY DEF check_fails, Jumps
<1> DEFINE marks == [ failed |-> TRUE, sz |-> sz, checks |-> mem.checks + 1, wrong |-> Wrong(p, q, invert) ]
           c == Merge(marks, jumps)
<1>s. Step("tests", pc, to, c)
  BY <1>1
<1>2. pc \in {"before", "test", "after"} /\ ~check_passes(p, q, invert)
  BY DEF check_fails, Checking
<1>3. DOMAIN marks = {"failed", "sz", "checks", "wrong"} /\ marks["failed"] = TRUE /\ marks["sz"] = sz
      /\ marks["wrong"] = mem.wrong + 1
  BY <1>2, CheckDecides DEF Wrong
<1>4. /\ DOMAIN jumps \subseteq {"fatalIn", "restorePoint", "ran"}
      /\ isFatal => "fatalIn" \in DOMAIN jumps /\ jumps["fatalIn"] = pc
      /\ isFatal /\ restorePoint = "after" =>
           /\ DOMAIN jumps = {"fatalIn", "restorePoint", "ran"}
           /\ jumps["restorePoint"] = "report" /\ jumps["ran"] = Append(mem.ran, "after")
      /\ isFatal /\ restorePoint # "after" => DOMAIN jumps = {"fatalIn"}
      /\ ~isFatal => DOMAIN jumps = {}
  BY NothingChanges DEF Jumps
<1> HIDE DEF marks, jumps
<1>5. /\ DOMAIN c = DOMAIN marks \cup DOMAIN jumps
      /\ \A f \in DOMAIN c : c[f] = IF f \in DOMAIN marks THEN marks[f] ELSE jumps[f]
  BY DEF Merge
<1> HIDE DEF c
<1>6. DOMAIN mem = RunnerFields /\ DOMAIN c \subseteq RunnerFields
  BY <1>3, <1>4, <1>5 DEF RunnerFields, RunnerGood, RunnerTypes
<1>7. /\ pc' = to /\ input' = input /\ DOMAIN mem' = RunnerFields
      /\ \A f \in RunnerFields : mem'[f] = IF f \in DOMAIN c THEN c[f] ELSE mem[f]
  BY <1>s, <1>6, StepFields
<1>8. mem'.failed = TRUE /\ mem'.sz = sz /\ mem'.wrong = mem.wrong + 1
  BY <1>3, <1>5, <1>7 DEF RunnerFields
<1>9. mem'.wrongCases = mem.wrongCases /\ mem'.numFailedCases = mem.numFailedCases /\ CountersKept
  BY <1>3, <1>4, <1>5, <1>7 DEF RunnerFields, CountersKept
<1>10. /\ mem'.fatalIn = IF isFatal THEN pc ELSE mem.fatalIn
       /\ mem'.restorePoint = IF isFatal /\ restorePoint = "after" THEN "report" ELSE mem.restorePoint
       /\ mem'.ran = IF isFatal /\ restorePoint = "after" THEN Append(mem.ran, "after") ELSE mem.ran
  BY <1>3, <1>4, <1>5, <1>7 DEF RunnerFields
<1>11. RunnerTypes'
  <2>1. sz \in 0..StrbufSz
    BY <1>1, ReportFits DEF RunnerGood, RunnerTypes
  <2> QED BY <1>7, <1>8, <1>9, <2>1 DEF RunnerGood, RunnerTypes, CountersKept, suites
<1>12. CaseSoFar'
  <2>1. CASE ~isFatal
    BY <1>2, <1>7, <1>10, <2>1 DEF RunnerGood, CaseSoFar, restorePoint
  <2>2. CASE isFatal /\ pc = "before"
    BY <1>7, <1>10, <2>2 DEF RunnerGood, CaseSoFar, restorePoint, Documented
  <2>3. CASE isFatal /\ pc = "test"
    <3>1. mem'.ran = <<"before", "test", "after">>
      BY <1>10, <2>3, AppendNames DEF RunnerGood, CaseSoFar, restorePoint
    <3> QED BY <1>7, <1>10, <2>3, <3>1 DEF RunnerGood, CaseSoFar, restorePoint
  <2>4. CASE isFatal /\ pc = "after"
    BY <1>7, <1>10, <2>4 DEF RunnerGood, CaseSoFar, restorePoint, Documented
  <2> QED BY <1>2, <2>1, <2>2, <2>3, <2>4
<1>13. pc' \in InCase
  BY <1>2, <1>7 DEF RunnerGood, CaseSoFar, restorePoint, InCase
<1>14. FailuresCounted'
  BY <1>8, <1>9 DEF RunnerGood, FailuresCounted, RunnerTypes, failed
<1>15. CasesCounted'
  BY <1>2, <1>9, <1>13, CasesStillCounted DEF InCase
<1> QED BY <1>11, <1>12, <1>14, <1>15 DEF RunnerGood

LEMMA RunnerInvStep ==
  ASSUME RunnerInv, [Next]_vars
  PROVE  RunnerInv'
<1> SUFFICES ASSUME prog' = "tests" PROVE RunnerGood'
  BY DEF RunnerInv
<1>1. prog = "tests"
  BY SameProgram
<1>2. RunnerGood
  BY <1>1 DEF RunnerInv
<1>3. CASE UNCHANGED vars
  <2>1. pc' = pc /\ mem' = mem /\ input' = input
    BY <1>3 DEF vars
  <2>2. CasesRun' = CasesRun
    BY <2>1 DEF CasesRun
  <2> QED BY <1>2, <2>1, <2>2 DEF RunnerGood, RunnerTypes, CaseSoFar, FailuresCounted, CasesCounted, suites,
             restorePoint, failed, Documented
<1>4. CASE RunnerNext
  BY <1>1, <1>2, <1>4, RegisterStep, RegisteredStep, BeginCaseStep, ReturnStep, ReportStep, AllRunStep,
     CheckStep, FailedCheckStep DEF RunnerNext
<1> QED BY <1>1, <1>3, <1>4, OwnSteps

(* CasesRunAsDocumented holds of any program of tests with any checks: the *)
(* three setjmp()s of run_case() (runner.c:72) run what test.h promises,   *)
(* each case once, and no report leaves its buffer (runner.c:23).          *)
THEOREM CasesRunRight == Spec => []CasesRunAsDocumented
<1>1. Init => RunnerInv
  BY RunnerInitHolds
<1>2. RunnerInv /\ [Next]_vars => RunnerInv'
  BY RunnerInvStep
<1>3. RunnerInv => CasesRunAsDocumented
  <2> SUFFICES ASSUME RunnerGood
               PROVE  /\ pc = "report" => mem.ran = Documented /\ (failed <=> mem.wrong > 0)
                      /\ mem.sz <= StrbufSz
                      /\ pc = "exit" => /\ mem.numCasesTotal = Cardinality(Cases(input))
                                        /\ mem.numFailedCases = mem.wrongCases
    BY DEF RunnerInv, CasesRunAsDocumented
  <2> QED BY RunnerAssumption DEF RunnerGood, RunnerTypes, CaseSoFar, FailuresCounted, CasesCounted, InCase
<1> QED BY <1>1, <1>2, <1>3, PTL DEF Spec

-----------------------------------------------------------------------------
(* The formatters.                                                         *)

FormatFields == {"idx", "octet", "avail", "out", "lines"}

FormatInput ==
  /\ input.vector \in Seq({0, 1}) /\ input.rhs \in Seq({0, 1}) /\ Len(input.rhs) = Len(input.vector)
  /\ start \in Nat /\ end \in Nat /\ start <= end /\ end <= Len(input.vector)
  /\ input.order \in {"msb", "lsb", "equal", "rows"}
  /\ input.order = "lsb" => numBits < BufSz
  /\ input.order = "rows" => start = 0

FormatTypes ==
  /\ DOMAIN mem = FormatFields
  /\ pc \in {"start", "fetch", "put", "exit"}
  /\ idx \in Int /\ avail \in Int
  /\ out \in Seq({0, 1})

(* The loops of the formatters: the bits that are out, the room that is    *)
(* left for the others and the terminator, the octet that was fetched.     *)
BitsOut ==
  IF lsb THEN /\ start <= idx /\ idx <= end /\ Len(out) = idx - start
              /\ \A k \in 1..Len(out) : out[k] = input.vector[start + k]
         ELSE /\ start - 1 <= idx /\ idx <= end - 1 /\ Len(out) = (end - 1) - idx
              /\ \A k \in 1..Len(out) : out[k] = input.vector[(end + 1) - k]

Formatting ==
  input.order \in {"lsb", "msb"} =>
    /\ pc = "start" => out = <<>>
    /\ pc \in {"fetch", "put"} => numBits < BufSz /\ BitsOut /\ avail = BufSz - Len(out)
    /\ pc = "put" => InRange(idx) /\ octet = Octet(idx)
    /\ pc = "exit" => Len(out) < BufSz

(* log_vector(): n bits of v are in complete rows L of R bits and in one s *)
(* that is not; all e bits are.                                            *)
RowsUpTo(v, R, L, s, n) ==
  /\ L \in Seq(Seq({0, 1})) /\ s \in Seq({0, 1})
  /\ n = Len(L) * R + Len(s) /\ Len(s) < R
  /\ \A k \in 1..Len(s) : s[k] = v[Len(L) * R + k]
  /\ \A i \in 1..Len(L) : L[i] = SubSeq(v, (i - 1) * R + 1, i * R)
RowsOf(v, R, e) ==
  [i \in 1..((e + R - 1) \div R) |-> SubSeq(v, (i - 1) * R + 1, IF i * R <= e THEN i * R ELSE e)]

RowsOut ==
  input.order = "rows" /\ pc = "start" =>
    /\ idx \in 0..end
    /\ idx = end => out = <<>> /\ mem.lines = RowsOf(input.vector, RowSz, end)
    /\ idx < end => RowsUpTo(input.vector, RowSz, mem.lines, out, idx)

(* txvc_bit_vector_equal(): what was compared was equal.                   *)
EqualSoFar ==
  input.order = "equal" =>
    /\ out = <<>>
    /\ pc = "start" => /\ idx \in 0..numBits
                       /\ \A k \in 1..idx : input.vector[start + k] = input.rhs[start + k]

(* The lines of a finished call, as LoggedBits has them.                   *)
LinesRight ==
  pc = "exit" =>
    /\ input.order = "lsb" => mem.lines = <<Range_lsb>>
    /\ input.order = "msb" => mem.lines = (IF numBits < BufSz THEN <<Reverse(Range_lsb)>>
                                                              ELSE <<"number of bits">>)
    /\ input.order = "rows" => mem.lines = Rows
    /\ input.order = "equal" => mem.lines = <<Range_lsb = SubSeq(input.rhs, start + 1, end)>>

(* A row is no longer than a row, and the loops without octets have none.  *)
RowsFit ==
  /\ input.order = "rows" => Len(out) <= RowSz
  /\ input.order \notin {"lsb", "msb"} => pc \in {"start", "exit"}

FormatGood ==
  FormatInput /\ FormatTypes /\ Formatting /\ RowsOut /\ EqualSoFar /\ LinesRight /\ RowsFit
FormatInv == prog = "format" => FormatGood

-----------------------------------------------------------------------------
(* Octets.                                                                 *)

LEMMA OctetArithmetic ==
  ASSUME NEW i \in Nat
  PROVE  /\ i \div 8 \in Nat /\ i % 8 \in 0..7 /\ 8 * (i \div 8) + (i % 8) = i
         /\ (i + 1) % 8 # 0 => (i + 1) \div 8 = i \div 8
         /\ i > 0 /\ (i - 1) % 8 # 7 => (i - 1) \div 8 = i \div 8
OBVIOUS

LEMMA OctetHoldsBit ==
  ASSUME NEW i \in Nat, i < Len(input.vector), input.vector \in Seq({0, 1})
  PROVE  Octet(i)[i % 8] = input.vector[i + 1]
BY OctetArithmetic DEF Octet, Bit

LEMMA SameOctet ==
  ASSUME NEW i, NEW j, i \div 8 = j \div 8
  PROVE  Octet(i) = Octet(j)
BY DEF Octet

-----------------------------------------------------------------------------
(* Ranges.                                                                 *)

(* A sequence with the bits of a range is the range.                       *)
LEMMA IsSubSeq ==
  ASSUME NEW v \in Seq({0, 1}), NEW s \in Seq({0, 1}), NEW a \in Nat, NEW b \in Nat, a <= b, b <= Len(v),
         Len(s) = b - a, \A k \in 1..(b - a) : s[k] = v[a + k]
  PROVE  s = SubSeq(v, a + 1, b)
<1>1. Len(SubSeq(v, a + 1, b)) = b - a /\ SubSeq(v, a + 1, b) \in Seq({0, 1})
  OBVIOUS
<1>2. \A k \in 1..(b - a) : SubSeq(v, a + 1, b)[k] = v[a + k]
  OBVIOUS
<1>3. PICK u \in Seq({0, 1}), n \in Nat : u = SubSeq(v, a + 1, b) /\ n = b - a
  BY <1>1
<1>4. Len(u) = n /\ Len(s) = n /\ \A k \in 1..n : s[k] = u[k]
  BY Zenon, <1>1, <1>2, <1>3
<1>5. s = u
  BY <1>4
<1> QED BY Zenon, <1>3, <1>5

LEMMA IsReverse ==
  ASSUME NEW v \in Seq({0, 1}), NEW s \in Seq({0, 1}), NEW a \in Nat, NEW b \in Nat, a <= b, b <= Len(v),
         Len(s) = b - a, \A k \in 1..(b - a) : s[k] = v[(b + 1) - k]
  PROVE  s = Reverse(SubSeq(v, a + 1, b))
<1> DEFINE w == SubSeq(v, a + 1, b)
<1>1. Len(w) = b - a /\ w \in Seq({0, 1}) /\ \A k \in 1..(b - a) : w[k] = v[a + k]
  OBVIOUS
<1> HIDE DEF w
<1>2. ASSUME NEW k \in 1..(b - a) PROVE Reverse(w)[k] = v[(b + 1) - k]
  <2>1. ((b - a) - k) + 1 \in 1..(b - a) /\ a + (((b - a) - k) + 1) = (b + 1) - k
    OBVIOUS
  <2> QED BY <1>1, <2>1 DEF Reverse
<1>3. Reverse(w) \in Seq({0, 1}) /\ Len(Reverse(w)) = b - a
  <2>1. \A k \in 1..(b - a) : Reverse(w)[k] \in {0, 1}
    BY <1>2
  <2>2. Reverse(w) = [k \in 1..(b - a) |-> Reverse(w)[k]]
    BY <1>1 DEF Reverse
  <2> HIDE DEF Reverse
  <2> QED BY SMTT(30), <2>1, <2>2
<1> QED BY <1>2, <1>3 DEF w

(* Rows.                                                                   *)
LEMMA RowArithmetic ==
  ASSUME NEW R \in Nat \ {0}, NEW q \in Nat, NEW r \in 0..(R - 1)
  PROVE  /\ (q * R + r) % R = r
         /\ (((q * R + r) + 1) + R - 1) \div R = q + 1
         /\ q * R \in Nat /\ (q + 1) * R = q * R + R
         /\ \A i \in 1..q : i * R <= q * R /\ i * R \in Nat
OBVIOUS

LEMMA NoRows ==
  ASSUME NEW R \in Nat \ {0}
  PROVE  (0 + R - 1) \div R = 0
OBVIOUS

-----------------------------------------------------------------------------
LEMMA FormatInitHolds ==
  ASSUME Init
  PROVE  FormatInv
<1> SUFFICES ASSUME prog = "format" PROVE FormatGood
  BY DEF FormatInv
<1> USE DEF start, end, lsb, numBits, idx, octet, avail, out
<1> DEFINE Begins(v, rhs, from, to, order) ==
             Started("format", [vector |-> v, rhs |-> rhs, start |-> from, end |-> to, order |-> order],
                     "start", [idx |-> 0, octet |-> [k \in 0..7 |-> 0], avail |-> 0, out |-> <<>>,
                               lines |-> <<>>])
<1>0. PICK v \in Vectors :
        \E from \in 0..Len(v), to \in 0..Len(v), order \in {"msb", "lsb", "equal", "rows"} :
          /\ from <= to
          /\ order = "lsb" => to - from < BufSz
          /\ order = "rows" => from = 0
          /\ \E rhs \in Vectors :
               /\ Len(rhs) = Len(v) /\ (order # "equal" => rhs = v)
               /\ Begins(v, rhs, from, to, order)
  <2>1. FormatInit
    BY OwnInits
  <2> QED BY <2>1 DEF FormatInit
<1>1. PICK from \in 0..Len(v), to \in 0..Len(v), order \in {"msb", "lsb", "equal", "rows"} :
        /\ from <= to
        /\ order = "lsb" => to - from < BufSz
        /\ order = "rows" => from = 0
        /\ \E rhs \in Vectors :
               /\ Len(rhs) = Len(v) /\ (order # "equal" => rhs = v)
               /\ Begins(v, rhs, from, to, order)
  <2> HIDE DEF Begins
  <2> QED BY <1>0
<1>2. PICK rhs \in Vectors : Len(rhs) = Len(v) /\ Begins(v, rhs, from, to, order)
  <2> HIDE DEF Begins
  <2> QED BY <1>1
<1>3. /\ input.vector = v /\ input.rhs = rhs /\ input.start = from /\ input.end = to /\ input.order = order
      /\ pc = "start" /\ mem.idx = 0 /\ mem.avail = 0 /\ mem.out = <<>> /\ mem.lines = <<>>
      /\ DOMAIN mem = FormatFields
  BY <1>2 DEF Started, FormatFields
<1>4. v \in Seq({0, 1}) /\ rhs \in Seq({0, 1}) /\ Len(v) \in Nat
  BY FormatAssumption
<1>5. FormatInput
  BY <1>1, <1>2, <1>3, <1>4 DEF FormatInput
<1>6. FormatTypes
  BY <1>3 DEF FormatTypes
<1>7. Formatting /\ LinesRight
  BY <1>3 DEF Formatting, LinesRight
<1>8. EqualSoFar
  BY <1>1, <1>3, <1>4 DEF EqualSoFar
<1>9. RowsFit
  BY <1>3, FormatAssumption DEF RowsFit
<1>10. RowsOut
  <2> SUFFICES ASSUME order = "rows"
               PROVE  0 \in 0..to /\ (0 = to => RowsOf(v, RowSz, 0) = <<>>) /\ RowsUpTo(v, RowSz, <<>>, <<>>, 0)
    BY <1>3 DEF RowsOut
  <2>1. RowsOf(v, RowSz, 0) = <<>>
    BY NoRows, FormatAssumption DEF RowsOf
  <2>2. RowsUpTo(v, RowSz, <<>>, <<>>, 0)
    BY FormatAssumption DEF RowsUpTo
  <2> QED BY <1>1, <1>4, <2>1, <2>2
<1> QED BY <1>5, <1>6, <1>7, <1>8, <1>9, <1>10 DEF FormatGood

(* What does not change with any step.                                     *)
LEMMA FormatInputKept ==
  ASSUME FormatInput, input' = input
  PROVE  FormatInput'
BY DEF FormatInput, start, end, numBits

LEMMA TooLongStep ==
  ASSUME FormatGood, logSubVector_too_long
  PROVE  FormatGood'
<1> USE DEF start, end, lsb, numBits, idx, octet, avail, out
<1> DEFINE c == [lines |-> <<"number of bits">>]
<1>1. input.order = "msb" /\ TooLong /\ Step("format", "start", "exit", c)
  BY DEF logSubVector_too_long
<1>2. DOMAIN mem = FormatFields /\ DOMAIN c \subseteq FormatFields
  BY DEF FormatGood, FormatTypes, FormatFields
<1>3. /\ pc = "start" /\ pc' = "exit" /\ input' = input /\ DOMAIN mem' = FormatFields
      /\ \A f \in FormatFields : mem'[f] = IF f \in DOMAIN c THEN c[f] ELSE mem[f]
  <2> HIDE DEF c
  <2> QED BY <1>1, <1>2, StepFields
<1>4. /\ mem'.lines = <<"number of bits">> /\ mem'.out = mem.out /\ mem'.idx = mem.idx
      /\ mem'.avail = mem.avail
  BY <1>3 DEF FormatFields
<1>5. FormatInput' /\ FormatTypes'
  BY <1>3, <1>4, FormatInputKept DEF FormatGood, FormatTypes
<1>6. Formatting'
  <2>1. mem'.out = <<>> /\ pc' = "exit"
    BY <1>1, <1>3, <1>4 DEF FormatGood, Formatting
  <2>2. Len(<<>>) < BufSz
    BY FormatAssumption
  <2> QED BY <2>1, <2>2 DEF Formatting
<1>7. RowsOut' /\ EqualSoFar' /\ RowsFit'
  BY <1>1, <1>3 DEF RowsOut, EqualSoFar, RowsFit
<1>8. LinesRight'
  <2>1. numBits' = numBits
    BY <1>3
  <2>2. start \in Nat /\ end \in Nat /\ BufSz \in Nat
    BY FormatAssumption DEF FormatGood, FormatInput
  <2>3. numBits > BufSz - 1
    BY <1>1 DEF TooLong
  <2>4. ~(numBits < BufSz)
    BY <2>2, <2>3
  <2> HIDE DEF numBits
  <2> QED BY <1>1, <1>3, <1>4, <2>1, <2>4 DEF LinesRight
<1> QED BY <1>5, <1>6, <1>7, <1>8 DEF FormatGood

LEMMA FormatBeginStep ==
  ASSUME FormatGood, format_begin
  PROVE  FormatGood'
<1> USE DEF start, end, lsb, numBits, idx, octet, avail, out
<1> DEFINE c == [idx |-> IF lsb THEN start ELSE end - 1, avail |-> BufSz]
<1>1. /\ input.order \in {"msb", "lsb"} /\ (input.order = "msb" => ~TooLong)
      /\ Step("format", "start", "fetch", c)
  BY DEF format_begin
<1>2. DOMAIN mem = FormatFields /\ DOMAIN c \subseteq FormatFields
  BY DEF FormatGood, FormatTypes, FormatFields
<1>3. /\ pc = "start" /\ pc' = "fetch" /\ input' = input /\ DOMAIN mem' = FormatFields
      /\ \A f \in FormatFields : mem'[f] = IF f \in DOMAIN c THEN c[f] ELSE mem[f]
  <2> HIDE DEF c
  <2> QED BY <1>1, <1>2, StepFields
<1>4. /\ mem'.idx = (IF lsb THEN start ELSE end - 1) /\ mem'.avail = BufSz /\ mem'.out = mem.out
  BY <1>3 DEF FormatFields
<1>t. start \in Nat /\ end \in Nat /\ start <= end /\ BufSz \in Nat
  BY FormatAssumption DEF FormatGood, FormatInput
<1>5. FormatInput' /\ FormatTypes'
  BY <1>t, <1>3, <1>4, FormatInputKept DEF FormatGood, FormatTypes
<1>6. mem'.out = <<>> /\ numBits < BufSz
  BY <1>t, <1>1, <1>3, <1>4 DEF FormatGood, Formatting, FormatInput, TooLong
<1>7. BitsOut'
  BY <1>t, <1>3, <1>4, <1>6 DEF BitsOut
<1>8. Formatting'
  BY <1>t, <1>3, <1>4, <1>6, <1>7 DEF Formatting
<1>9. RowsOut' /\ EqualSoFar' /\ RowsFit' /\ LinesRight'
  BY <1>1, <1>3 DEF RowsOut, EqualSoFar, RowsFit, LinesRight
<1> QED BY <1>5, <1>8, <1>9 DEF FormatGood

LEMMA FetchStep ==
  ASSUME FormatGood, fetch_octet
  PROVE  FormatGood'
<1> USE DEF start, end, lsb, numBits, idx, octet, avail, out
<1> DEFINE c == [octet |-> Octet(idx)]
<1>1. InRange(idx) /\ Step("format", "fetch", "put", c)
  BY DEF fetch_octet
<1>2. DOMAIN mem = FormatFields /\ DOMAIN c \subseteq FormatFields
  BY DEF FormatGood, FormatTypes, FormatFields
<1>3. /\ pc = "fetch" /\ pc' = "put" /\ input' = input /\ DOMAIN mem' = FormatFields
      /\ \A f \in FormatFields : mem'[f] = IF f \in DOMAIN c THEN c[f] ELSE mem[f]
  <2> HIDE DEF c
  <2> QED BY <1>1, <1>2, StepFields
<1>4. mem'.octet = Octet(idx) /\ mem'.idx = mem.idx /\ mem'.avail = mem.avail /\ mem'.out = mem.out
  <2> HIDE DEF Octet
  <2> QED BY <1>3 DEF FormatFields
<1>5. FormatInput' /\ FormatTypes'
  BY <1>3, <1>4, FormatInputKept DEF FormatGood, FormatTypes
<1>6. BitsOut' <=> BitsOut
  BY <1>3, <1>4 DEF BitsOut
<1>7. InRange(idx)' <=> InRange(idx)
  BY <1>3, <1>4 DEF InRange
<1>8. Octet(idx)' = Octet(idx)
  BY <1>3, <1>4 DEF Octet, Bit
<1>9. Formatting'
  BY <1>1, <1>3, <1>4, <1>6, <1>7, <1>8 DEF FormatGood, Formatting
<1>10. RowsOut' /\ EqualSoFar' /\ RowsFit' /\ LinesRight'
  BY <1>3, <1>4 DEF FormatGood, RowsOut, EqualSoFar, RowsFit, LinesRight
<1> QED BY <1>5, <1>9, <1>10 DEF FormatGood

(* One more bit of the output.                                             *)
LEMMA BitAppended ==
  ASSUME NEW s \in Seq({0, 1}), NEW b \in {0, 1}
  PROVE  /\ Append(s, b) \in Seq({0, 1}) /\ Len(Append(s, b)) = Len(s) + 1 /\ Len(s) \in Nat
         /\ Append(s, b)[Len(s) + 1] = b
         /\ \A k \in 1..Len(s) : Append(s, b)[k] = s[k]
OBVIOUS

(* ... of a range that is output upwards from a, and downwards from e - 1. *)
LEMMA LsbAppended ==
  ASSUME NEW v \in Seq({0, 1}), NEW s \in Seq({0, 1}), NEW a \in Nat, NEW n \in Nat, a <= n, n < Len(v),
         Len(s) = n - a, \A k \in 1..Len(s) : s[k] = v[a + k]
  PROVE  /\ Len(Append(s, v[n + 1])) = (n + 1) - a
         /\ \A k \in 1..Len(Append(s, v[n + 1])) : Append(s, v[n + 1])[k] = v[a + k]
<1>1. v[n + 1] \in {0, 1} /\ (Len(s) + 1) + a = n + 1
  OBVIOUS
<1>2. \A k \in 1..(Len(s) + 1) : k \in 1..Len(s) \/ (k = Len(s) + 1 /\ a + k = n + 1)
  OBVIOUS
<1> QED BY <1>1, <1>2, BitAppended

LEMMA MsbAppended ==
  ASSUME NEW v \in Seq({0, 1}), NEW s \in Seq({0, 1}), NEW e \in Nat, NEW n \in Nat, n < e, e <= Len(v),
         Len(s) = (e - 1) - n, \A k \in 1..Len(s) : s[k] = v[(e + 1) - k]
  PROVE  /\ Len(Append(s, v[n + 1])) = (e - 1) - (n - 1)
         /\ \A k \in 1..Len(Append(s, v[n + 1])) : Append(s, v[n + 1])[k] = v[(e + 1) - k]
<1>1. v[n + 1] \in {0, 1} /\ Len(s) + 1 = (e - 1) - (n - 1)
  OBVIOUS
<1>2. \A k \in 1..(Len(s) + 1) : k \in 1..Len(s) \/ (k = Len(s) + 1 /\ (e + 1) - k = n + 1)
  OBVIOUS
<1> QED BY <1>1, <1>2, BitAppended

LEMMA PutBitStep ==
  ASSUME FormatGood, put_bit
  PROVE  FormatGood'
<1> USE DEF start, end, lsb, numBits, idx, octet, avail, out
<1>o. input.order \in {"lsb", "msb"} /\ pc = "put"
  BY DEF put_bit, FormatGood, FormatInput, RowsFit, EqualSoFar, Formatting
<1>t. /\ start \in Nat /\ end \in Nat /\ start <= end /\ end <= Len(input.vector) /\ BufSz \in Nat
      /\ input.vector \in Seq({0, 1}) /\ Len(input.vector) \in Nat
      /\ idx \in Int /\ out \in Seq({0, 1}) /\ Len(out) \in Nat
  BY FormatAssumption DEF FormatGood, FormatInput, FormatTypes
<1>0. numBits < BufSz /\ BitsOut /\ avail = BufSz - Len(out) /\ InRange(idx) /\ octet = Octet(idx)
  BY <1>o DEF FormatGood, Formatting
<1>r. start <= idx /\ idx < end /\ ~(avail <= 1) /\ idx \in Nat /\ idx < Len(input.vector)
  BY SMTT(30), <1>t, <1>0 DEF BitsOut, InRange
<1> DEFINE i == IF lsb THEN idx + 1 ELSE idx - 1
           c == [out |-> Append(out, octet[idx % 8]), avail |-> avail - 1, idx |-> i]
           to == IF NextOctet(i) THEN "fetch" ELSE "put"
<1>1. Step("format", "put", to, c)
  BY <1>r DEF put_bit
<1>2. DOMAIN mem = FormatFields /\ DOMAIN c \subseteq FormatFields
  BY DEF FormatGood, FormatTypes, FormatFields
<1>3. /\ pc' = to /\ input' = input /\ DOMAIN mem' = FormatFields
      /\ \A f \in FormatFields : mem'[f] = IF f \in DOMAIN c THEN c[f] ELSE mem[f]
  <2> HIDE DEF c, to
  <2> QED BY <1>1, <1>2, StepFields
<1> DEFINE b == input.vector[idx + 1]
<1>4. octet[idx % 8] = b /\ b \in {0, 1}
  BY SMTT(30), <1>t, <1>0, <1>r, OctetHoldsBit
<1>5. mem'.out = Append(out, b) /\ mem'.avail = avail - 1 /\ mem'.idx = i /\ mem'.octet = octet
  <2> HIDE DEF i, to, b
  <2> QED BY <1>3, <1>4 DEF FormatFields
<1> HIDE DEF c
<1>6. /\ mem'.out \in Seq({0, 1}) /\ Len(mem'.out) = Len(out) + 1 /\ mem'.out[Len(out) + 1] = b
      /\ \A k \in 1..Len(out) : mem'.out[k] = out[k]
  <2> HIDE DEF b
  <2> QED BY <1>t, <1>4, <1>5, BitAppended
<1>7. i \in Int
  BY <1>t
<1>8. FormatInput' /\ FormatTypes'
  BY <1>t, <1>0, <1>3, <1>5, <1>6, <1>7, FormatInputKept DEF FormatGood, FormatTypes
<1>9. BitsOut'
  <2>1. PICK v, s, e, n, a :
          v = input.vector /\ s = mem.out /\ e = input.end /\ n = mem.idx /\ a = input.start
    OBVIOUS
  <2>2. /\ v \in Seq({0, 1}) /\ s \in Seq({0, 1}) /\ a \in Nat /\ e \in Nat /\ n \in Nat /\ a <= n /\ n < e
        /\ e <= Len(v) /\ n < Len(v)
    BY <1>t, <1>r, <2>1
  <2>3. mem'.out = Append(s, v[n + 1])
    BY <1>5, <2>1
  <2>4. CASE lsb
    <3>1. Len(s) = n - a /\ \A k \in 1..Len(s) : s[k] = v[a + k]
      BY <1>0, <2>1, <2>4 DEF BitsOut
    <3>2. /\ Len(Append(s, v[n + 1])) = (n + 1) - a
          /\ \A k \in 1..Len(Append(s, v[n + 1])) : Append(s, v[n + 1])[k] = v[a + k]
      BY <2>2, <3>1, LsbAppended
    <3>3. a <= n + 1 /\ n + 1 <= e
      BY <2>2
    <3>4. mem'.idx = n + 1 /\ input'.vector = v /\ input'.start = a /\ input'.end = e /\ input'.order = "lsb"
      BY <1>3, <1>5, <2>1, <2>4
    <3> QED BY <2>3, <3>2, <3>3, <3>4 DEF BitsOut
  <2>5. CASE ~lsb
    <3>1. Len(s) = (e - 1) - n /\ \A k \in 1..Len(s) : s[k] = v[(e + 1) - k]
      BY <1>0, <2>1, <2>5 DEF BitsOut
    <3>2. /\ Len(Append(s, v[n + 1])) = (e - 1) - (n - 1)
          /\ \A k \in 1..Len(Append(s, v[n + 1])) : Append(s, v[n + 1])[k] = v[(e + 1) - k]
      BY SMTT(30), <2>2, <3>1, MsbAppended
    <3>3. a - 1 <= n - 1 /\ n - 1 <= e - 1
      BY <2>2
    <3>4. mem'.idx = n - 1 /\ input'.vector = v /\ input'.start = a /\ input'.end = e /\ input'.order # "lsb"
      BY <1>3, <1>5, <2>1, <2>5
    <3> QED BY <2>3, <3>2, <3>3, <3>4 DEF BitsOut
  <2> QED BY <2>4, <2>5
<1>10. mem'.avail = BufSz - Len(mem'.out)
  BY <1>t, <1>0, <1>5, <1>6
<1>11. ~NextOctet(i) => InRange(i) /\ octet = Octet(i)
  <2> SUFFICES ASSUME ~NextOctet(i) PROVE InRange(i) /\ octet = Octet(i)
    OBVIOUS
  <2>1. InRange(i) /\ i % 8 # (IF lsb THEN 0 ELSE 7)
    BY DEF NextOctet
  <2>2. i \div 8 = idx \div 8
    <3>1. CASE lsb
      BY <1>r, <2>1, <3>1, OctetArithmetic
    <3>2. CASE ~lsb
      <4>1. idx > 0
        BY <1>t, <1>r, <2>1, <3>2 DEF InRange
      <4> QED BY <1>r, <2>1, <3>2, <4>1, OctetArithmetic
    <3> QED BY <3>1, <3>2
  <2> HIDE DEF i
  <2> QED BY <1>0, <2>1, <2>2, SameOctet
<1>12. Octet(idx)' = Octet(i)
  BY <1>3, <1>5 DEF Octet, Bit
<1>13. Formatting'
  <2>1. pc' \in {"fetch", "put"} /\ (pc' = "put" => InRange(i) /\ octet = Octet(i))
    BY <1>3, <1>11
  <2>2. InRange(idx)' <=> InRange(i)
    BY <1>3, <1>5 DEF InRange
  <2>3. (numBits < BufSz)'
    BY <1>0, <1>3
  <2> HIDE DEF i, to
  <2> QED BY <1>5, <1>9, <1>10, <1>12, <2>1, <2>2, <2>3 DEF Formatting
<1>14. RowsOut' /\ EqualSoFar' /\ RowsFit' /\ LinesRight'
  BY <1>o, <1>3 DEF RowsOut, EqualSoFar, RowsFit, LinesRight
<1> QED BY <1>8, <1>13, <1>14 DEF FormatGood

LEMMA FormatEndStep ==
  ASSUME FormatGood, format_end
  PROVE  FormatGood'
<1> USE DEF start, end, lsb, numBits, idx, octet, avail, out
<1> DEFINE c == [lines |-> <<out>>]
<1>1. ~InRange(idx) /\ pc = "fetch" /\ Step("format", "fetch", "exit", c)
  BY DEF format_end
<1>o. input.order \in {"lsb", "msb"}
  BY <1>1 DEF FormatGood, FormatInput, RowsFit, EqualSoFar
<1>2. DOMAIN mem = FormatFields /\ DOMAIN c \subseteq FormatFields
  BY DEF FormatGood, FormatTypes, FormatFields
<1>3. /\ pc' = "exit" /\ input' = input /\ DOMAIN mem' = FormatFields
      /\ \A f \in FormatFields : mem'[f] = IF f \in DOMAIN c THEN c[f] ELSE mem[f]
  <2> HIDE DEF c
  <2> QED BY <1>1, <1>2, StepFields
<1>4. mem'.lines = <<out>> /\ mem'.out = mem.out /\ mem'.idx = mem.idx /\ mem'.avail = mem.avail
  BY <1>3 DEF FormatFields
<1> HIDE DEF c
<1>t. /\ start \in Nat /\ end \in Nat /\ start <= end /\ end <= Len(input.vector) /\ BufSz \in Nat
      /\ input.vector \in Seq({0, 1}) /\ Len(input.vector) \in Nat
      /\ idx \in Int /\ out \in Seq({0, 1}) /\ Len(out) \in Nat
  BY FormatAssumption DEF FormatGood, FormatInput, FormatTypes
<1>5. numBits < BufSz /\ BitsOut
  BY <1>1, <1>o DEF FormatGood, Formatting
<1>6. Len(out) = end - start /\ Len(out) < BufSz
  <2>1. CASE lsb
    BY <1>t, <1>1, <1>5, <2>1 DEF BitsOut, InRange
  <2>2. CASE ~lsb
    BY SMTT(30), <1>t, <1>1, <1>5, <2>2 DEF BitsOut, InRange
  <2> QED BY <2>1, <2>2
<1>p. PICK v, s, e, a : v = input.vector /\ s = mem.out /\ e = input.end /\ a = input.start
  OBVIOUS
<1>q. v \in Seq({0, 1}) /\ s \in Seq({0, 1}) /\ a \in Nat /\ e \in Nat /\ a <= e /\ e <= Len(v) /\ Len(s) = e - a
  BY <1>t, <1>6, <1>p
<1>7. lsb => out = Range_lsb
  <2> SUFFICES ASSUME lsb PROVE s = SubSeq(v, a + 1, e)
    BY <1>p DEF Range_lsb
  <2>1. \A k \in 1..Len(s) : s[k] = v[a + k]
    BY <1>5, <1>p DEF BitsOut
  <2> QED BY <1>q, <2>1, IsSubSeq
<1>8. ~lsb => out = Reverse(Range_lsb)
  <2> HIDE DEF Reverse
  <2> SUFFICES ASSUME ~lsb PROVE s = Reverse(SubSeq(v, a + 1, e))
    BY <1>p DEF Range_lsb
  <2>1. \A k \in 1..Len(s) : s[k] = v[(e + 1) - k]
    BY <1>5, <1>p DEF BitsOut
  <2> QED BY <1>q, <2>1, IsReverse
<1>9. Range_lsb' = Range_lsb /\ numBits' = numBits
  BY <1>3 DEF Range_lsb
<1>10. LinesRight'
  <2> HIDE DEF Range_lsb, Reverse
  <2> QED BY <1>o, <1>3, <1>4, <1>5, <1>7, <1>8, <1>9 DEF LinesRight
<1>11. FormatInput' /\ FormatTypes'
  BY <1>3, <1>4, FormatInputKept DEF FormatGood, FormatTypes
<1>12. Formatting'
  BY <1>3, <1>4, <1>6 DEF Formatting
<1>13. RowsOut' /\ EqualSoFar' /\ RowsFit'
  BY <1>o, <1>3 DEF RowsOut, EqualSoFar, RowsFit
<1> QED BY <1>10, <1>11, <1>12, <1>13 DEF FormatGood

(* A bit of a row that is not full, the last bit of one, the last of all.  *)
LEMMA RowGoesOn ==
  ASSUME NEW v \in Seq({0, 1}), NEW R \in Nat \ {0}, NEW L, NEW s, NEW n \in Nat, n < Len(v),
         RowsUpTo(v, R, L, s, n), Len(s) # R - 1
  PROVE  RowsUpTo(v, R, L, Append(s, v[n + 1]), n + 1)
<1> DEFINE a == Len(L) * R
<1>1. L \in Seq(Seq({0, 1})) /\ s \in Seq({0, 1}) /\ Len(L) \in Nat /\ Len(s) \in 0..(R - 1)
  BY DEF RowsUpTo
<1>2. a \in Nat
  BY <1>1, RowArithmetic
<1>3. n = a + Len(s) /\ \A k \in 1..Len(s) : s[k] = v[a + k]
  BY DEF RowsUpTo
<1> HIDE DEF a
<1>4. /\ Len(Append(s, v[n + 1])) = (n + 1) - a
      /\ \A k \in 1..Len(Append(s, v[n + 1])) : Append(s, v[n + 1])[k] = v[a + k]
  BY <1>1, <1>2, <1>3, LsbAppended
<1>5. v[n + 1] \in {0, 1} /\ Len(Append(s, v[n + 1])) = Len(s) + 1 /\ Append(s, v[n + 1]) \in Seq({0, 1})
  BY <1>1
<1>6. n + 1 = a + (Len(s) + 1) /\ Len(s) + 1 < R
  BY <1>1, <1>2, <1>3
<1> QED BY <1>1, <1>4, <1>5, <1>6 DEF RowsUpTo, a

(* The bits of a row, whatever its length.                                 *)
LEMMA RowBits ==
  ASSUME NEW v \in Seq({0, 1}), NEW R \in Nat \ {0}, NEW L, NEW s, NEW n \in Nat, n < Len(v),
         RowsUpTo(v, R, L, s, n)
  PROVE  Append(s, v[n + 1]) = SubSeq(v, Len(L) * R + 1, n + 1)
<1> DEFINE a == Len(L) * R
<1>1. L \in Seq(Seq({0, 1})) /\ s \in Seq({0, 1}) /\ Len(L) \in Nat /\ Len(s) \in 0..(R - 1)
  BY DEF RowsUpTo
<1>2. a \in Nat
  BY <1>1, RowArithmetic
<1>3. n = a + Len(s) /\ \A k \in 1..Len(s) : s[k] = v[a + k]
  BY DEF RowsUpTo
<1> HIDE DEF a
<1>4. /\ Len(Append(s, v[n + 1])) = (n + 1) - a
      /\ \A k \in 1..Len(Append(s, v[n + 1])) : Append(s, v[n + 1])[k] = v[a + k]
  BY <1>1, <1>2, <1>3, LsbAppended
<1>5. Append(s, v[n + 1]) \in Seq({0, 1}) /\ n + 1 \in Nat /\ a <= n + 1 /\ n + 1 <= Len(v)
  BY <1>1, <1>2, <1>3
<1>6. Append(s, v[n + 1]) = SubSeq(v, a + 1, n + 1)
  <2> DEFINE w == Append(s, v[n + 1])
  <2>1. w \in Seq({0, 1}) /\ Len(w) = (n + 1) - a /\ \A k \in 1..Len(w) : w[k] = v[a + k]
    BY <1>4, <1>5
  <2> HIDE DEF w
  <2>2. w = SubSeq(v, a + 1, n + 1)
    BY <1>2, <1>5, <2>1, IsSubSeq
  <2> QED BY <2>2 DEF w
<1> QED BY <1>6 DEF a

LEMMA RowIsFull ==
  ASSUME NEW v \in Seq({0, 1}), NEW R \in Nat \ {0}, NEW L, NEW s, NEW n \in Nat, n < Len(v),
         RowsUpTo(v, R, L, s, n), Len(s) = R - 1
  PROVE  RowsUpTo(v, R, Append(L, Append(s, v[n + 1])), <<>>, n + 1)
<1> DEFINE row == Append(s, v[n + 1])
           M == Append(L, row)
<1>1. L \in Seq(Seq({0, 1})) /\ s \in Seq({0, 1}) /\ Len(L) \in Nat /\ Len(s) \in 0..(R - 1)
      /\ n = Len(L) * R + Len(s) /\ \A i \in 1..Len(L) : L[i] = SubSeq(v, (i - 1) * R + 1, i * R)
  BY DEF RowsUpTo
<1>2. (Len(L) + 1) * R = Len(L) * R + R /\ Len(L) * R \in Nat
  BY <1>1, RowArithmetic
<1>3. n + 1 = (Len(L) + 1) * R
  BY <1>1, <1>2
<1>4. row = SubSeq(v, Len(L) * R + 1, (Len(L) + 1) * R)
  <2>1. row = SubSeq(v, Len(L) * R + 1, n + 1)
    BY SMTT(30), RowBits
  <2> HIDE DEF row
  <2> QED BY Zenon, <1>3, <2>1
<1>5. row \in Seq({0, 1})
  BY <1>1
<1> HIDE DEF row
<1>6. M \in Seq(Seq({0, 1})) /\ Len(M) = Len(L) + 1 /\ M[Len(L) + 1] = row /\ \A i \in 1..Len(L) : M[i] = L[i]
  BY <1>1, <1>5
<1> HIDE DEF M
<1>7. ASSUME NEW i \in 1..Len(M) PROVE M[i] = SubSeq(v, (i - 1) * R + 1, i * R)
  <2>1. CASE i \in 1..Len(L)
    BY <1>1, <1>6, <2>1
  <2>2. CASE i = Len(L) + 1
    <3>1. i - 1 = Len(L)
      BY <1>1, <2>2
    <3>2. M[i] = row
      BY Zenon, <1>6, <2>2
    <3>3. (i - 1) * R + 1 = Len(L) * R + 1 /\ i * R = (Len(L) + 1) * R
      BY <2>2, <3>1
    <3> QED BY Zenon, <1>4, <3>2, <3>3
  <2>3. i \in 1..Len(L) \/ i = Len(L) + 1
    <3>1. PICK q \in Nat : q = Len(L) /\ Len(M) = q + 1
      BY Zenon, <1>1, <1>6
    <3>2. i \in 1..(q + 1)
      BY Zenon, <3>1
    <3>3. i \in 1..q \/ i = q + 1
      BY <3>2
    <3> QED BY Zenon, <3>1, <3>3
  <2> QED BY Zenon, <2>1, <2>2, <2>3
<1>8. n + 1 = Len(M) * R + 0 /\ 0 < R
  BY <1>3, <1>6
<1>9. RowsUpTo(v, R, M, <<>>, n + 1)
  <2> DEFINE none == <<>>
  <2>1. none \in Seq({0, 1}) /\ Len(none) = 0 /\ 1..Len(none) = {}
    OBVIOUS
  <2> HIDE DEF none
  <2>2. n + 1 = Len(M) * R + Len(none) /\ Len(none) < R
    BY Zenon, <1>8, <2>1
  <2>3. \A k \in 1..Len(none) : none[k] = v[Len(M) * R + k]
    BY Zenon, <2>1
  <2>4. RowsUpTo(v, R, M, none, n + 1)
    BY Zenon, <1>6, <1>7, <2>1, <2>2, <2>3 DEF RowsUpTo
  <2> QED BY Zenon, <2>4 DEF none
<1> QED BY <1>9 DEF row, M

LEMMA RowsEnd ==
  ASSUME NEW v \in Seq({0, 1}), NEW R \in Nat \ {0}, NEW L, NEW s, NEW n \in Nat, n < Len(v),
         RowsUpTo(v, R, L, s, n)
  PROVE  Append(L, Append(s, v[n + 1])) = RowsOf(v, R, n + 1)
<1> DEFINE row == Append(s, v[n + 1])
           M == Append(L, row)
<1>1. L \in Seq(Seq({0, 1})) /\ s \in Seq({0, 1}) /\ Len(L) \in Nat /\ Len(s) \in 0..(R - 1)
      /\ n = Len(L) * R + Len(s) /\ \A i \in 1..Len(L) : L[i] = SubSeq(v, (i - 1) * R + 1, i * R)
  BY DEF RowsUpTo
<1>2. /\ (Len(L) + 1) * R = Len(L) * R + R /\ Len(L) * R \in Nat
      /\ \A i \in 1..Len(L) : i * R <= Len(L) * R /\ i * R \in Nat
      /\ ((n + 1) + R - 1) \div R = Len(L) + 1
  BY <1>1, RowArithmetic
<1>3. row = SubSeq(v, Len(L) * R + 1, n + 1)
  BY RowBits
<1>4. row \in Seq({0, 1})
  BY <1>1
<1> HIDE DEF row
<1>6. M \in Seq(Seq({0, 1})) /\ Len(M) = Len(L) + 1 /\ M[Len(L) + 1] = row /\ \A i \in 1..Len(L) : M[i] = L[i]
  BY <1>1, <1>4
<1> HIDE DEF M
<1>7. ASSUME NEW i \in 1..(Len(L) + 1)
      PROVE  M[i] = SubSeq(v, (i - 1) * R + 1, IF i * R <= n + 1 THEN i * R ELSE n + 1)
  <2>1. CASE i \in 1..Len(L)
    <3>1. i * R <= n + 1
      BY <1>1, <1>2, <2>1
    <3> QED BY <1>1, <1>6, <2>1, <3>1
  <2>2. CASE i = Len(L) + 1
    <3>1. PICK x : x = Len(L) * R
      OBVIOUS
    <3>2. i - 1 = Len(L) /\ i * R = x + R
      BY <1>1, <1>2, <2>2, <3>1
    <3>3. x \in Nat /\ n = x + Len(s) /\ Len(s) \in 0..(R - 1)
      BY <1>1, <1>2, <3>1
    <3>4. x + R <= n + 1 => x + R = n + 1
      BY <3>3
    <3> QED BY <1>3, <1>6, <2>2, <3>1, <3>2, <3>4
  <2>3. i \in 1..Len(L) \/ i = Len(L) + 1
    BY <1>1
  <2> QED BY <2>1, <2>2, <2>3
<1>8. M = [i \in 1..(Len(L) + 1) |-> M[i]]
  BY <1>6
<1>9. M = RowsOf(v, R, n + 1)
  BY <1>2, <1>7, <1>8 DEF RowsOf
<1> QED BY <1>9 DEF row, M

LEMMA LogVectorStep ==
  ASSUME FormatGood, log_vector
  PROVE  FormatGood'
<1> USE DEF start, end, lsb, numBits, idx, octet, avail, out
<1>t. /\ input.order = "rows" /\ pc = "start" /\ start = 0 /\ end \in Nat /\ end <= Len(input.vector)
      /\ input.vector \in Seq({0, 1}) /\ Len(input.vector) \in Nat /\ RowSz \in Nat \ {0}
      /\ idx \in 0..end /\ DOMAIN mem = FormatFields
  BY FormatAssumption DEF log_vector, FormatGood, FormatInput, FormatTypes, RowsOut
<1>n. numBits = end
  BY <1>t
<1>1. CASE idx >= numBits
  <2>1. Step("format", "start", "exit", Nothing)
    BY <1>t, <1>1 DEF log_vector
  <2>2. /\ pc' = "exit" /\ input' = input /\ DOMAIN mem' = FormatFields
        /\ \A f \in FormatFields : mem'[f] = mem[f]
    BY <1>t, <2>1, StepFields, NothingChanges
  <2>3. mem'.out = mem.out /\ mem'.lines = mem.lines /\ mem'.idx = mem.idx /\ mem'.avail = mem.avail
    BY <2>2 DEF FormatFields
  <2>4. mem.out = <<>> /\ mem.lines = RowsOf(input.vector, RowSz, end)
    BY <1>t, <1>n, <1>1 DEF FormatGood, RowsOut
  <2>5. FormatInput' /\ FormatTypes'
    BY <2>2, <2>3, FormatInputKept DEF FormatGood, FormatTypes
  <2>6. Rows' = RowsOf(input.vector, RowSz, end)
    BY <1>n, <2>2 DEF Rows, RowsOf
  <2>7. Formatting' /\ RowsOut' /\ EqualSoFar' /\ LinesRight'
    BY <1>t, <2>2, <2>3, <2>4, <2>6 DEF Formatting, RowsOut, EqualSoFar, LinesRight
  <2>8. RowsFit'
    BY <1>t, <2>2, <2>3 DEF FormatGood, RowsFit
  <2> QED BY <2>5, <2>7, <2>8 DEF FormatGood
<1>2. CASE idx < numBits
  <2> DEFINE row == Append(out, Bit(idx))
             done == idx + 1 >= numBits \/ idx % RowSz = RowSz - 1
             c == [ idx |-> idx + 1, out |-> IF done THEN <<>> ELSE row,
                    lines |-> IF done THEN Append(mem.lines, row) ELSE mem.lines ]
  <2>1. Step("format", "start", "start", c)
    <3> DEFINE Logs(rw, d) == Step("format", "start", "start",
                                   [ idx |-> idx + 1, out |-> IF d THEN <<>> ELSE rw,
                                     lines |-> IF d THEN Append(mem.lines, rw) ELSE mem.lines ])
    <3>1. ~(idx >= numBits)
      BY <1>t, <1>n, <1>2
    <3>2. \E rw \in {row} : \E d \in {done} : Logs(rw, d)
      BY <3>1, Zenon DEF log_vector
    <3>3. Logs(row, done)
      <4> HIDE DEF Logs, row, done
      <4> QED BY <3>2
    <3> QED BY <3>3
  <2>2. DOMAIN c \subseteq FormatFields
    BY DEF FormatFields
  <2>3. /\ pc' = "start" /\ input' = input /\ DOMAIN mem' = FormatFields
        /\ \A f \in FormatFields : mem'[f] = IF f \in DOMAIN c THEN c[f] ELSE mem[f]
    <3> HIDE DEF c
    <3> QED BY <1>t, <2>1, <2>2, StepFields
  <2>4. /\ mem'.idx = idx + 1 /\ mem'.out = (IF done THEN <<>> ELSE row) /\ mem'.avail = mem.avail
        /\ mem'.lines = (IF done THEN Append(mem.lines, row) ELSE mem.lines)
    <3> HIDE DEF done, row
    <3> QED BY <2>3 DEF FormatFields
  <2> HIDE DEF c
  <2>5. PICK v, s, L, e, n : v = input.vector /\ s = mem.out /\ L = mem.lines /\ e = input.end /\ n = mem.idx
    OBVIOUS
  <2>6. v \in Seq({0, 1}) /\ e \in Nat /\ n \in Nat /\ n < e /\ e <= Len(v) /\ Len(v) \in Nat /\ n < Len(v)
    BY <1>t, <1>n, <1>2, <2>5
  <2>7. RowsUpTo(v, RowSz, L, s, n)
    BY <1>t, <1>n, <1>2, <2>5 DEF FormatGood, RowsOut
  <2>8. row = Append(s, v[n + 1])
    BY <2>5 DEF Bit
  <2>9. n % RowSz = Len(s) /\ Len(s) \in Nat /\ s \in Seq({0, 1}) /\ Len(s) < RowSz /\ L \in Seq(Seq({0, 1}))
    <3>1. s \in Seq({0, 1}) /\ L \in Seq(Seq({0, 1})) /\ Len(s) \in 0..(RowSz - 1) /\ Len(L) \in Nat
          /\ n = Len(L) * RowSz + Len(s)
      BY <1>t, <2>7 DEF RowsUpTo
    <3>2. PICK q, r : q = Len(L) /\ r = Len(s)
      OBVIOUS
    <3>3. q \in Nat /\ r \in 0..(RowSz - 1) /\ RowSz \in Nat \ {0}
      BY <1>t, <3>1, <3>2
    <3>4. (q * RowSz + r) % RowSz = r
      BY <3>3, RowArithmetic
    <3> QED BY <1>t, <3>1, <3>2, <3>4
  <2>10. done <=> (n + 1 >= e \/ Len(s) = RowSz - 1)
    BY <1>n, <2>5, <2>9
  <2> HIDE DEF done, row
  <2>11. row \in Seq({0, 1}) /\ Len(row) = Len(s) + 1
    <3>1. v[n + 1] \in {0, 1}
      BY <2>6
    <3> QED BY <2>8, <2>9, <3>1
  <2>12. n + 1 \in 0..e /\ (n + 1 = e <=> n + 1 >= e)
    BY <2>6
  <2>13. FormatInput' /\ FormatTypes'
    <3>1. mem'.out \in Seq({0, 1})
      BY <2>4, <2>11
    <3>2. n + 1 \in Int /\ mem'.idx = n + 1
      BY <2>4, <2>5, <2>6
    <3> QED BY <2>3, <2>4, <3>1, <3>2, FormatInputKept DEF FormatGood, FormatTypes
  <2>14. RowsOut'
    <3>1. CASE n + 1 >= e
      <4>1. Append(L, Append(s, v[n + 1])) = RowsOf(v, RowSz, e)
        <5>1. Append(L, Append(s, v[n + 1])) = RowsOf(v, RowSz, n + 1)
          BY <1>t, <2>6, <2>7, RowsEnd
        <5> QED BY <2>12, <3>1, <5>1
      <4>2. mem'.out = <<>> /\ mem'.lines = RowsOf(v, RowSz, e) /\ mem'.idx = n + 1
        BY <2>4, <2>5, <2>8, <2>10, <3>1, <4>1
      <4>3. ~(n + 1 < e)
        BY <2>6, <3>1
      <4> QED BY <2>3, <2>5, <2>12, <4>2, <4>3 DEF RowsOut
    <3>2. CASE n + 1 < e /\ Len(s) = RowSz - 1
      <4>1. RowsUpTo(v, RowSz, Append(L, Append(s, v[n + 1])), <<>>, n + 1)
        BY <1>t, <2>6, <2>7, <3>2, RowIsFull
      <4>2. mem'.out = <<>> /\ mem'.lines = Append(L, Append(s, v[n + 1])) /\ mem'.idx = n + 1
        BY <2>4, <2>5, <2>8, <2>10, <3>2
      <4>3. n + 1 # e
        BY <2>6, <3>2
      <4> QED BY <2>3, <2>5, <2>12, <4>1, <4>2, <4>3 DEF RowsOut
    <3>3. CASE n + 1 < e /\ Len(s) # RowSz - 1
      <4>1. RowsUpTo(v, RowSz, L, Append(s, v[n + 1]), n + 1)
        BY <1>t, <2>6, <2>7, <3>3, RowGoesOn
      <4>2. ~(n + 1 >= e) /\ n + 1 # e
        BY <2>6, <3>3
      <4>3. mem'.out = Append(s, v[n + 1]) /\ mem'.lines = L /\ mem'.idx = n + 1
        BY <2>4, <2>5, <2>8, <2>10, <3>3, <4>2
      <4> QED BY <2>3, <2>5, <2>12, <4>1, <4>2, <4>3 DEF RowsOut
    <3> QED BY <2>6, <3>1, <3>2, <3>3
  <2>15. RowsFit'
    <3>1. Len(mem'.out) <= RowSz
      <4>1. Len(<<>>) <= RowSz
        BY <1>t
      <4>2. Len(row) <= RowSz
        BY <1>t, <2>9, <2>11
      <4> QED BY <2>4, <4>1, <4>2
    <3> QED BY <1>t, <2>3, <3>1 DEF RowsFit
  <2>16. Formatting' /\ EqualSoFar' /\ LinesRight'
    BY <1>t, <2>3 DEF Formatting, EqualSoFar, LinesRight
  <2> QED BY <2>13, <2>14, <2>15, <2>16 DEF FormatGood
<1> QED BY <1>t, <1>n, <1>1, <1>2

(* Ranges that differ nowhere are equal, those that differ somewhere not.  *)
LEMMA SameRanges ==
  ASSUME NEW v \in Seq({0, 1}), NEW w \in Seq({0, 1}), Len(w) = Len(v),
         NEW a \in Nat, NEW b \in Nat, a <= b, b <= Len(v),
         \A k \in 1..(b - a) : v[a + k] = w[a + k]
  PROVE  SubSeq(v, a + 1, b) = SubSeq(w, a + 1, b)
<1> DEFINE s == SubSeq(v, a + 1, b)
<1>1. s \in Seq({0, 1}) /\ Len(s) = b - a /\ \A k \in 1..(b - a) : s[k] = v[a + k]
  OBVIOUS
<1> HIDE DEF s
<1>2. \A k \in 1..(b - a) : s[k] = w[a + k]
  BY <1>1
<1>3. s = SubSeq(w, a + 1, b)
  BY <1>1, <1>2, IsSubSeq
<1> QED BY <1>3 DEF s

LEMMA OtherRanges ==
  ASSUME NEW v \in Seq({0, 1}), NEW w \in Seq({0, 1}), Len(w) = Len(v),
         NEW a \in Nat, NEW b \in Nat, a <= b, b <= Len(v),
         NEW k \in 1..(b - a), v[a + k] # w[a + k]
  PROVE  SubSeq(v, a + 1, b) # SubSeq(w, a + 1, b)
<1>1. SubSeq(v, a + 1, b)[k] = v[a + k]
  OBVIOUS
<1>2. SubSeq(w, a + 1, b)[k] = w[a + k]
  OBVIOUS
<1> QED BY <1>1, <1>2

(* The end of a comparison with the answer it should have.                 *)
LEMMA EqualEnds ==
  ASSUME FormatGood, input.order = "equal", NEW answer \in BOOLEAN,
         Step("format", "start", "exit", [lines |-> <<answer>>]),
         answer <=> Range_lsb = SubSeq(input.rhs, start + 1, end)
  PROVE  FormatGood'
<1> USE DEF start, end, lsb, numBits, idx, octet, avail, out
<1> DEFINE c == [lines |-> <<answer>>]
<1>1. DOMAIN mem = FormatFields /\ DOMAIN c \subseteq FormatFields
  BY DEF FormatGood, FormatTypes, FormatFields
<1>2. /\ pc = "start" /\ pc' = "exit" /\ input' = input /\ DOMAIN mem' = FormatFields
      /\ \A f \in FormatFields : mem'[f] = IF f \in DOMAIN c THEN c[f] ELSE mem[f]
  <2>1. Step("format", "start", "exit", c)
    OBVIOUS
  <2> HIDE DEF c
  <2> QED BY <1>1, <2>1, StepFields
<1>3. c.lines = <<answer>> /\ DOMAIN c = {"lines"}
  OBVIOUS
<1> HIDE DEF c
<1>4. mem'.lines = <<answer>> /\ mem'.out = mem.out /\ mem'.idx = mem.idx /\ mem'.avail = mem.avail
  BY <1>2, <1>3 DEF FormatFields
<1>5. FormatInput' /\ FormatTypes'
  BY <1>2, <1>4, FormatInputKept DEF FormatGood, FormatTypes
<1>6. (Range_lsb = SubSeq(input.rhs, start + 1, end))' <=> (Range_lsb = SubSeq(input.rhs, start + 1, end))
  BY <1>2 DEF Range_lsb
<1>7. LinesRight'
  <2> DEFINE same == (Range_lsb = SubSeq(input.rhs, start + 1, end))'
  <2>1. answer = same
    BY <1>6
  <2>2. mem'.lines = <<same>>
    BY <1>4, <2>1, Zenon
  <2>3. input'.order = "equal"
    BY <1>2
  <2> QED BY <2>2, <2>3 DEF LinesRight
<1>8. EqualSoFar'
  BY <1>2, <1>4 DEF FormatGood, EqualSoFar
<1>9. Formatting' /\ RowsOut' /\ RowsFit'
  BY <1>2, <1>4 DEF Formatting, RowsOut, RowsFit
<1> QED BY <1>5, <1>7, <1>8, <1>9 DEF FormatGood

LEMMA EqualStep ==
  ASSUME FormatGood, bit_vector_equal
  PROVE  FormatGood'
<1> USE DEF start, end, lsb, numBits, idx, octet, avail, out
<1>1. input.order = "equal" /\ pc = "start"
  BY DEF bit_vector_equal
<1>2. PICK v, w, a, e, n :
        v = input.vector /\ w = input.rhs /\ a = input.start /\ e = input.end /\ n = mem.idx
  OBVIOUS
<1>3. /\ v \in Seq({0, 1}) /\ w \in Seq({0, 1}) /\ Len(w) = Len(v) /\ a \in Nat /\ e \in Nat /\ a <= e
      /\ e <= Len(v) /\ n \in 0..(e - a) /\ \A k \in 1..n : v[a + k] = w[a + k]
  BY <1>1, <1>2 DEF FormatGood, FormatInput, EqualSoFar
<1>4. CASE n >= e - a
  <2>1. n = e - a
    BY <1>3, <1>4
  <2>2. SubSeq(v, a + 1, e) = SubSeq(w, a + 1, e)
    BY <1>3, <2>1, SameRanges
  <2>3. ~(n < e - a)
    BY <1>3, <1>4
  <2>4. Step("format", "start", "exit", [lines |-> <<TRUE>>])
    BY <1>2, <2>3 DEF bit_vector_equal
  <2>5. TRUE <=> Range_lsb = SubSeq(input.rhs, start + 1, end)
    BY <1>2, <2>2 DEF Range_lsb
  <2> QED BY <1>1, <2>4, <2>5, EqualEnds
<1>5. CASE n < e - a /\ Bit(start + idx) # input.rhs[start + idx + 1]
  <2>1. n + 1 \in 1..(e - a) /\ a + n + 1 = a + (n + 1)
    BY <1>3, <1>5
  <2>2. v[a + (n + 1)] # w[a + (n + 1)]
    BY <1>2, <1>5, <2>1 DEF Bit
  <2>3. SubSeq(v, a + 1, e) # SubSeq(w, a + 1, e)
    BY <1>3, <2>1, <2>2, OtherRanges
  <2>4. ~(n >= e - a)
    BY <1>3, <1>5
  <2>5. Step("format", "start", "exit", [lines |-> <<FALSE>>])
    BY <1>2, <1>5, <2>4 DEF bit_vector_equal
  <2>6. FALSE <=> Range_lsb = SubSeq(input.rhs, start + 1, end)
    BY <1>2, <2>3 DEF Range_lsb
  <2> QED BY <1>1, <2>5, <2>6, EqualEnds
<1>6. CASE n < e - a /\ Bit(start + idx) = input.rhs[start + idx + 1]
  <2> DEFINE c == [idx |-> idx + 1]
  <2>1. ~(n >= e - a)
    BY <1>3, <1>6
  <2>2. Step("format", "start", "start", c)
    BY <1>2, <1>6, <2>1 DEF bit_vector_equal
  <2>3. DOMAIN mem = FormatFields /\ DOMAIN c \subseteq FormatFields
    BY DEF FormatGood, FormatTypes, FormatFields
  <2>4. /\ pc' = "start" /\ input' = input /\ DOMAIN mem' = FormatFields
        /\ \A f \in FormatFields : mem'[f] = IF f \in DOMAIN c THEN c[f] ELSE mem[f]
    <3> HIDE DEF c
    <3> QED BY <2>2, <2>3, StepFields
  <2>5. mem'.idx = n + 1 /\ mem'.out = mem.out /\ mem'.avail = mem.avail
    BY <1>2, <2>4 DEF FormatFields
  <2>6. n + 1 \in 0..(e - a) /\ n + 1 \in Int /\ a + n + 1 = a + (n + 1)
    BY <1>3, <1>6
  <2>7. v[a + (n + 1)] = w[a + (n + 1)]
    BY <1>2, <1>6, <2>6 DEF Bit
  <2>8. \A k \in 1..(n + 1) : v[a + k] = w[a + k]
    <3>1. \A k \in 1..(n + 1) : k \in 1..n \/ k = n + 1
      BY <1>3
    <3> QED BY <1>3, <2>7, <3>1
  <2>9. FormatInput' /\ FormatTypes'
    BY <2>4, <2>5, <2>6, FormatInputKept DEF FormatGood, FormatTypes
  <2>10. EqualSoFar'
    BY <1>1, <1>2, <2>4, <2>5, <2>6, <2>8 DEF FormatGood, EqualSoFar
  <2>11. Formatting' /\ RowsOut' /\ RowsFit' /\ LinesRight'
    BY <1>1, <2>4 DEF Formatting, RowsOut, RowsFit, LinesRight
  <2> QED BY <2>9, <2>10, <2>11 DEF FormatGood
<1> QED BY <1>3, <1>4, <1>5, <1>6

-----------------------------------------------------------------------------
LEMMA FormatInvStep ==
  ASSUME FormatInv, [Next]_vars
  PROVE  FormatInv'
<1> SUFFICES ASSUME prog' = "format" PROVE FormatGood'
  BY DEF FormatInv
<1>1. prog = "format"
  BY SameProgram
<1>2. FormatGood
  BY <1>1 DEF FormatInv
<1>3. CASE UNCHANGED vars
  <2>1. pc' = pc /\ mem' = mem /\ input' = input
    BY <1>3 DEF vars
  <2>2. FormatInput' /\ FormatTypes'
    BY <1>2, <2>1, FormatInputKept DEF FormatGood, FormatTypes, idx, avail, out
  <2>3. (BitsOut' <=> BitsOut) /\ (InRange(idx)' <=> InRange(idx)) /\ Octet(idx)' = Octet(idx)
    BY <2>1 DEF BitsOut, InRange, Octet, Bit, idx, out, start, end, lsb
  <2>4. Formatting'
    BY <1>2, <2>1, <2>3 DEF FormatGood, Formatting, out, avail, octet, numBits, start, end
  <2>5. RowsOut' /\ EqualSoFar' /\ RowsFit'
    BY <1>2, <2>1 DEF FormatGood, RowsOut, EqualSoFar, RowsFit, idx, out, numBits, start, end
  <2>6. Range_lsb' = Range_lsb /\ Rows' = Rows /\ numBits' = numBits /\ start' = start /\ end' = end
    BY <2>1 DEF Range_lsb, Rows, numBits, start, end
  <2>7. LinesRight'
    <3> HIDE DEF Reverse
    <3> QED BY <1>2, <2>1, <2>6 DEF FormatGood, LinesRight
  <2> QED BY <2>2, <2>4, <2>5, <2>7 DEF FormatGood
<1>4. CASE FormatNext
  BY <1>2, <1>4, TooLongStep, FormatBeginStep, FetchStep, PutBitStep, FormatEndStep, LogVectorStep, EqualStep
     DEF FormatNext
<1> QED BY <1>1, <1>3, <1>4, OwnSteps

(* LoggedBits holds of vectors, buffers and rows of any size: whatever     *)
(* part of an octet a range begins or ends in, bit_vector.c's loops put    *)
(* each of its bits out once, in order, and return.                        *)
THEOREM EveryBitIsLogged == Spec => []LoggedBits
<1>1. Init => FormatInv
  BY FormatInitHolds
<1>2. FormatInv /\ [Next]_vars => FormatInv'
  BY FormatInvStep
<1>3. FormatInv => LoggedBits
  <2> SUFFICES ASSUME FormatGood
               PROVE  /\ Len(out) < (IF input.order = "rows" THEN RowSz + 1 ELSE BufSz)
                      /\ pc = "exit" =>
                           CASE input.order = "lsb"   -> mem.lines = <<Range_lsb>>
                             [] input.order = "msb"   ->
                                  mem.lines = (IF numBits < BufSz THEN <<Reverse(Range_lsb)>>
                                                                  ELSE <<"number of bits">>)
                             [] input.order = "rows"  -> mem.lines = Rows
                             [] input.order = "equal" ->
                                  mem.lines = <<Range_lsb = SubSeq(input.rhs, start + 1, end)>>
    BY DEF FormatInv, LoggedBits
  <2>1. input.order \in {"msb", "lsb", "equal", "rows"} /\ out \in Seq({0, 1}) /\ Len(out) \in Nat
    BY DEF FormatGood, FormatInput, FormatTypes
  <2>2. CASE input.order = "rows"
    <3>1. Len(out) < RowSz + 1
      BY <2>1, <2>2, FormatAssumption DEF FormatGood, RowsFit
    <3>2. pc = "exit" => mem.lines = Rows
      BY <2>2 DEF FormatGood, LinesRight
    <3> QED BY <2>2, <3>1, <3>2
  <2>3. CASE input.order = "equal"
    <3>1. Len(out) < BufSz
      <4>1. out = <<>>
        BY <2>3 DEF FormatGood, EqualSoFar
      <4> QED BY <4>1, FormatAssumption
    <3>2. pc = "exit" => mem.lines = <<Range_lsb = SubSeq(input.rhs, start + 1, end)>>
      BY <2>3 DEF FormatGood, LinesRight
    <3> QED BY <2>3, <3>1, <3>2
  <2>4. CASE input.order \in {"lsb", "msb"}
    <3>1. Len(out) < BufSz
      <4>1. pc \in {"start", "fetch", "put", "exit"}
        BY DEF FormatGood, FormatTypes
      <4>2. start \in Nat /\ end \in Nat /\ start <= end /\ idx \in Int /\ BufSz \in Nat \ {0}
        BY FormatAssumption DEF FormatGood, FormatInput, FormatTypes
      <4>3. CASE pc \in {"fetch", "put"}
        <5>1. BitsOut /\ numBits < BufSz
          BY <2>4, <4>3 DEF FormatGood, Formatting
        <5>2. CASE lsb
          BY <2>1, <4>2, <5>1, <5>2 DEF BitsOut, numBits
        <5>3. CASE ~lsb
          BY <2>1, <4>2, <5>1, <5>3 DEF BitsOut, numBits
        <5> QED BY <5>2, <5>3
      <4>4. CASE pc = "exit"
        BY <2>4, <4>4 DEF FormatGood, Formatting
      <4>5. CASE pc = "start"
        <5>1. out = <<>>
          BY <2>4, <4>5 DEF FormatGood, Formatting
        <5> QED BY <4>2, <5>1
      <4> QED BY <4>1, <4>3, <4>4, <4>5
    <3>2. CASE input.order = "lsb"
      BY <2>1, <3>1, <3>2 DEF FormatGood, LinesRight
    <3>3. CASE input.order = "msb"
      <4> HIDE DEF Reverse
      <4> QED BY <2>1, <3>1, <3>3 DEF FormatGood, LinesRight
    <3> QED BY <2>4, <3>2, <3>3
  <2> QED BY <2>1, <2>2, <2>3, <2>4
<1> QED BY <1>1, <1>2, <1>3, PTL DEF Spec
=============================================================================
