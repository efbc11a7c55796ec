---------------------------- MODULE FtdiDriverProofs ----------------------------
(***************************************************************************)
(* Theorems about FtdiDriver: a call that succeeded has shifted and stored *)
(* every bit, failures are reported, read-back fits the chip, and until a  *)
(* D2XX call fails the driver is the sink the splitter expects, for every  *)
(* chip, every pool and every request.                                     *)
(***************************************************************************)
EXTENDS FtdiDriver, Induction, FiniteSetTheorems, SequenceTheorems

-----------------------------------------------------------------------------
(* The chip.                                                               *)

(* after[n] is what chip c may be after n of the commands tx. *)
Feeds(after, c, tx, N) ==
  after = [n \in 0..N |-> IF n = 0 THEN {c} ELSE StepOf(after[n - 1], tx[n])]

(* There is such a function. *)
LEMMA FeedExists ==
  ASSUME NEW c, NEW tx, NEW N \in Nat
  PROVE  \E after : Feeds(after, c, tx, N)
<1> DEFINE S == {n \in Nat : \E f : Feeds(f, c, tx, n)}
<1>1. 0 \in S
  <2> DEFINE f == [k \in 0..0 |-> {c}]
  <2>1. Feeds(f, c, tx, 0)
    BY DEF Feeds
  <2> QED BY <2>1
<1>2. ASSUME NEW n \in Nat, n \in S PROVE n + 1 \in S
  <2>1. PICK f : Feeds(f, c, tx, n)
    BY <1>2
  <2> DEFINE g == [k \in 0..(n + 1) |->
                     IF k = n + 1 THEN StepOf(f[n], tx[n + 1]) ELSE f[k]]
  <2>2. f = [k \in 0..n |-> IF k = 0 THEN {c} ELSE StepOf(f[k - 1], tx[k])]
    BY <2>1 DEF Feeds
  <2>3. \A k \in 0..(n + 1) : g[k] = IF k = 0 THEN {c} ELSE StepOf(g[k - 1], tx[k])
    <3> DEFINE h == [k \in 0..n |-> IF k = 0 THEN {c} ELSE StepOf(f[k - 1], tx[k])]
    <3>1. f = h
      BY <2>2
    <3>2. h[0] = {c} /\ \A k \in 1..n : h[k] = StepOf(f[k - 1], tx[k])
      OBVIOUS
    <3> HIDE DEF h
    <3>3. f[0] = {c} /\ \A k \in 1..n : f[k] = StepOf(f[k - 1], tx[k])
      BY <3>1, <3>2
    <3>4. g[n + 1] = StepOf(f[n], tx[n + 1]) /\ \A k \in 0..n : g[k] = f[k]
      OBVIOUS
    <3> HIDE DEF g
    <3> SUFFICES ASSUME NEW k \in 0..(n + 1)
                 PROVE  g[k] = IF k = 0 THEN {c} ELSE StepOf(g[k - 1], tx[k])
      OBVIOUS
    <3>5. CASE k = n + 1
      <4> k # 0 /\ k - 1 = n /\ n \in 0..n  BY <3>5
      <4> QED BY <3>4, <3>5
    <3>6. CASE k \in 1..n
      <4> k # 0 /\ k - 1 \in 0..n /\ k \in 0..n  BY <3>6
      <4> QED BY <3>3, <3>4, <3>6
    <3>7. CASE k = 0
      BY <3>3, <3>4, <3>7
    <3> QED BY <3>5, <3>6, <3>7
  <2>4. g = [k \in 0..(n + 1) |-> g[k]]
    OBVIOUS
  <2> HIDE DEF g
  <2>5. g = [k \in 0..(n + 1) |-> IF k = 0 THEN {c} ELSE StepOf(g[k - 1], tx[k])]
    BY <2>3, <2>4
  <2>6. Feeds(g, c, tx, n + 1)
    BY <2>5 DEF Feeds
  <2> QED BY <2>6
<1> HIDE DEF S
<1>3. \A n \in Nat : n \in S
  BY <1>1, <1>2, SetInduction
<1> QED BY <1>3 DEF S

(* What the recursive definition says. *)
LEMMA FedSteps ==
  ASSUME NEW c, NEW tx, Len(tx) \in Nat
  PROVE  /\ Fed(c, tx)[0] = {c}
         /\ \A n \in 1..Len(tx) : Fed(c, tx)[n] = StepOf(Fed(c, tx)[n - 1], tx[n])
<1> DEFINE f == Fed(c, tx)
           h == [n \in 0..Len(tx) |-> IF n = 0 THEN {c} ELSE StepOf(f[n - 1], tx[n])]
<1>1. Feeds(f, c, tx, Len(tx))
  <2>1. PICK after : Feeds(after, c, tx, Len(tx))
    BY FeedExists
  <2> QED BY Zenon, <2>1 DEF Fed, Feeds
<1>2. f = h
  BY <1>1 DEF Feeds
<1>3. h[0] = {c} /\ \A n \in 1..Len(tx) : h[n] = StepOf(f[n - 1], tx[n])
  OBVIOUS
<1> HIDE DEF f, h
<1> QED BY <1>2, <1>3 DEF f

(* The last command of a longer buffer is the last step of the chip.       *)
LEMMA FedAppend ==
  ASSUME NEW c, NEW T, NEW tx \in Seq(T), NEW w \in T
  PROVE  Fed(c, Append(tx, w))[Len(Append(tx, w))] = StepOf(Fed(c, tx)[Len(tx)], w)
<1> DEFINE N == Len(tx)
           ty == Append(tx, w)
           f  == Fed(c, tx)
           g  == Fed(c, ty)
           S  == {n \in Nat : n <= N => g[n] = f[n]}
<1>1. N \in Nat /\ Len(ty) = N + 1 /\ ty[N + 1] = w /\ \A n \in 1..N : ty[n] = tx[n]
  OBVIOUS
<1> HIDE DEF ty, N
<1>2. f[0] = {c} /\ \A n \in 1..N : f[n] = StepOf(f[n - 1], tx[n])
  BY <1>1, FedSteps DEF N
<1>3. g[0] = {c} /\ \A n \in 1..(N + 1) : g[n] = StepOf(g[n - 1], ty[n])
  BY <1>1, FedSteps
<1> HIDE DEF f, g
<1>4. 0 \in S
  BY <1>2, <1>3
<1>5. ASSUME NEW n \in Nat, n \in S PROVE n + 1 \in S
  <2> SUFFICES ASSUME n + 1 <= N PROVE g[n + 1] = f[n + 1]
    OBVIOUS
  <2>1. g[n] = f[n] /\ n + 1 \in 1..N /\ n + 1 \in 1..(N + 1) /\ (n + 1) - 1 = n
    BY <1>1, <1>5
  <2>2. g[n + 1] = StepOf(g[n], ty[n + 1])
    BY <1>3, <2>1
  <2>3. f[n + 1] = StepOf(f[n], tx[n + 1])
    BY <1>2, <2>1
  <2> QED BY <1>1, <2>1, <2>2, <2>3
<1> HIDE DEF S
<1>6. N \in S
  BY <1>1, <1>4, <1>5, SetInduction
<1>7. g[N] = f[N]
  BY <1>1, <1>6 DEF S
<1>8. g[N + 1] = StepOf(g[N], ty[N + 1])
  BY <1>1, <1>3
<1> QED BY <1>1, <1>7, <1>8 DEF f, g, N, ty

(* With an empty buffer the chip is as it is. *)
LEMMA FedNothing ==
  ASSUME NEW c
  PROVE  Fed(c, <<>>)[Len(<<>>)] = {c}
<1>1. Len(<<>>) = 0
  OBVIOUS
<1> QED BY <1>1, FedSteps

(* A sample for each octet, eight bits on from one to the next. *)
LEMMA OctetsTyped ==
  ASSUME NEW r \in Nat, NEW from \in Nat, NEW n \in Nat
  PROVE  Octets(r, from, n) \in Seq(Samples) /\ Len(Octets(r, from, n)) = n
<1>1. \A i \in 1..n : [req |-> r, from |-> from + 8 * (i - 1), n |-> 8] \in Samples
  BY DEF Samples
<1> QED BY <1>1 DEF Octets

(* The fields of the chip after a range of bits. *)
LEMMA ShiftBitsFields ==
  ASSUME NEW c \in Chips, NEW w \in WriteCommands, NEW n \in Nat \ {0}, NEW samples \in Seq(Samples)
  PROVE  LET d == ShiftBits(c, w, n, samples)
         IN  /\ d \in Chips
             /\ d.bad = (c.bad \/ w.req # c.req \/ w.from # c.next)
             /\ d.req = c.req /\ d.expect = c.expect /\ d.next = w.from + n
             /\ d.tdi = <<w.req, w.from + n - 1>> /\ d.out = c.out \o samples
<1>1. c.out \o samples \in Seq(Samples)
  BY DEF Chips
<1>2. w.from + n \in Nat /\ <<w.req, w.from + n - 1>> \in Nat \X Nat
  BY SMTT(30) DEF WriteCommands
<1> QED BY <1>1, <1>2 DEF ShiftBits, Chips

LEMMA ShiftTmsFields ==
  ASSUME NEW c \in Chips, NEW w \in WriteCommands
  PROVE  LET d == ShiftTms(c, w)
         IN  /\ d \in Chips
             /\ d.bad = (c.bad \/ w.req # c.req \/ w.from # c.next \/ w.tdi # c.tdi)
             /\ d.req = c.req /\ d.expect = c.expect /\ d.next = w.from + w.n
             /\ d.tdi = w.tdi /\ d.out = c.out
<1>1. w.from + w.n \in Nat /\ w.tdi \in Nat \X Nat
  BY DEF WriteCommands
<1> QED BY <1>1 DEF ShiftTms, Chips

LEMMA ExpectField ==
  ASSUME NEW c \in Chips, NEW n \in Nat
  PROVE  LET d == [c EXCEPT !.expect = n]
         IN  d \in Chips /\ d.expect = n /\ d.bad = c.bad /\ d.req = c.req /\ d.next = c.next
             /\ d.tdi = c.tdi /\ d.out = c.out
BY DEF Chips

LEMMA OutField ==
  ASSUME NEW c \in Chips, NEW samples \in Seq(Samples)
  PROVE  LET d == [c EXCEPT !.out = c.out \o samples]
         IN  d \in Chips /\ d.expect = c.expect /\ d.bad = c.bad /\ d.req = c.req /\ d.next = c.next
             /\ d.tdi = c.tdi /\ d.out = c.out \o samples
<1>1. c.out \o samples \in Seq(Samples)
  BY DEF Chips
<1> QED BY <1>1 DEF Chips

(* Whatever the chip is fed, it stays a chip. *)
LEMMA ChipStepTyped ==
  ASSUME NEW c \in Chips, NEW w \in WriteCommands
  PROVE  ChipStep(c, w) \in Chips
<1>0. c.expect \in Nat /\ c.out \in Seq(Samples) /\ w.n \in Nat /\ w.tx \in Nat /\ w.from \in Nat
      /\ w.req \in Nat
      /\ w.kind \in {"tms", "bits", "octets", "payload", "reset", "divisor", "sync"}
  BY DEF Chips, WriteCommands
<1>1. CASE c.expect > 0 /\ w.kind = "payload" /\ w.n = c.expect
  <2> DEFINE d == ShiftBits(c, w, 8 * w.n, Octets(w.req, w.from, w.n))
  <2>3. 8 * w.n \in Nat \ {0}
    BY <1>0, <1>1
  <2>4. Octets(w.req, w.from, w.n) \in Seq(Samples)
    BY Zenon, <1>0, OctetsTyped
  <2>1. d \in Chips
    BY <2>3, <2>4, ShiftBitsFields
  <2>2. ChipStep(c, w) = [d EXCEPT !.expect = 0]
    BY <1>1 DEF ChipStep
  <2> HIDE DEF d
  <2> QED BY <2>1, <2>2, ExpectField
<1>2. CASE c.expect > 0 /\ ~(w.kind = "payload" /\ w.n = c.expect)
  <2> DEFINE n == min(c.expect, w.tx)
  <2>1. n \in Nat /\ c.expect - n \in Nat
    BY <1>0 DEF min
  <2>2. ChipStep(c, w) = [c EXCEPT !.bad = TRUE, !.expect = c.expect - n, !.out = c.out \o Octets(0, 0, n)]
    BY <1>2 DEF ChipStep, Swallow
  <2> HIDE DEF n
  <2>3. c.out \o Octets(0, 0, n) \in Seq(Samples)
    BY <1>0, <2>1, OctetsTyped
  <2> QED BY <2>1, <2>2, <2>3 DEF Chips
<1>3. CASE c.expect = 0 /\ w.kind = "tms"
  BY <1>3, ShiftTmsFields DEF ChipStep
<1>4. CASE c.expect = 0 /\ w.kind = "bits"
  <2>1. w.n \in 1..8
    BY <1>4 DEF WriteCommands
  <2>2. [req |-> w.req, from |-> w.from, n |-> w.n] \in Samples
    BY <1>0, <2>1 DEF Samples
  <2>3. ChipStep(c, w) = ShiftBits(c, w, w.n, << [req |-> w.req, from |-> w.from, n |-> w.n] >>)
    BY <1>4 DEF ChipStep
  <2>4. << [req |-> w.req, from |-> w.from, n |-> w.n] >> \in Seq(Samples) /\ w.n \in Nat \ {0}
    BY <2>1, <2>2
  <2>5. ShiftBits(c, w, w.n, << [req |-> w.req, from |-> w.from, n |-> w.n] >>) \in Chips
    BY Zenon, <2>4, ShiftBitsFields
  <2> QED BY Zenon, <2>3, <2>5
<1>5. CASE c.expect = 0 /\ w.kind = "octets"
  BY SMTT(30), <1>0, <1>5 DEF ChipStep, Chips
<1>6. CASE c.expect = 0 /\ w.kind = "sync"
  <2>1. ChipStep(c, w) = [c EXCEPT !.out = c.out \o Octets(w.req, 0, 2)]
    BY <1>6 DEF ChipStep
  <2>2. Octets(w.req, 0, 2) \in Seq(Samples)
    BY <1>0, OctetsTyped
  <2> QED BY <2>1, <2>2, OutField
<1>7. CASE c.expect = 0 /\ w.kind = "payload"
  <2>1. ChipStep(c, w) = [c EXCEPT !.bad = TRUE]
    BY <1>0, <1>7 DEF ChipStep
  <2> QED BY <2>1 DEF Chips
<1>8. CASE c.expect = 0 /\ w.kind \in {"reset", "divisor"}
  BY <1>0, <1>8 DEF ChipStep, Chips
<1> QED BY <1>0, <1>1, <1>2, <1>3, <1>4, <1>5, <1>6, <1>7, <1>8

(* Nor does any number of commands change that. *)
LEMMA FedTyped ==
  ASSUME NEW c \in Chips, NEW tx \in Seq(WriteCommands)
  PROVE  \A n \in 0..Len(tx) : Fed(c, tx)[n] \subseteq Chips
<1> DEFINE f == Fed(c, tx)
           S == {n \in Nat : n <= Len(tx) => f[n] \subseteq Chips}
<1>1. Len(tx) \in Nat
  OBVIOUS
<1>2. f[0] = {c} /\ \A n \in 1..Len(tx) : f[n] = StepOf(f[n - 1], tx[n])
  BY <1>1, FedSteps
<1> HIDE DEF f
<1>3. 0 \in S
  BY <1>2
<1>4. ASSUME NEW n \in Nat, n \in S PROVE n + 1 \in S
  <2> SUFFICES ASSUME n + 1 <= Len(tx) PROVE f[n + 1] \subseteq Chips
    OBVIOUS
  <2>1. f[n + 1] = StepOf(f[n], tx[n + 1]) /\ tx[n + 1] \in WriteCommands /\ f[n] \subseteq Chips
    BY <1>1, <1>2, <1>4
  <2> QED BY <2>1, ChipStepTyped DEF StepOf
<1> HIDE DEF S
<1>5. \A n \in Nat : n \in S
  BY <1>3, <1>4, SetInduction
<1> QED BY <1>1, <1>5 DEF S, f

-----------------------------------------------------------------------------
(* The command buffer and its pool.                                        *)

(* The scenario a behaviour is about is one of the assumed ones. *)
LEMMA ScenarioFacts ==
  ASSUME scenario \in Scenarios
  PROVE  /\ MaxCalls \in Nat /\ chipBufferBytes \in Nat /\ chipBufferBytes >= 4
         /\ maxTxBufferBytes \in Nat /\ maxTxBufferBytes = 3 * chipBufferBytes
         /\ maxRxBufferBytes \in Nat /\ maxRxBufferBytes = chipBufferBytes
         /\ scenario.poolBytes \in Nat /\ scenario.poolExtras \in Nat /\ scenario.maxFailures \in Nat
         /\ \A evs \in scenario.requests : IsVector(evs)
BY DriverAssumption DEF chipBufferBytes, maxTxBufferBytes, maxRxBufferBytes

(* An object is aligned, at or above the head, and wastes at most 7 bytes. *)
LEMMA AllocObject ==
  ASSUME NEW head \in Nat, NEW sz \in Nat
  PROVE  LET top == alloc_object(head, sz)
         IN  /\ top \in Nat /\ (top - sz) % Align = 0
             /\ head + sz <= top /\ top <= head + sz + 7
BY DEF alloc_object, alloc_aligned, adjustedHead, Align

LEMMA AllocUnaligned ==
  ASSUME NEW head \in Nat, NEW sz \in Nat
  PROVE  alloc_unaligned(head, sz) \in Nat /\ alloc_unaligned(head, sz) = head + sz
BY DEF alloc_unaligned

(* The pool's head only goes up. *)
LEMMA HeadsRise ==
  ASSUME scenario \in Scenarios, NEW b \in Buffers, NEW w \in WriteCommands, NEW h \in Nat
  PROVE  /\ TxHead(b, h) \in Nat /\ RxHead(b, w, h) \in Nat /\ NodeHead(b, w, h) \in Nat
         /\ h <= TxHead(b, h) /\ TxHead(b, h) <= RxHead(b, w, h) /\ RxHead(b, w, h) <= NodeHead(b, w, h)
         /\ ExtraHead(b, w) \in Nat /\ b.head <= ExtraHead(b, w)
<1>1. maxTxBufferBytes \in Nat /\ maxRxBufferBytes \in Nat /\ NodeSz \in Nat /\ ByteExtraSz \in Nat
  BY ScenarioFacts DEF NodeSz, ByteExtraSz
<1>2. TxHead(b, h) \in Nat /\ h <= TxHead(b, h)
  BY <1>1, AllocUnaligned DEF TxHead
<1>3. RxHead(b, w, h) \in Nat /\ TxHead(b, h) <= RxHead(b, w, h)
  <2>1. alloc_unaligned(TxHead(b, h), maxRxBufferBytes) \in Nat
        /\ TxHead(b, h) <= alloc_unaligned(TxHead(b, h), maxRxBufferBytes)
    BY <1>1, <1>2 DEF alloc_unaligned
  <2> QED BY <1>2, <2>1 DEF RxHead
<1>4. NodeHead(b, w, h) \in Nat /\ RxHead(b, w, h) <= NodeHead(b, w, h)
  <2>1. alloc_object(RxHead(b, w, h), NodeSz) \in Nat
        /\ RxHead(b, w, h) <= alloc_object(RxHead(b, w, h), NodeSz)
    <3> HIDE DEF NodeSz
    <3>1. RxHead(b, w, h) + NodeSz <= alloc_object(RxHead(b, w, h), NodeSz)
          /\ alloc_object(RxHead(b, w, h), NodeSz) \in Nat
      BY <1>1, <1>3, AllocObject
    <3> QED BY <1>1, <1>3, <3>1
  <2> QED BY <1>3, <2>1 DEF NodeHead
<1>5. b.head \in Nat
  BY DEF Buffers
<1>6. ExtraHead(b, w) \in Nat /\ b.head <= ExtraHead(b, w)
  <2>1. b.head + ByteExtraSz <= alloc_object(b.head, ByteExtraSz)
        /\ alloc_object(b.head, ByteExtraSz) \in Nat
    BY <1>1, <1>5, AllocObject
  <2> QED BY <1>1, <1>5, <2>1 DEF ExtraHead
<1> QED BY <1>2, <1>3, <1>4, <1>6

(* A buffer is made of its fields. *)
LEMMA BufferOfFields ==
  ASSUME NEW tx \in Seq(WriteCommands), NEW txNum \in Nat, NEW txBuf \in Int, NEW rxNum \in Nat,
         NEW rxBuf \in Int, NEW obs \in Seq(Observers), NEW head \in Nat
  PROVE  [ tx |-> tx, txNumBytes |-> txNum, txBuffer |-> txBuf, rxNumBytes |-> rxNum, rxBuffer |-> rxBuf,
           observers |-> obs, head |-> head ] \in Buffers
BY DEF Buffers

(* ft_buffer_append(): the new command is last, with an observer if it     *)
(* reads back.                                                             *)
LEMMA AppendFields ==
  ASSUME scenario \in Scenarios, extrasHead \in Nat, NEW b \in Buffers, NEW w \in WriteCommands
  PROVE  LET a == ft_buffer_append(b, w)
             o == Observer(b, w, ExtraHead(b, w))
         IN  /\ a \in Buffers /\ o \in Observers
             /\ a.tx = Append(b.tx, w)
             /\ a.txNumBytes = b.txNumBytes + w.tx /\ a.rxNumBytes = b.rxNumBytes + w.rx
             /\ a.observers = IF w.rx > 0 THEN Append(b.observers, o) ELSE b.observers
             /\ a.head = NodeHead(b, w, ExtraHead(b, w))
<1> DEFINE h == ExtraHead(b, w)
           a == ft_buffer_append(b, w)
           o == Observer(b, w, h)
<1>1. h \in Nat /\ TxHead(b, h) \in Nat /\ RxHead(b, w, h) \in Nat /\ NodeHead(b, w, h) \in Nat
  BY HeadsRise
<1>2. maxTxBufferBytes \in Nat /\ maxRxBufferBytes \in Nat
  BY ScenarioFacts
<1>3. b.txNumBytes \in Nat /\ b.rxNumBytes \in Nat /\ b.txBuffer \in Int /\ b.rxBuffer \in Int
      /\ b.tx \in Seq(WriteCommands) /\ b.observers \in Seq(Observers)
  BY DEF Buffers
<1>4. w.tx \in Nat /\ w.rx \in Nat /\ w.req \in Nat /\ w.from \in Nat /\ w.simple \in BOOLEAN
  BY DEF WriteCommands
<1> HIDE DEF h
<1>5. o \in Observers
  BY <1>1, <1>3, <1>4 DEF Observer, Observers, NodeSz, ByteExtraSz
<1>6. Append(b.tx, w) \in Seq(WriteCommands) /\ Append(b.observers, o) \in Seq(Observers)
  BY <1>3, <1>5
<1> HIDE DEF o
<1>7. a = [ tx |-> Append(b.tx, w), txNumBytes |-> b.txNumBytes + w.tx,
            txBuffer |-> IF b.txBuffer = NULL THEN TxHead(b, h) - maxTxBufferBytes ELSE b.txBuffer,
            rxNumBytes |-> b.rxNumBytes + w.rx,
            rxBuffer |-> IF w.rx > 0 /\ b.rxBuffer = NULL THEN RxHead(b, w, h) - maxRxBufferBytes ELSE b.rxBuffer,
            observers |-> IF w.rx > 0 THEN Append(b.observers, o) ELSE b.observers,
            head |-> NodeHead(b, w, h) ]
  BY Zenon DEF ft_buffer_append, AppendWith, h, o
<1>8. a \in Buffers
  <2>1. b.txNumBytes + w.tx \in Nat /\ b.rxNumBytes + w.rx \in Nat
    BY SMTT(30), <1>3, <1>4
  <2>2. (IF b.txBuffer = NULL THEN TxHead(b, h) - maxTxBufferBytes ELSE b.txBuffer) \in Int
    BY <1>1, <1>2, <1>3
  <2>3. (IF w.rx > 0 /\ b.rxBuffer = NULL THEN RxHead(b, w, h) - maxRxBufferBytes ELSE b.rxBuffer) \in Int
    BY <1>1, <1>2, <1>3
  <2>4. (IF w.rx > 0 THEN Append(b.observers, o) ELSE b.observers) \in Seq(Observers)
    BY <1>3, <1>6
  <2> DEFINE txBuf == IF b.txBuffer = NULL THEN TxHead(b, h) - maxTxBufferBytes ELSE b.txBuffer
             rxBuf == IF w.rx > 0 /\ b.rxBuffer = NULL THEN RxHead(b, w, h) - maxRxBufferBytes ELSE b.rxBuffer
             obs   == IF w.rx > 0 THEN Append(b.observers, o) ELSE b.observers
  <2>5. a = [ tx |-> Append(b.tx, w), txNumBytes |-> b.txNumBytes + w.tx, txBuffer |-> txBuf,
              rxNumBytes |-> b.rxNumBytes + w.rx, rxBuffer |-> rxBuf, observers |-> obs,
              head |-> NodeHead(b, w, h) ]
    BY Zenon, <1>7
  <2>6. txBuf \in Int /\ rxBuf \in Int /\ obs \in Seq(Observers)
    BY Zenon, <2>2, <2>3, <2>4
  <2> HIDE DEF a, txBuf, rxBuf, obs
  <2> QED BY <1>1, <1>6, <2>1, <2>5, <2>6, BufferOfFields
<1> QED BY <1>5, <1>7, <1>8 DEF h, o

-----------------------------------------------------------------------------
(* ft_buffer_flush(): what comes out of it.                                *)

LEMMA EmptyTyped == EmptyBuffer \in Buffers
<1>1. <<>> \in Seq(WriteCommands) /\ <<>> \in Seq(Observers) /\ 0 \in Nat
  OBVIOUS
<1>2. NULL \in Int /\ reclaim_all \in Nat
  BY DEF NULL, reclaim_all
<1> QED BY Zenon, <1>1, <1>2, BufferOfFields DEF EmptyBuffer

(* The chip that the buffered commands are sent to. *)
LEMMA SentTyped ==
  ASSUME chip \in Chips, buf \in Buffers
  PROVE  AllSent \subseteq Chips /\ \A n \in 0..Len(buf.tx) : Sent(n) \subseteq Chips
<1>1. buf.tx \in Seq(WriteCommands)
  BY DEF Buffers
<1>2. Len(buf.tx) \in 0..Len(buf.tx)
  BY <1>1
<1> QED BY Zenon, <1>1, <1>2, FedTyped DEF AllSent, Sent

(* Reading takes from the front of what came back. *)
LEMMA ReadFromFields ==
  ASSUME NEW c \in Chips, NEW n \in 0..Len(c.out)
  PROVE  LET d == ReadFrom(c, n)
         IN  /\ d \in Chips /\ Len(d.out) = Len(c.out) - n
             /\ d.req = c.req /\ d.expect = c.expect /\ d.bad = c.bad /\ d.next = c.next /\ d.tdi = c.tdi
<1>1. c.out \in Seq(Samples)
  BY DEF Chips
<1> DEFINE rest == SubSeq(c.out, n + 1, Len(c.out))
<1>2. rest \in Seq(Samples) /\ Len(rest) = Len(c.out) - n
  BY <1>1
<1>3. ReadFrom(c, n) = [c EXCEPT !.out = rest]
  BY DEF ReadFrom, Chips
<1> HIDE DEF rest
<1> QED BY <1>2, <1>3 DEF Chips

(* What an observer writes has its type whatever it was given. *)
LEMMA CopyTyped ==
  ASSUME extras \in Seq(Extras), NEW o \in Observers, NEW out,
         ~o.simple => o.addr \in 1..Len(extras)
  PROVE  /\ Copy(o, out) \in Copies
         /\ Copy(o, out).toBit = IF o.simple THEN o.toBit ELSE extras[o.addr].toBit
         /\ Copy(o, out).numBits = IF o.simple THEN 8 * o.n ELSE extras[o.addr].numBits
<1>0. o.dst \in Nat /\ o.toBit \in Nat /\ o.n \in Nat /\ o.simple \in BOOLEAN
  BY DEF Observers
<1>1. CASE o.simple
  <2> DEFINE samples == SubSeq(out, o.data + 1, o.data + o.n)
  <2>1. Copy(o, out) = [dst |-> o.dst, toBit |-> o.toBit, numBits |-> 8 * o.n,
                        good |-> samples = Octets(o.dst, o.toBit, o.n)]
    BY <1>1 DEF Copy, byte_copier_rx_observer_fn
  <2>2. 8 * o.n \in Nat /\ (samples = Octets(o.dst, o.toBit, o.n)) \in BOOLEAN
    BY <1>0
  <2> HIDE DEF samples
  <2> QED BY <1>0, <1>1, <2>1, <2>2 DEF Copies
<1>2. CASE ~o.simple
  <2> DEFINE x == extras[o.addr]
             sample == out[o.data + 1]
             good == sample = [req |-> x.dst, from |-> x.toBit, n |-> x.numBits] /\ x.fromBit = 8 - sample.n
  <2>1. x \in Extras
    BY <1>2
  <2>2. Copy(o, out) = [dst |-> x.dst, toBit |-> x.toBit, numBits |-> x.numBits, good |-> good]
    BY <1>2 DEF Copy, bit_copier_rx_observer_fn
  <2>3. good \in BOOLEAN
    OBVIOUS
  <2>4. x.dst \in Nat /\ x.toBit \in Nat /\ x.numBits \in Nat
    BY SMTT(30), <2>1 DEF Extras
  <2> HIDE DEF good
  <2> QED BY <1>2, <2>2, <2>3, <2>4 DEF Copies
<1> QED BY <1>1, <1>2

(* The observers of the buffer can be run on whatever is read. *)
ObserversFit ==
  \A i \in 1..Len(buf.observers) : ~buf.observers[i].simple => buf.observers[i].addr \in 1..Len(extras)

(* A flush that worked leaves an empty buffer, the chip without what was   *)
(* read, and a copy for each observer.                                     *)
LEMMA FlushWorked ==
  ASSUME chip \in Chips, buf \in Buffers, extras \in Seq(Extras), ObserversFit,
         NEW o \in ft_buffer_flush, o.ok
  PROVE  /\ o.ok = TRUE /\ o.buf = EmptyBuffer /\ o.chip \in Chips /\ o.copies \in Seq(Copies)
         /\ \E c \in AllSent :
              /\ c \in Chips /\ Len(c.out) >= buf.rxNumBytes /\ o.chip = ReadFrom(c, buf.rxNumBytes)
              /\ o.copies = [i \in 1..Len(buf.observers) |-> Copy(buf.observers[i], c.out)]
<1>1. o \in Exchanged
  BY DEF ft_buffer_flush, WriteFails, ReadFails
<1>2. PICK c \in AllSent :
        /\ Len(c.out) >= buf.rxNumBytes
        /\ o = [ok |-> TRUE, buf |-> Reclaimed, chip |-> ReadFrom(c, buf.rxNumBytes),
                copies |-> [i \in 1..Len(buf.observers) |-> Copy(buf.observers[i], c.out)]]
  BY <1>1 DEF Exchanged
<1>3. c \in Chips
  BY SentTyped
<1>4. o.chip = ReadFrom(c, buf.rxNumBytes) /\ o.buf = EmptyBuffer /\ o.ok = TRUE
      /\ o.copies = [i \in 1..Len(buf.observers) |-> Copy(buf.observers[i], c.out)]
  BY Zenon, <1>2 DEF Reclaimed
<1>5. o.chip \in Chips
  <2>1. buf.rxNumBytes \in 0..Len(c.out)
    BY <1>2, <1>3 DEF Buffers, Chips
  <2> QED BY <1>3, <1>4, <2>1, ReadFromFields
<1>6. o.copies \in Seq(Copies)
  <2>1. buf.observers \in Seq(Observers)
    BY DEF Buffers
  <2>2. \A i \in 1..Len(buf.observers) : Copy(buf.observers[i], c.out) \in Copies
    <3> SUFFICES ASSUME NEW i \in 1..Len(buf.observers) PROVE Copy(buf.observers[i], c.out) \in Copies
      OBVIOUS
    <3>1. buf.observers[i] \in Observers
      BY <2>1
    <3> QED BY <3>1, CopyTyped DEF ObserversFit
  <2> QED BY <1>4, <2>1, <2>2
<1> QED BY Zenon, <1>2, <1>3, <1>4, <1>5, <1>6

(* A buffer without the part that was sent. *)
LEMMA EmptyLeft ==
  ASSUME NEW b \in Buffers
  PROVE  LET left == [b EXCEPT !.tx = <<>>, !.txNumBytes = 0, !.txBuffer = NULL]
         IN  /\ left \in Buffers /\ left.head = b.head /\ left.observers = b.observers
             /\ left.rxNumBytes = b.rxNumBytes /\ left.txNumBytes = 0
<1>1. <<>> \in Seq(WriteCommands) /\ 0 \in Nat /\ NULL \in Int
  BY DEF NULL
<1> HIDE DEF NULL
<1> QED BY <1>1 DEF Buffers

(* A flush that failed leaves the observers and what they wait for.        *)
LEMMA FlushFailed ==
  ASSUME chip \in Chips, buf \in Buffers, NEW o \in ft_buffer_flush, ~o.ok
  PROVE  /\ MayFail /\ o.ok = FALSE /\ o.copies = <<>> /\ o.chip \in Chips /\ o.buf \in Buffers
         /\ o.buf.head = buf.head /\ o.buf.observers = buf.observers /\ o.buf.rxNumBytes = buf.rxNumBytes
         /\ o.buf.txNumBytes \in {0, buf.txNumBytes}
<1>1. CASE o \in WriteFails
  <2>1. PICK c \in UNION {Sent(n) : n \in 0..Len(buf.tx)} :
          MayFail /\ o = [ok |-> FALSE, buf |-> buf, copies |-> <<>>, chip |-> c]
    BY <1>1 DEF WriteFails
  <2>2. c \in Chips
    BY Zenon, SentTyped
  <2> QED BY <2>1, <2>2
<1>2. CASE o \in ReadFails
  <2> DEFINE left == [buf EXCEPT !.tx = <<>>, !.txNumBytes = 0, !.txBuffer = NULL]
  <2>0. PICK e \in UNION { {ReadFrom(d, n) : n \in 0..min(Len(d.out), buf.rxNumBytes)} : d \in AllSent } :
          MayFail /\ o = [ok |-> FALSE, buf |-> left, copies |-> <<>>, chip |-> e]
    BY <1>2 DEF ReadFails
  <2>6. PICK d \in AllSent : e \in {ReadFrom(d, n) : n \in 0..min(Len(d.out), buf.rxNumBytes)}
    BY Zenon
  <2>1. PICK n \in 0..min(Len(d.out), buf.rxNumBytes) : e = ReadFrom(d, n)
    BY <2>6
  <2>2. d \in Chips
    BY SentTyped
  <2>3. n \in 0..Len(d.out)
    <3>1. Len(d.out) \in Nat
      BY <2>2 DEF Chips
    <3>2. buf.rxNumBytes \in Nat
      BY DEF Buffers
    <3> QED BY <3>1, <3>2 DEF min
  <2>4. ReadFrom(d, n) \in Chips
    BY <2>2, <2>3, ReadFromFields
  <2>5. left \in Buffers /\ left.head = buf.head /\ left.observers = buf.observers
        /\ left.rxNumBytes = buf.rxNumBytes /\ left.txNumBytes = 0
    BY EmptyLeft
  <2> HIDE DEF left
  <2> QED BY <2>0, <2>1, <2>4, <2>5
<1>3. ~(o \in Exchanged)
  BY DEF Exchanged
<1> QED BY <1>1, <1>2, <1>3 DEF ft_buffer_flush

-----------------------------------------------------------------------------
(* Observers and what they store.                                          *)

(* What is read later does not move what was read. *)
LEMMA SubSeqStays ==
  ASSUME NEW T, NEW s \in Seq(T), NEW t \in Seq(T), NEW i \in Nat \ {0}, NEW j \in Nat,
         i <= j, j <= Len(s)
  PROVE  SubSeq(s \o t, i, j) = SubSeq(s, i, j)
<1> DEFINE u == s \o t
           a == SubSeq(u, i, j)
           b == SubSeq(s, i, j)
<1>1. u \in Seq(T) /\ Len(u) = Len(s) + Len(t) /\ \A k \in 1..Len(s) : u[k] = s[k]
  OBVIOUS
<1> HIDE DEF u
<1>2. a \in Seq(T) /\ Len(a) = j - i + 1 /\ \A k \in 1..(j - i + 1) : a[k] = u[i + k - 1]
  BY <1>1
<1>3. b \in Seq(T) /\ Len(b) = j - i + 1 /\ \A k \in 1..(j - i + 1) : b[k] = s[i + k - 1]
  OBVIOUS
<1> HIDE DEF a, b
<1>4. ASSUME NEW k \in 1..Len(a) PROVE a[k] = b[k]
  <2>1. k \in 1..(j - i + 1) /\ i + k - 1 \in 1..Len(s)
    BY <1>2
  <2>2. a[k] = u[i + k - 1] /\ b[k] = s[i + k - 1]
    BY <1>2, <1>3, <2>1
  <2> QED BY <1>1, <2>1, <2>2
<1>5. a = b
  BY <1>2, <1>3, <1>4, SeqEqual
<1> QED BY <1>5 DEF a, b, u

LEMMA SubSeqRest ==
  ASSUME NEW T, NEW s \in Seq(T), NEW t \in Seq(T)
  PROVE  SubSeq(s \o t, Len(s) + 1, Len(s) + Len(t)) = t
<1> DEFINE u == s \o t
           m == Len(s)
           n == Len(t)
           a == SubSeq(u, m + 1, m + n)
<1>1. u \in Seq(T) /\ Len(u) = m + n /\ m \in Nat /\ n \in Nat /\ \A k \in 1..n : u[m + k] = t[k]
  OBVIOUS
<1> HIDE DEF u, m, n
<1>2. a \in Seq(T) /\ Len(a) = n /\ \A k \in 1..n : a[k] = u[m + k]
  BY <1>1
<1> HIDE DEF a
<1>3. \A k \in 1..Len(a) : a[k] = t[k]
  BY <1>1, <1>2
<1>4. a = t
  BY <1>2, <1>3, SeqEqual DEF n
<1> QED BY <1>4 DEF a, u, m, n

(* An observer stores the same whatever is appended after it. *)
LEMMA CopyStays ==
  ASSUME extras \in Seq(Extras), extrasHead \in 0..Len(extras), failures = 0,
         NEW o \in Observers, NEW out \in Seq(Samples), NEW more \in Seq(Samples),
         ObserverHolds(o, Len(out)), \A i \in 1..extrasHead : extras'[i] = extras[i]
  PROVE  Copy(o, out \o more)' = Copy(o, out)
<1>0. o.data \in Nat /\ o.n \in Nat /\ o.simple \in BOOLEAN /\ o.n > 0 /\ o.data + o.n <= Len(out)
  BY DEF Observers, ObserverHolds
<1>1. CASE o.simple
  <2>0. o.data + 1 \in Nat \ {0} /\ o.data + o.n \in Nat /\ o.data + 1 <= o.data + o.n
    BY <1>0
  <2>1. SubSeq(out \o more, o.data + 1, o.data + o.n) = SubSeq(out, o.data + 1, o.data + o.n)
    BY ZenonT(60), <1>0, <2>0, SubSeqStays
  <2> QED BY <1>1, <2>1 DEF Copy, byte_copier_rx_observer_fn
<1>2. CASE ~o.simple
  <2>1. o.addr \in 1..extrasHead /\ extras'[o.addr] = extras[o.addr]
    BY <1>2 DEF ObserverHolds
  <2>2. (out \o more)[o.data + 1] = out[o.data + 1]
    BY SMTT(30), <1>0
  <2> QED BY <1>2, <2>1, <2>2 DEF Copy, bit_copier_rx_observer_fn
<1> QED BY <1>1, <1>2

(* Tiles are added one by one. *)
LEMMA TilesAppend ==
  ASSUME NEW n \in Nat, NEW s, NEW bits, NEW t, NEW x, NEW more,
         DOMAIN s = 1..n, DOMAIN t = 1..(n + 1), \A i \in 1..n : t[i] = s[i], t[n + 1] = x,
         Tiles(s, bits), x.good, BitsOf(x) = more, more \cap bits = {}
  PROVE  Tiles(t, bits \cup more)
<1>1. DOMAIN t = 1..(n + 1) /\ DOMAIN s = 1..n
  OBVIOUS
<1>2. \A i \in 1..n : s[i].good /\ BitsOf(s[i]) \subseteq bits
  BY <1>1 DEF Tiles
<1>3. \A i \in DOMAIN t : t[i].good
  BY <1>1, <1>2
<1>4. ASSUME NEW i \in DOMAIN t, NEW j \in DOMAIN t, i # j
      PROVE  BitsOf(t[i]) \cap BitsOf(t[j]) = {}
  <2>1. CASE i \in 1..n /\ j \in 1..n
    BY <1>1, <1>4, <2>1 DEF Tiles
  <2>2. CASE i = n + 1
    <3>1. j \in 1..n /\ t[i] = x
      BY <1>1, <1>4, <2>2
    <3> QED BY <1>2, <3>1
  <2>3. CASE j = n + 1
    <3>1. i \in 1..n /\ t[j] = x
      BY <1>1, <1>4, <2>3
    <3> QED BY <1>2, <3>1
  <2> QED BY <1>1, <2>1, <2>2, <2>3
<1>5. UNION {BitsOf(t[i]) : i \in DOMAIN t} = bits \cup more
  <2>1. ASSUME NEW b \in bits \cup more PROVE \E i \in DOMAIN t : b \in BitsOf(t[i])
    <3>1. CASE b \in bits
      <4>1. PICK i \in DOMAIN s : b \in BitsOf(s[i])
        BY <3>1 DEF Tiles
      <4> QED BY <1>1, <4>1
    <3>2. CASE b \in more
      <4>1. n + 1 \in DOMAIN t /\ t[n + 1] = x
        BY <1>1
      <4> QED BY <3>2, <4>1
    <3> QED BY <2>1, <3>1, <3>2
  <2>2. ASSUME NEW i \in DOMAIN t PROVE BitsOf(t[i]) \subseteq bits \cup more
    <3>1. CASE i \in 1..n
      BY <1>2, <3>1
    <3>2. CASE i = n + 1
      BY <3>2
    <3> QED BY <1>1, <3>1, <3>2
  <2> QED BY <2>1, <2>2
<1> QED BY <1>3, <1>4, <1>5 DEF Tiles

CopiesOf(b, c) == [i \in 1..Len(b.observers) |-> Copy(b.observers[i], c.out)]

(* A flush that works stores what was to be stored. *)
LEMMA StoredFlush ==
  ASSUME NEW b \in Buffers, NEW cp \in Seq(Copies), NEW c, NEW d, CopiesOf(b, c) \in Seq(Copies)
  PROVE  /\ Stored(EmptyBuffer, cp \o CopiesOf(b, c), d) = Stored(b, cp, c)
         /\ Stored(b, cp, c) = cp \o CopiesOf(b, c)
<1> DEFINE copies == CopiesOf(b, c)
           n == Len(cp)
           m == Len(b.observers)
           all == cp \o copies
           x == Stored(b, cp, c)
           y == Stored(EmptyBuffer, all, d)
<1>0. copies \in Seq(Copies)
  OBVIOUS
<1>9. copies = [i \in 1..Len(b.observers) |-> Copy(b.observers[i], c.out)]
  BY DEF CopiesOf
<1> HIDE DEF copies
<1>1. n \in Nat /\ m \in Nat /\ Len(copies) = m /\ \A i \in 1..m : copies[i] = Copy(b.observers[i], c.out)
  BY <1>9 DEF Buffers
<1>2. all \in Seq(Copies) /\ Len(all) = n + m
      /\ (\A i \in 1..n : all[i] = cp[i]) /\ (\A i \in (n + 1)..(n + m) : all[i] = copies[i - n])
  <2>1. Len(copies) = m /\ m \in Nat
    BY <1>1
  <2> HIDE DEF m
  <2> QED BY SMTT(30), <1>0, <2>1
<1> HIDE DEF all
<1>3. x = [i \in 1..(n + m) |-> IF i <= n THEN cp[i] ELSE Copy(b.observers[i - n], c.out)]
  BY DEF Stored
<1>4. Len(EmptyBuffer.observers) = 0
  BY DEF EmptyBuffer
<1>5. y = [i \in 1..(n + m) |-> IF i <= n + m THEN all[i] ELSE Copy(EmptyBuffer.observers[i - (n + m)], d.out)]
  <2> HIDE DEF m, n
  <2>1. Len(all) + Len(EmptyBuffer.observers) = n + m
    BY <1>1, <1>2, <1>4
  <2> QED BY <1>2, <2>1 DEF Stored
<1>6. x \in [1..(n + m) -> Copies] /\ y \in [1..(n + m) -> Copies] /\ \A i \in 1..(n + m) : x[i] = all[i] /\ y[i] = all[i]
  <2> HIDE DEF m, n, x, y
  <2>1. ASSUME NEW i \in 1..(n + m) PROVE x[i] = all[i] /\ y[i] = all[i] /\ all[i] \in Copies
    <3>1. y[i] = all[i]
      BY <1>1, <1>5, <2>1
    <3>2. CASE i <= n
      BY <1>1, <1>2, <1>3, <2>1, <3>1, <3>2
    <3>3. CASE ~(i <= n)
      <4>1. i \in (n + 1)..(n + m) /\ i - n \in 1..m
        BY <1>1, <2>1, <3>3
      <4>2. x[i] = Copy(b.observers[i - n], c.out)
        BY <1>3, <2>1, <3>3
      <4> QED BY <1>1, <1>2, <3>1, <4>1, <4>2
    <3> QED BY <3>2, <3>3
  <2>2. x = [i \in 1..(n + m) |-> x[i]] /\ y = [i \in 1..(n + m) |-> y[i]]
    BY <1>3, <1>5
  <2> QED BY <2>1, <2>2
<1>7. all \in [1..(n + m) -> Copies]
  <2> HIDE DEF m, n
  <2> QED BY <1>1, <1>2
<1> HIDE DEF x, y, m, n
<1>8. x = all /\ y = all
  <2> DEFINE I == 1..(n + m)
  <2>1. x \in [I -> Copies] /\ y \in [I -> Copies] /\ all \in [I -> Copies]
        /\ \A i \in I : x[i] = all[i] /\ y[i] = all[i]
    BY <1>6, <1>7
  <2> HIDE DEF I
  <2> QED BY <2>1
<1> QED BY <1>8 DEF x, y, all, copies

(* What a chip is ready for depends on these fields. *)
LEMMA ReadySame ==
  ASSUME NEW c, NEW d, Ready(c), d.req = c.req, d.expect = c.expect, d.bad = c.bad, d.next = c.next, d.tdi = c.tdi
  PROVE  Ready(d)
BY DEF Ready

(* The bits of the vector that are to be stored. *)
WantedBits == {i \in tdiBits : i < curIdx}
StoresVector == req > 0 /\ call = "shift_bits"

LEMMA SyncAtParts ==
  ASSUME NEW b, NEW k, NEW cp, SyncAt(b, k, cp), NEW c \in Fed(k, b.tx)[Len(b.tx)]
  PROVE  /\ Ready(c) /\ Len(c.out) = b.rxNumBytes
         /\ StoresVector => Tiles(Stored(b, cp, c), WantedBits)
BY Zenon DEF SyncAt, WantedBits, StoresVector

(* A flush brings the chip to where the driver is, and the vector with it. *)
LEMMA FlushSync ==
  ASSUME chip \in Chips, buf \in Buffers, extras \in Seq(Extras), copied \in Seq(Copies),
         BufferHolds, SyncAt(buf, chip, copied), NEW o \in ft_buffer_flush, o.ok
  PROVE  /\ SyncAt(EmptyBuffer, o.chip, copied \o o.copies)
         /\ Ready(o.chip)
         /\ StoresVector => Tiles(copied \o o.copies, WantedBits)
<1>0. ObserversFit
  BY DEF BufferHolds, ObserverHolds, ObserversFit
<1>1. PICK c \in AllSent :
        /\ c \in Chips /\ Len(c.out) >= buf.rxNumBytes /\ o.chip = ReadFrom(c, buf.rxNumBytes)
        /\ o.copies = [i \in 1..Len(buf.observers) |-> Copy(buf.observers[i], c.out)]
  BY Zenon, <1>0, FlushWorked
<1>2. o.copies \in Seq(Copies)
  BY Zenon, <1>0, FlushWorked
<1>3. Ready(c) /\ Len(c.out) = buf.rxNumBytes /\ (StoresVector => Tiles(Stored(buf, copied, c), WantedBits))
  BY Zenon, SyncAtParts DEF AllSent, Sent
<1>4. buf.rxNumBytes \in 0..Len(c.out) /\ Len(c.out) \in Nat
  BY <1>1, <1>3 DEF Buffers, Chips
<1>10. /\ Len(o.chip.out) = Len(c.out) - buf.rxNumBytes
       /\ o.chip.req = c.req /\ o.chip.expect = c.expect /\ o.chip.bad = c.bad
       /\ o.chip.next = c.next /\ o.chip.tdi = c.tdi
  BY <1>1, <1>4, ReadFromFields
<1>5. Ready(o.chip)
  BY Zenon, <1>3, <1>10, ReadySame
<1>6. Len(o.chip.out) = 0
  BY <1>3, <1>4, <1>10
<1>7. Stored(EmptyBuffer, copied \o o.copies, o.chip) = Stored(buf, copied, c)
      /\ Stored(buf, copied, c) = copied \o o.copies
  <2>1. o.copies = CopiesOf(buf, c)
    BY Zenon, <1>1 DEF CopiesOf
  <2>2. CopiesOf(buf, c) \in Seq(Copies)
    BY <1>2, <2>1
  <2>3. /\ Stored(EmptyBuffer, copied \o CopiesOf(buf, c), o.chip) = Stored(buf, copied, c)
        /\ Stored(buf, copied, c) = copied \o CopiesOf(buf, c)
    BY ZenonT(60), <2>2, StoredFlush
  <2> QED BY <2>1, <2>3
<1>8. EmptyBuffer.tx = <<>> /\ EmptyBuffer.rxNumBytes = 0
  BY DEF EmptyBuffer
<1>9. SyncAt(EmptyBuffer, o.chip, copied \o o.copies)
  <2>1. Fed(o.chip, EmptyBuffer.tx)[Len(EmptyBuffer.tx)] = {o.chip}
    BY Zenon, <1>8, FedNothing
  <2>2. \A d \in Fed(o.chip, EmptyBuffer.tx)[Len(EmptyBuffer.tx)] : d = o.chip
    BY <2>1
  <2> QED BY Zenon, <1>3, <1>5, <1>6, <1>7, <1>8, <2>2 DEF SyncAt, WantedBits, StoresVector
<1> QED BY Zenon, <1>3, <1>5, <1>7, <1>9

-----------------------------------------------------------------------------
(* A command is added: at once, or after a flush that worked.              *)

Appended(w) ==
  /\ UNCHANGED <<callVars, resetting, result>>
  /\ \/ /\ ~shouldFlush(w)
        /\ buf' = ft_buffer_append(buf, w)
        /\ UNCHANGED <<chip, copied, failures>>
     \/ /\ shouldFlush(w)
        /\ \E o \in ft_buffer_flush : o.ok /\ Flush(o) /\ buf' = ft_buffer_append(o.buf, w)

(* ... or the flush failed. *)
FlushFails ==
  UNCHANGED callVars /\ \E o \in ft_buffer_flush : ~o.ok /\ Flush(o) /\ buf' = o.buf /\ CallbackFails

(* A command that fits an empty buffer. *)
Sized(w) == w \in WriteCommands /\ w.tx <= maxTxBufferBytes /\ w.rx <= maxRxBufferBytes /\ PoolFits(w)

(* Buffer, chip and stored bits that the command is appended to. *)
IsBase(b, k, cp, w) ==
  /\ b \in Buffers /\ k \in Chips /\ cp \in Seq(Copies)
  /\ b.txNumBytes + w.tx <= maxTxBufferBytes /\ b.rxNumBytes + w.rx <= maxRxBufferBytes
  /\ NodeHead(b, w, ExtraHead(b, w)) <= scenario.poolBytes
  /\ \A i \in 1..Len(b.observers) : ObserverHolds(b.observers[i], b.rxNumBytes)
  /\ SyncAt(buf, chip, copied) => SyncAt(b, k, cp) /\ (k = chip \/ Ready(k))

LEMMA BaseOfAppend ==
  ASSUME TypeOK, BufferHolds, NEW w, Sized(w), Appended(w)
  PROVE  /\ failures' = failures
         /\ \E b, k, cp : IsBase(b, k, cp, w) /\ buf' = ft_buffer_append(b, w) /\ chip' = k /\ copied' = cp
<1>0. buf \in Buffers /\ chip \in Chips /\ copied \in Seq(Copies) /\ extras \in Seq(Extras) /\ scenario \in Scenarios
  BY DEF TypeOK
<1>w. w \in WriteCommands /\ w.tx \in Nat /\ w.rx \in Nat /\ w.tx <= maxTxBufferBytes /\ w.rx <= maxRxBufferBytes
      /\ buf.txNumBytes \in Nat /\ buf.rxNumBytes \in Nat /\ maxTxBufferBytes \in Nat /\ maxRxBufferBytes \in Nat
  BY <1>0, ScenarioFacts DEF Sized, WriteCommands, Buffers
<1>1. CASE ~shouldFlush(w)
  <2>1. buf' = ft_buffer_append(buf, w) /\ chip' = chip /\ copied' = copied /\ failures' = failures
    BY Zenon, <1>1 DEF Appended
  <2>2. buf.txNumBytes + w.tx <= maxTxBufferBytes /\ buf.rxNumBytes + w.rx <= maxRxBufferBytes
    BY <1>1, <1>w DEF shouldFlush
  <2>3. NodeHead(buf, w, ExtraHead(buf, w)) <= scenario.poolBytes
    BY Zenon, <1>1 DEF Sized, PoolFits
  <2>4. IsBase(buf, chip, copied, w)
    BY Zenon, <1>0, <2>2, <2>3 DEF IsBase, BufferHolds
  <2> QED BY Zenon, <2>1, <2>4
<1>2. CASE shouldFlush(w)
  <2>1. PICK o \in ft_buffer_flush : o.ok /\ Flush(o) /\ buf' = ft_buffer_append(o.buf, w)
    BY Zenon, <1>2 DEF Appended
  <2>2. ObserversFit
    BY DEF BufferHolds, ObserverHolds, ObserversFit
  <2>3. o.buf = EmptyBuffer /\ o.chip \in Chips /\ o.copies \in Seq(Copies)
    BY Zenon, <1>0, <2>1, <2>2, FlushWorked
  <2>4. chip' = o.chip /\ copied' = copied \o o.copies /\ failures' = failures
    BY Zenon, <2>1 DEF Flush
  <2>5. copied \o o.copies \in Seq(Copies)
    BY <1>0, <2>3
  <2>6. EmptyBuffer.txNumBytes = 0 /\ EmptyBuffer.rxNumBytes = 0 /\ Len(EmptyBuffer.observers) = 0
    BY DEF EmptyBuffer
  <2>7. EmptyBuffer.txNumBytes + w.tx <= maxTxBufferBytes /\ EmptyBuffer.rxNumBytes + w.rx <= maxRxBufferBytes
    BY <1>w, <2>6
  <2>8. NodeHead(EmptyBuffer, w, ExtraHead(EmptyBuffer, w)) <= scenario.poolBytes
    BY Zenon, <1>2 DEF Sized, PoolFits, Reclaimed
  <2>9. \A i \in 1..Len(EmptyBuffer.observers) : ObserverHolds(EmptyBuffer.observers[i], EmptyBuffer.rxNumBytes)
    BY <2>6
  <2>10. SyncAt(buf, chip, copied) => SyncAt(EmptyBuffer, o.chip, copied \o o.copies) /\ Ready(o.chip)
    BY Zenon, <1>0, <2>1, FlushSync
  <2>11. IsBase(EmptyBuffer, o.chip, copied \o o.copies, w)
    BY Zenon, <2>3, <2>5, <2>7, <2>8, <2>9, <2>10, EmptyTyped DEF IsBase
  <2> QED BY Zenon, <2>1, <2>3, <2>4, <2>11
<1> QED BY <1>1, <1>2

(* The buffer stays one, and its observers keep what they refer to.        *)
LEMMA AppendKeeps ==
  ASSUME TypeOK, BufferHolds, NEW w, Sized(w), Appended(w),
         extras' \in Seq(Extras), Len(extras) <= Len(extras'),
         extrasHead' \in extrasHead..Len(extras'),
         w.rx > 0 /\ ~w.simple => w.rx = 1 /\ extrasHead' = extrasHead + 1
  PROVE  /\ buf' \in Buffers /\ buf'.head <= scenario.poolBytes
         /\ chip' \in Chips /\ copied' \in Seq(Copies) /\ failures' = failures
         /\ BufferHolds'
<1>0. scenario \in Scenarios /\ extrasHead \in Nat /\ extras \in Seq(Extras)
  BY DEF TypeOK
<1>w. w \in WriteCommands /\ w.rx \in Nat /\ w.tx \in Nat /\ w.simple \in BOOLEAN
  BY DEF Sized, WriteCommands
<1>1. failures' = failures /\ scenario' = scenario
  BY Zenon, BaseOfAppend DEF Appended, callVars
<1>2. PICK b, k, cp : IsBase(b, k, cp, w) /\ buf' = ft_buffer_append(b, w) /\ chip' = k /\ copied' = cp
  BY Zenon, BaseOfAppend
<1>p. PICK o : o = Observer(b, w, ExtraHead(b, w))
  OBVIOUS
<1>3. /\ buf' \in Buffers /\ o \in Observers
      /\ buf'.txNumBytes = b.txNumBytes + w.tx /\ buf'.rxNumBytes = b.rxNumBytes + w.rx
      /\ buf'.observers = IF w.rx > 0 THEN Append(b.observers, o) ELSE b.observers
      /\ buf'.head = NodeHead(b, w, ExtraHead(b, w))
  <2>1. b \in Buffers
    BY Zenon, <1>2 DEF IsBase
  <2> QED BY <1>0, <1>w, <1>2, <1>p, <2>1, AppendFields
<1>4. b.rxNumBytes \in Nat /\ b.observers \in Seq(Observers)
  BY <1>2 DEF IsBase, Buffers
<1>5. /\ b.txNumBytes + w.tx <= maxTxBufferBytes /\ b.rxNumBytes + w.rx <= maxRxBufferBytes
      /\ NodeHead(b, w, ExtraHead(b, w)) <= scenario.poolBytes
      /\ \A i \in 1..Len(b.observers) : ObserverHolds(b.observers[i], b.rxNumBytes)
  BY Zenon, <1>2 DEF IsBase
<1>6. maxTxBufferBytes' = maxTxBufferBytes /\ maxRxBufferBytes' = maxRxBufferBytes
  BY <1>1 DEF maxTxBufferBytes, maxRxBufferBytes, chipBufferBytes
<1>7. ASSUME NEW p \in Observers, ObserverHolds(p, b.rxNumBytes), NEW n \in Nat, b.rxNumBytes <= n
      PROVE  ObserverHolds(p, n)'
  <2>1. p.data + p.n <= n /\ p.n > 0
    BY <1>4, <1>7 DEF ObserverHolds, Observers
  <2>2. p.addr \in Nat
    BY DEF Observers
  <2>3. ~p.simple => p.n = 1 /\ p.addr \in 1..Len(extras')
    BY <1>0, <1>7, <2>2 DEF ObserverHolds
  <2>4. ~p.simple /\ failures' = 0 => p.addr <= extrasHead'
    BY <1>0, <1>1, <1>7, <2>2 DEF ObserverHolds
  <2> QED BY <2>1, <2>3, <2>4 DEF ObserverHolds
<1>n. PICK n : n = b.rxNumBytes + w.rx
  OBVIOUS
<1>8. ASSUME w.rx > 0 PROVE ObserverHolds(o, n)'
  <2>1. o.data = b.rxNumBytes /\ o.n = w.rx /\ o.simple = w.simple /\ o.addr = extrasHead + 1
    BY <1>p DEF Observer
  <2>2. o.data + o.n <= n /\ o.n > 0
    BY <1>4, <1>8, <1>n, <1>w, <2>1
  <2>3. ~o.simple => o.n = 1 /\ o.addr \in 1..Len(extras') /\ o.addr <= extrasHead'
    BY <1>0, <1>8, <2>1
  <2> QED BY Zenon, <2>2, <2>3 DEF ObserverHolds
<1>o. PICK obs : obs = IF w.rx > 0 THEN Append(b.observers, o) ELSE b.observers
  OBVIOUS
<1>9. ASSUME NEW i \in 1..Len(obs) PROVE ObserverHolds(obs[i], n)'
  <2>1. CASE i \in 1..Len(b.observers)
    <3>1. obs[i] = b.observers[i] /\ b.observers[i] \in Observers
      BY <1>3, <1>4, <1>o, <2>1
    <3>2. n \in Nat /\ b.rxNumBytes <= n
      BY SMTT(30), <1>4, <1>w, <1>n
    <3>3. ObserverHolds(b.observers[i], b.rxNumBytes)
      BY <1>5, <2>1
    <3>4. ObserverHolds(b.observers[i], n)'
      BY Zenon, <1>7, <3>1, <3>2, <3>3
    <3> QED BY <3>1, <3>4 DEF ObserverHolds
  <2>2. CASE w.rx > 0 /\ i = Len(b.observers) + 1
    <3>1. obs[i] = o
      BY <1>3, <1>4, <1>o, <2>2
    <3> QED BY Zenon, <1>8, <2>2, <3>1 DEF ObserverHolds
  <2> QED BY <1>3, <1>4, <1>9, <1>o, <2>1, <2>2
<1>10. BufferHolds'
  <2>1. buf'.observers = obs /\ buf'.rxNumBytes = n
    BY Zenon, <1>3, <1>n, <1>o
  <2>2. buf'.txNumBytes <= maxTxBufferBytes' /\ buf'.rxNumBytes <= maxRxBufferBytes'
    BY Zenon, <1>3, <1>5, <1>6
  <2> QED BY <1>9, <2>1, <2>2 DEF BufferHolds, ObserverHolds
<1>11. chip' \in Chips /\ copied' \in Seq(Copies)
  BY Zenon, <1>2 DEF IsBase
<1> QED BY Zenon, <1>1, <1>3, <1>5, <1>10, <1>11

(* Watches: what the observer of command w, appended to a buffer whose     *)
(* answers are `out`, refers to.  StoresWell: it will store the samples of *)
(* the bits `more`.                                                        *)
Watches(o, out, w) ==
  /\ o \in Observers /\ out \in Seq(Samples) /\ o.data = Len(out) /\ o.n = w.rx
  /\ o.simple = w.simple /\ o.addr = extrasHead + 1 /\ o.dst = w.req /\ o.toBit = w.from

StoresWell(o, out, answer, more) == Copy(o, out \o answer).good /\ BitsOf(Copy(o, out \o answer)) = more

(* Command w takes a chip from where the driver was to where it now is,    *)
(* and makes it answer `answer`.                                           *)
Advances(w, answer) ==
  /\ answer \in Seq(Samples) /\ Len(answer) = w.rx
  /\ \A c \in Chips : Ready(c) => Ready(ChipStep(c, w))' /\ ChipStep(c, w).out = c.out \o answer

(* The part of d->pool that observers refer to is left as it is.           *)
ExtrasStay ==
  /\ extras' \in Seq(Extras) /\ Len(extras) <= Len(extras') /\ extrasHead' \in extrasHead..Len(extras')
  /\ \A i \in 1..extrasHead : extras'[i] = extras[i]

(* Chip c answers buffer b, of observers that fit it; then it is d.        *)
Answers(b, cp, c, d, answer) ==
  /\ extras \in Seq(Extras) /\ extrasHead \in 0..Len(extras) /\ failures = 0 /\ ExtrasStay
  /\ b \in Buffers /\ cp \in Seq(Copies) /\ c \in Chips /\ d \in Chips /\ answer \in Seq(Samples)
  /\ d.out = c.out \o answer /\ Len(c.out) = b.rxNumBytes
  /\ \A i \in 1..Len(b.observers) : ObserverHolds(b.observers[i], b.rxNumBytes)

(* Observers of before store what they stored.                             *)
CopiesStay(b, cp, c, d) ==
  \A i \in 1..(Len(cp) + Len(b.observers)) :
    i > Len(cp) => Copy(b.observers[i - Len(cp)], d.out)' = Copy(b.observers[i - Len(cp)], c.out)

LEMMA StoredStays ==
  ASSUME NEW b, NEW cp, NEW c, NEW d, NEW answer, Answers(b, cp, c, d, answer)
  PROVE  CopiesStay(b, cp, c, d)
<1> SUFFICES ASSUME NEW i \in 1..(Len(cp) + Len(b.observers)), i > Len(cp)
             PROVE  Copy(b.observers[i - Len(cp)], d.out)' = Copy(b.observers[i - Len(cp)], c.out)
  BY Zenon DEF CopiesStay
<1>0. /\ extras \in Seq(Extras) /\ extrasHead \in 0..Len(extras) /\ failures = 0 /\ ExtrasStay
      /\ b \in Buffers /\ cp \in Seq(Copies) /\ c \in Chips /\ d \in Chips /\ answer \in Seq(Samples)
      /\ d.out = c.out \o answer /\ Len(c.out) = b.rxNumBytes
      /\ \A k \in 1..Len(b.observers) : ObserverHolds(b.observers[k], b.rxNumBytes)
  BY Zenon DEF Answers
<1>1. Len(cp) \in Nat /\ Len(b.observers) \in Nat /\ b.observers \in Seq(Observers)
  BY SMTT(30), <1>0 DEF Buffers
<1>2. i - Len(cp) \in 1..Len(b.observers)
  BY <1>1
<1> PICK o : o = b.observers[i - Len(cp)]
  OBVIOUS
<1>3. o \in Observers /\ ObserverHolds(o, Len(c.out))
  BY SMTT(30), <1>0, <1>1, <1>2
<1>4. c.out \in Seq(Samples)
  BY <1>0 DEF Chips
<1>5. Copy(o, c.out \o answer)' = Copy(o, c.out)
  BY <1>0, <1>3, <1>4, CopyStays DEF ExtrasStay
<1> QED BY <1>0, <1>5

(* A command without read-back stores nothing.                             *)
LEMMA StoredSame ==
  ASSUME NEW b, NEW cp, NEW c, NEW d, NEW answer, Answers(b, cp, c, d, answer),
         NEW a, a.observers = b.observers
  PROVE  Stored(a, cp, d)' = Stored(b, cp, c)
<1>0. b \in Buffers /\ cp \in Seq(Copies)
  BY Zenon DEF Answers
<1> DEFINE I == 1..(Len(cp) + Len(b.observers))
<1>s. CopiesStay(b, cp, c, d)
  BY Zenon, StoredStays
<1>1. \A i \in I : i > Len(cp) => Copy(b.observers[i - Len(cp)], d.out)' = Copy(b.observers[i - Len(cp)], c.out)
  BY Zenon, <1>s DEF CopiesStay, I
<1>2. Len(cp) \in Nat /\ Len(b.observers) \in Nat
  BY <1>0 DEF Buffers
<1> HIDE DEF I
<1>3. Stored(b, cp, c) = [i \in I |-> IF i <= Len(cp) THEN cp[i] ELSE Copy(b.observers[i - Len(cp)], c.out)]
  BY Zenon DEF Stored, I
<1>4. Stored(a, cp, d)' = [i \in I |-> IF i <= Len(cp) THEN cp[i] ELSE Copy(b.observers[i - Len(cp)], d.out)']
  BY Zenon DEF Stored, I
<1>5. \A i \in I : i \in Int
  BY <1>2 DEF I
<1> QED BY <1>1, <1>2, <1>3, <1>4, <1>5

(* t is s with x after it. *)
Extends(t, s, x) ==
  \E n \in Nat :
    /\ DOMAIN s = 1..n /\ DOMAIN t = 1..(n + 1)
    /\ (\A i \in 1..n : t[i] = s[i]) /\ t[n + 1] = x

(* One with read-back adds what its observer stores.                       *)
LEMMA StoredGrows ==
  ASSUME NEW b, NEW cp, NEW c, NEW d, NEW answer, Answers(b, cp, c, d, answer),
         NEW o \in Observers, NEW a, a.observers = Append(b.observers, o)
  PROVE  Extends(Stored(a, cp, d)', Stored(b, cp, c), Copy(o, d.out)')
<1>0. b \in Buffers /\ cp \in Seq(Copies)
  BY Zenon DEF Answers
<1> DEFINE m == Len(cp)
           k == Len(b.observers)
           n == m + k
<1>1. m \in Nat /\ k \in Nat /\ b.observers \in Seq(Observers)
  BY <1>0 DEF Buffers
<1>2. Len(a.observers) = k + 1 /\ a.observers[k + 1] = o /\ \A i \in 1..k : a.observers[i] = b.observers[i]
  BY <1>1
<1>s. CopiesStay(b, cp, c, d)
  BY Zenon, StoredStays
<1>3. \A i \in 1..n : i > m => Copy(b.observers[i - m], d.out)' = Copy(b.observers[i - m], c.out)
  BY Zenon, <1>s DEF CopiesStay, m, k, n
<1> PICK obs : obs = a.observers
  OBVIOUS
<1> HIDE DEF m, k
<1>4. Stored(b, cp, c) = [i \in 1..n |-> IF i <= m THEN cp[i] ELSE Copy(b.observers[i - m], c.out)]
  BY Zenon DEF Stored, m, k
<1>5. Stored(a, cp, d)' =
        [i \in 1..(m + (k + 1)) |-> IF i <= m THEN cp[i] ELSE Copy(obs[i - m], d.out)']
  BY Zenon, <1>2 DEF Stored, m
<1>6. m + (k + 1) = n + 1 /\ n \in Nat
  BY <1>1
<1>7. \A i \in 1..n : (Stored(a, cp, d)')[i] = Stored(b, cp, c)[i]
  <2> SUFFICES ASSUME NEW i \in 1..n PROVE (Stored(a, cp, d)')[i] = Stored(b, cp, c)[i]
    OBVIOUS
  <2>1. CASE i <= m
    BY <1>1, <1>4, <1>5, <1>6, <2>1
  <2>2. CASE ~(i <= m)
    <3>1. i - m \in 1..k /\ i > m /\ i \in 1..(m + (k + 1))
      BY <1>1, <2>2
    <3>2. obs[i - m] = b.observers[i - m]
      BY <1>2, <3>1
    <3>3. (Stored(a, cp, d)')[i] = Copy(obs[i - m], d.out)'
      BY <1>5, <2>2, <3>1
    <3>4. Copy(obs[i - m], d.out)' = Copy(b.observers[i - m], d.out)'
      BY <3>2
    <3>5. Stored(b, cp, c)[i] = Copy(b.observers[i - m], c.out)
      BY <1>4, <2>2
    <3> QED BY Zenon, <1>3, <3>1, <3>3, <3>4, <3>5
  <2> QED BY <2>1, <2>2
<1>8. (Stored(a, cp, d)')[n + 1] = Copy(o, d.out)'
  <2>1. n + 1 \in 1..(m + (k + 1)) /\ ~(n + 1 <= m) /\ (n + 1) - m = k + 1
    BY <1>1
  <2>2. (Stored(a, cp, d)')[n + 1] = Copy(obs[(n + 1) - m], d.out)'
    BY <1>5, <2>1
  <2>3. obs[(n + 1) - m] = o
    BY <1>2, <2>1
  <2> QED BY <2>2, <2>3
<1>9. DOMAIN Stored(b, cp, c) = 1..n /\ DOMAIN (Stored(a, cp, d)') = 1..(n + 1)
  BY <1>4, <1>5, <1>6
<1> QED BY Zenon, <1>6, <1>7, <1>8, <1>9 DEF Extends

(* How far the driver has come: no further than the bits were handed over. *)
Vector(w, answer) ==
  StoresVector =>
    \/ w.rx = 0 /\ WantedBits' = WantedBits
    \/ w.rx > 0 /\ \E more :
         /\ more \cap WantedBits = {} /\ WantedBits' = WantedBits \cup more
         /\ \A o, out : Watches(o, out, w) => StoresWell(o, out, answer, more)'

(* Appending a command keeps driver, buffer and chip in step.              *)
LEMMA AppendSyncs ==
  ASSUME TypeOK, BufferHolds, failures = 0, InSync, NEW w, Sized(w), Appended(w), ExtrasStay,
         NEW answer, Advances(w, answer), Vector(w, answer), pc # "aborted"
  PROVE  /\ SyncAt(buf, chip, copied)'
         /\ ~chip'.bad /\ chip'.next \in {chip.next, handedOver}
<1>0. scenario \in Scenarios /\ extrasHead \in 0..Len(extras) /\ extras \in Seq(Extras) /\ extrasHead \in Nat
  BY DEF TypeOK
<1>w. w \in WriteCommands /\ answer \in Seq(Samples) /\ Len(answer) = w.rx /\ w.rx \in Nat
  BY DEF Sized, Advances, WriteCommands
<1>1. SyncAt(buf, chip, copied) /\ ~chip.bad
  BY Zenon DEF InSync
<1>2. PICK b, k, cp : IsBase(b, k, cp, w) /\ buf' = ft_buffer_append(b, w) /\ chip' = k /\ copied' = cp
  BY Zenon, BaseOfAppend
<1>3. b \in Buffers /\ k \in Chips /\ cp \in Seq(Copies) /\ SyncAt(b, k, cp) /\ (k = chip \/ Ready(k))
      /\ \A i \in 1..Len(b.observers) : ObserverHolds(b.observers[i], b.rxNumBytes)
  BY Zenon, <1>1, <1>2 DEF IsBase
<1>4. ~chip'.bad /\ chip'.next \in {chip.next, handedOver}
  <2>1. CASE k = chip
    BY Zenon, <1>1, <1>2, <2>1
  <2>2. CASE Ready(k)
    BY Zenon, <1>2, <2>2 DEF Ready
  <2> QED BY Zenon, <1>3, <2>1, <2>2
<1> PICK o : o = Observer(b, w, ExtraHead(b, w))
  OBVIOUS
<1> PICK a : a = ft_buffer_append(b, w)
  OBVIOUS
<1>5. /\ a \in Buffers /\ o \in Observers /\ a.tx = Append(b.tx, w) /\ a.rxNumBytes = b.rxNumBytes + w.rx
      /\ a.observers = IF w.rx > 0 THEN Append(b.observers, o) ELSE b.observers
  BY <1>0, <1>w, <1>3, AppendFields
<1>6. ASSUME NEW d \in Fed(k, a.tx)[Len(a.tx)]
      PROVE  /\ Ready(d)' /\ Len(d.out) = a.rxNumBytes
             /\ StoresVector => Tiles(Stored(a, cp, d)', WantedBits')
  <2>1. b.tx \in Seq(WriteCommands) /\ b.rxNumBytes \in Nat
    BY <1>3 DEF Buffers
  <2>2. Fed(k, a.tx)[Len(a.tx)] = StepOf(Fed(k, b.tx)[Len(b.tx)], w)
    BY <1>w, <1>5, <2>1, FedAppend
  <2>3. PICK c \in Fed(k, b.tx)[Len(b.tx)] : d = ChipStep(c, w)
    BY <2>2 DEF StepOf
  <2>4. c \in Chips
    <3> Len(b.tx) \in 0..Len(b.tx)  BY <2>1
    <3> QED BY Zenon, <1>3, <2>1, FedTyped
  <2>5. Ready(c) /\ Len(c.out) = b.rxNumBytes /\ (StoresVector => Tiles(Stored(b, cp, c), WantedBits))
    BY Zenon, <1>3, SyncAtParts
  <2>6. Ready(d)' /\ d.out = c.out \o answer
    BY <2>3, <2>4, <2>5 DEF Advances, Ready
  <2>7. c.out \in Seq(Samples) /\ d \in Chips
    BY <1>w, <2>3, <2>4, ChipStepTyped DEF Chips
  <2>8. Len(d.out) = a.rxNumBytes
    <3>1. Len(c.out \o answer) = Len(c.out) + Len(answer)
      BY SMTT(30), <1>w, <2>7
    <3> QED BY Zenon, <1>w, <1>5, <2>5, <2>6, <3>1
  <2>a. Answers(b, cp, c, d, answer)
    BY Zenon, <1>0, <1>w, <1>3, <2>4, <2>5, <2>6, <2>7 DEF Answers
  <2>9. ASSUME StoresVector PROVE Tiles(Stored(a, cp, d)', WantedBits')
    <3>1. CASE w.rx = 0 /\ WantedBits' = WantedBits
      <4>1. a.observers = b.observers
        BY <1>5, <3>1
      <4>2. Stored(a, cp, d)' = Stored(b, cp, c)
        BY Zenon, <2>a, <4>1, StoredSame
      <4> QED BY Zenon, <2>5, <2>9, <3>1, <4>2
    <3>2. CASE w.rx > 0 /\ \E more :
               /\ more \cap WantedBits = {} /\ WantedBits' = WantedBits \cup more
               /\ \A oo, out : Watches(oo, out, w) => StoresWell(oo, out, answer, more)'
      <4>1. PICK more :
               /\ more \cap WantedBits = {} /\ WantedBits' = WantedBits \cup more
               /\ \A oo, out : Watches(oo, out, w) => StoresWell(oo, out, answer, more)'
        BY Zenon, <3>2
      <4>2. a.observers = Append(b.observers, o)
        BY Zenon, <1>5, <3>2
      <4>3. Watches(o, c.out, w)
        BY <1>5, <2>5, <2>7 DEF Watches, Observer
      <4>4. StoresWell(o, c.out, answer, more)'
        BY Zenon, <4>1, <4>3
      <4>5. Extends(Stored(a, cp, d)', Stored(b, cp, c), Copy(o, d.out)')
        BY Zenon, <1>5, <2>a, <4>2, StoredGrows
      <4> PICK x : x = Copy(o, d.out)'
        OBVIOUS
      <4>6. x.good /\ BitsOf(x) = more
        BY <2>6, <4>4 DEF StoresWell, BitsOf
      <4> PICK s, t : s = Stored(b, cp, c) /\ t = Stored(a, cp, d)'
        OBVIOUS
      <4> PICK bits : bits = WantedBits
        OBVIOUS
      <4>7. Tiles(t, bits \cup more)
        <5>1. PICK n \in Nat :
                /\ DOMAIN s = 1..n /\ DOMAIN t = 1..(n + 1)
                /\ (\A i \in 1..n : t[i] = s[i]) /\ t[n + 1] = x
          BY Zenon, <4>5 DEF Extends
        <5>2. Tiles(s, bits) /\ more \cap bits = {}
          BY Zenon, <2>5, <2>9, <4>1
        <5> QED BY Zenon, <4>6, <5>1, <5>2, TilesAppend
      <4> QED BY Zenon, <4>1, <4>7
    <3> QED BY Zenon, <2>9, <3>1, <3>2 DEF Vector
  <2> QED BY Zenon, <2>6, <2>8, <2>9
<1>7. callVars' = callVars /\ buf' = a
  BY Zenon, <1>2 DEF Appended
<1>8. SyncAt(a, k, cp)'
  BY <1>6, <1>7 DEF SyncAt, WantedBits, StoresVector, callVars
<1> QED BY <1>2, <1>4, <1>7, <1>8

-----------------------------------------------------------------------------
(* Where a call is in its request.                                         *)

(* The ranges of a chain are apart and in order.                           *)
LEMMA ChainGrows ==
  ASSUME NEW evs, IsChain(evs), NEW i \in 1..Len(evs), NEW j \in 1..Len(evs), i < j
  PROVE  evs[i].to <= evs[j].from
<1> DEFINE S == {n \in Nat : i + n + 1 <= Len(evs) => evs[i].to <= evs[i + n + 1].from}
<1>1. /\ Len(evs) \in Nat
      /\ \A k \in 1..Len(evs) : evs[k].from \in Nat /\ evs[k].to \in Nat /\ evs[k].from <= evs[k].to
      /\ \A k \in 2..Len(evs) : evs[k].from = evs[k - 1].to
  <2>1. evs \in Seq(Events) /\ Len(evs) \in Nat
    BY DEF IsChain
  <2>2. \A k \in 1..Len(evs) : evs[k] \in Events
    BY <2>1
  <2>3. \A k \in 1..Len(evs) : evs[k].from \in Nat /\ evs[k].to \in Nat
    BY <2>2 DEF Events
  <2>4. \A k \in 1..Len(evs) : evs[k].from <= evs[k].to
    <3> SUFFICES ASSUME NEW k \in 1..Len(evs) PROVE evs[k].from <= evs[k].to
      OBVIOUS
    <3>1. evs[k].from = evs[k].to \/ evs[k].from < evs[k].to
      BY Zenon DEF IsChain
    <3> QED BY <2>3, <3>1
  <2> QED BY <2>1, <2>3, <2>4 DEF IsChain
<1>2. 0 \in S
  BY <1>1
<1>3. ASSUME NEW n \in Nat, n \in S PROVE n + 1 \in S
  <2> SUFFICES ASSUME i + (n + 1) + 1 <= Len(evs) PROVE evs[i].to <= evs[i + (n + 1) + 1].from
    OBVIOUS
  <2>1. evs[i].to <= evs[i + n + 1].from /\ i + n + 1 \in 2..Len(evs) /\ i + (n + 1) + 1 \in 2..Len(evs)
        /\ (i + (n + 1) + 1) - 1 = i + n + 1
    BY <1>1, <1>3
  <2> QED BY SMTT(30), <1>1, <2>1
<1> HIDE DEF S
<1>4. \A n \in Nat : n \in S
  BY <1>2, <1>3, SetInduction
<1>5. j - i - 1 \in S
  BY <1>1, <1>4
<1> QED BY <1>1, <1>5 DEF S

(* A bit of an event is to be stored if that event is a TDI shift.         *)
LEMMA EventBits ==
  ASSUME IsChain(request), NEW k \in 1..Len(request),
         NEW b \in request[k].from..(request[k].to - 1)
  PROVE  b \in tdiBits <=> request[k].kind = "tdi"
<1>1. request \in Seq(Events)
  BY DEF IsChain
<1>2. ASSUME b \in tdiBits PROVE request[k].kind = "tdi"
  <2>1. PICK i \in 1..Len(request) : request[i].kind = "tdi" /\ b \in request[i].from..(request[i].to - 1)
    BY <1>1, <1>2 DEF tdiBits, Range
  <2>2. request[i] \in Events /\ request[k] \in Events
    BY <1>1
  <2>3. ~(i < k)
    BY <2>1, <2>2, ChainGrows DEF Events
  <2>4. ~(k < i)
    BY <2>1, <2>2, ChainGrows DEF Events
  <2> QED BY <2>1, <2>3, <2>4
<1>3. ASSUME request[k].kind = "tdi" PROVE b \in tdiBits
  BY <1>1, <1>3 DEF tdiBits, Range
<1> QED BY <1>2, <1>3

(* Every bit to be stored is below the end of the request.                 *)
LEMMA BitsBelowEnd ==
  ASSUME IsChain(request), NEW b \in tdiBits
  PROVE  b \in Nat /\ b < request[Len(request)].to
<1>1. request \in Seq(Events) /\ request # <<>>
  BY DEF IsChain
<1>2. PICK i \in 1..Len(request) : b \in request[i].from..(request[i].to - 1)
  BY <1>1 DEF tdiBits, Range
<1> DEFINE n == Len(request)
<1>3. n \in 1..Len(request) /\ request[i] \in Events /\ request[n] \in Events
  BY <1>1
<1>5. request[n].from <= request[n].to
  BY SMTT(30), <1>3 DEF IsChain, Events
<1>4. i = n \/ request[i].to <= request[n].from
  BY <1>3, ChainGrows
<1> QED BY <1>2, <1>3, <1>4, <1>5 DEF Events

(* What a call asks for are ranges that follow one another.                *)
LEMMA CallChain ==
  ASSUME scenario \in Scenarios, NEW c \in {"shift_bits", "set_tck_period", "deactivate"}, NEW evs, IsCall(c, evs)
  PROVE  /\ IsChain(evs)
         /\ c = "shift_bits" => IsVector(evs)
         /\ c = "set_tck_period" => evs = SetTckEvents
         /\ c = "deactivate" => evs = <<ResetEvent>>
<1>1. CASE c = "shift_bits"
  <2>1. IsVector(evs)
    BY <1>1, ScenarioFacts DEF IsCall
  <2> QED BY <1>1, <2>1 DEF IsVector
<1>2. CASE c = "set_tck_period"
  <2>1. evs = SetTckEvents
    BY <1>2 DEF IsCall
  <2> QED BY <1>2, <2>1 DEF IsChain, SetTckEvents, Events
<1>3. CASE c = "deactivate"
  <2>1. evs = <<ResetEvent>>
    BY <1>3 DEF IsCall
  <2> QED BY <1>3, <2>1 DEF IsChain, ResetEvent, Events
<1> QED BY <1>1, <1>2, <1>3

LEMMA RequestChain ==
  ASSUME TypeOK, Progress, req > 0
  PROVE  /\ IsChain(request)
         /\ call = "shift_bits" => IsVector(request)
         /\ call = "set_tck_period" => request = SetTckEvents
         /\ call = "deactivate" => request = <<ResetEvent>>
<1>1. IsCall(call, request) /\ scenario \in Scenarios /\ call \in {"shift_bits", "set_tck_period", "deactivate"}
  BY Zenon DEF TypeOK, Progress
<1> QED BY Zenon, <1>1, CallChain

(* The event in progress is one of the request, or the reset.              *)
LEMMA Position ==
  ASSUME TypeOK, Progress, InCall, events # <<>>
  PROVE  /\ req > 0 /\ events \in Seq(Events) /\ curIdx \in event.from..event.to
         /\ Len(events) > 1 => events[2].from = event.to
         /\ \A i \in 1..Len(events) :
              IF events[i].kind \in {"divisor", "sync"} THEN events[i].from = events[i].to
                                                        ELSE events[i].from < events[i].to
         /\ resetting => events = <<ResetEvent>>
         /\ ~resetting => \E k \in 1..Len(request) : k = Len(request) - Len(events) + 1 /\ event = request[k]
<1> DEFINE n == Len(request)
           m == Len(events)
<1>1. /\ req > 0 /\ events \in Seq(Events) /\ curIdx \in event.from..event.to
      /\ request \in Seq(Events) /\ n \in Nat /\ m \in Nat /\ m >= 1
  BY DEF TypeOK, Progress
<1>2. CASE resetting
  <2>1. events = <<ResetEvent>>
    BY <1>2 DEF Progress
  <2>2. Len(events) = 1 /\ events[1] = ResetEvent
    BY <2>1
  <2> QED BY <1>1, <1>2, <2>1, <2>2 DEF ResetEvent
<1>3. CASE ~resetting
  <2>1. m <= n /\ \A i \in 1..m : events[i] = request[i + n - m]
    BY <1>1, <1>3 DEF Progress
  <2>2. IsChain(request)
    BY <1>1, RequestChain
  <2>3. \A k \in 1..n : IF request[k].kind \in {"divisor", "sync"} THEN request[k].from = request[k].to
                                                                  ELSE request[k].from < request[k].to
    BY <2>2 DEF IsChain
  <2>4. \A k \in 2..n : request[k].from = request[k - 1].to
    BY <2>2 DEF IsChain
  <2>5. event = events[1]
    BY <1>1 DEF event
  <2> HIDE DEF n, m
  <2>6. \A i \in 1..m : i + n - m \in 1..n
    BY <1>1, <2>1
  <2>7. 1 \in 1..m /\ 1 + n - m = n - m + 1
    BY <1>1
  <2>8. event = request[n - m + 1] /\ n - m + 1 \in 1..n
    BY <2>1, <2>5, <2>6, <2>7
  <2>9. ASSUME m > 1 PROVE events[2].from = event.to
    <3>1. 2 \in 1..m /\ 2 + n - m \in 2..n /\ (2 + n - m) - 1 = n - m + 1
      BY <1>1, <2>1, <2>9
    <3>2. events[2] = request[2 + n - m]
      BY <2>1, <3>1
    <3> QED BY <2>4, <2>8, <3>1, <3>2
  <2>10. \A i \in 1..m : IF events[i].kind \in {"divisor", "sync"} THEN events[i].from = events[i].to
                                                                   ELSE events[i].from < events[i].to
    <3> SUFFICES ASSUME NEW i \in 1..m
                 PROVE  IF events[i].kind \in {"divisor", "sync"} THEN events[i].from = events[i].to
                                                                  ELSE events[i].from < events[i].to
      OBVIOUS
    <3>1. i + n - m \in 1..n /\ events[i] = request[i + n - m]
      BY <2>1, <2>6
    <3> QED BY <2>3, <3>1
  <2>11. \E k \in 1..n : k = n - m + 1 /\ event = request[k]
    BY <2>8
  <2> QED BY <1>1, <1>3, <2>9, <2>10, <2>11 DEF n, m
<1> QED BY <1>2, <1>3

(* Where HandedOver leaves the call.                                       *)
LEMMA GoesOn ==
  ASSUME TypeOK, Progress, InCall, events # <<>>, NEW to, NEW tdi, HandedOver(to, tdi),
         to \in curIdx..event.to, UNCHANGED callVars, UNCHANGED resetting,
         event.kind = "tdi" /\ to < event.to => to \in {event.from, lastBitIdx} \/ to % 8 = 0
  PROVE  /\ pc' = "event" /\ lastTdi' = tdi /\ curIdx' = to /\ curIdx' \in Nat /\ events' \in Seq(Events)
         /\ events' # <<>> => curIdx' \in (event.from..event.to)'
         /\ to < event.to => events' = events
         /\ to = event.to => events' = Tail(events)
         /\ Progress'
<1> DEFINE n == Len(request)
           m == Len(events)
<1>1. /\ req > 0 /\ events \in Seq(Events) /\ curIdx \in event.from..event.to
      /\ m > 1 => events[2].from = event.to
      /\ \A i \in 1..m : IF events[i].kind \in {"divisor", "sync"} THEN events[i].from = events[i].to
                                                                   ELSE events[i].from < events[i].to
      /\ resetting => events = <<ResetEvent>>
  BY Position
<1>2. request \in Seq(Events) /\ n \in Nat /\ m \in Nat /\ m >= 1 /\ curIdx \in Nat
      /\ event = events[1] /\ resetting \in BOOLEAN
  BY <1>1 DEF TypeOK, event
<1>3. event.from \in Nat /\ event.to \in Nat /\ to \in Nat /\ to <= event.to
  <2>1. event \in Events
    BY <1>1, <1>2
  <2>2. event.from \in Nat /\ event.to \in Nat
    BY <2>1 DEF Events
  <2> QED BY <1>1, <1>2, <2>2
<1>4. \A i \in 1..m : events[i].from \in Nat /\ events[i].to \in Nat
  <2> \A i \in 1..m : events[i] \in Events  BY <1>1
  <2> QED BY DEF Events
<1>5. pc' = "event" /\ lastTdi' = tdi
      /\ curIdx' = (IF to = event.to /\ m > 1 THEN events[2].from ELSE to)
      /\ events' = (IF to = event.to THEN Tail(events) ELSE events)
  BY DEF HandedOver
<1>6. curIdx' = to
  BY <1>1, <1>5
<1>7. request' = request /\ req' = req /\ scenario' = scenario /\ call' = call /\ resetting' = resetting
  BY DEF callVars
<1>8. /\ req' > 0 => IsCall(call, request)'
      /\ req' > 0
  BY <1>1, <1>7 DEF Progress, IsCall
<1>9. CASE to < event.to
  <2>1. events' = events /\ to # event.to
    BY <1>3, <1>5, <1>9
  <2>0. event' = event /\ lastBitIdx' = lastBitIdx
    BY <2>1 DEF event, lastBitIdx
  <2>2. curIdx' \in (event.from..event.to)'
    BY <1>1, <1>2, <1>3, <1>6, <2>0
  <2>3. /\ resetting' => events' \in {<<ResetEvent>>, <<>>}
        /\ ~resetting' =>
             /\ Len(events') <= Len(request')
             /\ \A i \in 1..Len(events') : events'[i] = request'[i + Len(request') - Len(events')]
             /\ events' = <<>> => curIdx' = request'[Len(request')].to
    BY <1>7, <2>1 DEF Progress, InCall
  <2>4. /\ event'.kind \in {"tms", "reset", "tdi"} => curIdx' < event'.to
        /\ event'.kind = "tdi" => curIdx' \in {event'.from, lastBitIdx'} \/ curIdx' % 8 = 0
    BY <1>6, <1>9, <2>0
  <2>5. Progress'
    BY <1>5, <1>8, <2>3, <2>4 DEF Progress, InCall
  <2> QED BY <1>1, <1>3, <1>5, <1>6, <1>9, <2>1, <2>2, <2>5
<1>10. CASE to = event.to
  <2>1. events' = Tail(events)
    BY <1>5, <1>10
  <2>2. events' \in Seq(Events) /\ Len(events') = m - 1 /\ \A i \in 1..(m - 1) : events'[i] = events[i + 1]
    BY <1>1, <1>2, <2>1
  <2>3. ASSUME events' # <<>>
        PROVE  /\ m > 1 /\ event' = events[2] /\ curIdx' = event'.from
               /\ event'.from <= event'.to
               /\ event'.kind \notin {"divisor", "sync"} => event'.from < event'.to
    <3>1. m > 1 /\ event' = events'[1]
      BY <1>2, <2>2, <2>3 DEF event
    <3>2. event' = events[2] /\ 2 \in 1..m
      BY <1>2, <2>2, <3>1
    <3>3. IF events[2].kind \in {"divisor", "sync"} THEN events[2].from = events[2].to
                                                    ELSE events[2].from < events[2].to
      BY <1>1, <3>2
    <3>4. events[2].from \in Nat /\ events[2].to \in Nat
      BY <1>4, <3>2
    <3> QED BY <1>1, <1>6, <1>10, <3>1, <3>2, <3>3, <3>4
  <2>4. events' # <<>> => curIdx' \in (event.from..event.to)'
    BY <1>3, <1>6, <2>3
  <2>5. resetting' => events' \in {<<ResetEvent>>, <<>>}
    BY <1>1, <1>7, <2>1
  <2>6. ASSUME ~resetting'
        PROVE  /\ Len(events') <= Len(request')
               /\ \A i \in 1..Len(events') : events'[i] = request'[i + Len(request') - Len(events')]
               /\ events' = <<>> => curIdx' = request'[Len(request')].to
    <3>1. m <= n /\ \A i \in 1..m : events[i] = request[i + n - m]
      BY <1>7, <2>6 DEF Progress
    <3> HIDE DEF n, m
    <3>2. \A i \in 1..(m - 1) : events'[i] = request[i + n - (m - 1)]
      <4> SUFFICES ASSUME NEW i \in 1..(m - 1) PROVE events'[i] = request[i + n - (m - 1)]
        OBVIOUS
      <4>1. i + 1 \in 1..m /\ (i + 1) + n - m = i + n - (m - 1)
        BY <1>2
      <4> QED BY <2>2, <3>1, <4>1
    <3>3. ASSUME events' = <<>> PROVE curIdx' = request[n].to
      <4>1. m = 1 /\ 1 + n - m = n /\ 1 \in 1..m
        BY <1>2, <2>2, <3>3
      <4>2. events[1] = request[n]
        BY <3>1, <4>1
      <4> QED BY <1>2, <1>6, <1>10, <4>2
    <3> QED BY <1>2, <1>7, <2>2, <3>1, <3>2, <3>3 DEF n
  <2>7. events' # <<>> =>
          /\ event'.kind \in {"tms", "reset", "tdi"} => curIdx' < event'.to
          /\ event'.kind = "tdi" => curIdx' \in {event'.from, lastBitIdx'} \/ curIdx' % 8 = 0
    BY <2>3
  <2>8. Progress'
    BY <1>5, <1>8, <2>5, <2>6, <2>7 DEF Progress, InCall
  <2>9. ~(to < event.to)
    BY <1>3, <1>10
  <2> QED BY Zenon, <1>3, <1>5, <1>6, <2>1, <2>2, <2>4, <2>8, <2>9
<1> QED BY <1>3, <1>9, <1>10

-----------------------------------------------------------------------------
(* The ways out of a step that do not go on: a flush that failed, and the  *)
(* end of the call.                                                        *)

(* TypeOK in parts, by what changes them.                                  *)
CallTyped ==
  /\ scenario \in Scenarios /\ call \in {"shift_bits", "set_tck_period", "deactivate"}
  /\ req \in 0..MaxCalls /\ request \in Seq(Events)
FailuresTyped == failures \in 0..scenario.maxFailures /\ failedBefore \in 0..failures
ControlTyped ==
  /\ pc \in {"idle", "event", "payload", "deinit", "off", "aborted"}
  /\ events \in Seq(Events) /\ curIdx \in Nat /\ (events # <<>> => curIdx \in event.from..event.to)
  /\ resetting \in BOOLEAN /\ lastTdi \in Nat \X Nat /\ result \in {"ok", "failed"}
DataTyped == buf \in Buffers /\ buf.head <= scenario.poolBytes /\ chip \in Chips /\ copied \in Seq(Copies)
ExtrasTyped == extras \in Seq(Extras) /\ extrasHead \in 0..Len(extras) /\ Len(extras) <= scenario.poolExtras

LEMMA TypeParts ==
  /\ TypeOK <=> CallTyped /\ FailuresTyped /\ ControlTyped /\ DataTyped /\ ExtrasTyped
  /\ TypeOK' <=> CallTyped' /\ FailuresTyped' /\ ControlTyped' /\ DataTyped' /\ ExtrasTyped'
BY Zenon DEF TypeOK, CallTyped, FailuresTyped, ControlTyped, DataTyped, ExtrasTyped

(* Where a return leaves the call.                                         *)
LEMMA Returned ==
  ASSUME ControlTyped, Progress, UNCHANGED callVars, NEW res \in {"ok", "failed"}, Return(res),
         failures' = 0 => curIdx = request[Len(request)].to
  PROVE  ControlTyped' /\ Progress'
<1>1. /\ pc' = IF call = "deactivate" THEN "deinit" ELSE "idle"
      /\ events' = <<>> /\ resetting' = FALSE /\ result' = res /\ curIdx' = curIdx /\ lastTdi' = lastTdi
  BY DEF Return
<1>2. scenario' = scenario /\ call' = call /\ req' = req /\ request' = request
  BY Zenon DEF callVars
<1>3. ControlTyped'
  <2>1. pc' \in {"idle", "event", "payload", "deinit", "off", "aborted"} /\ <<>> \in Seq(Events)
    BY <1>1
  <2>2. FALSE \in BOOLEAN
    OBVIOUS
  <2> QED BY Zenon, <1>1, <2>1, <2>2 DEF ControlTyped
<1>4. Progress'
  BY <1>1, <1>2 DEF Progress, IsCall, InCall
<1> QED BY <1>3, <1>4

(* What a failed flush leaves is what the next one is tried with.          *)
LEMMA FailedFlush ==
  ASSUME TypeOK, BufferHolds, ExtrasTyped', Len(extras) <= Len(extras'), UNCHANGED callVars,
         NEW o \in ft_buffer_flush, ~o.ok, Flush(o), buf' = o.buf
  PROVE  CallTyped' /\ DataTyped' /\ FailuresTyped' /\ BufferHolds' /\ failures' > 0 /\ failures' > failedBefore'
<1>0. CallTyped /\ FailuresTyped /\ ControlTyped /\ DataTyped /\ ExtrasTyped
  BY Zenon, TypeParts
<1>2. /\ MayFail /\ o.ok = FALSE /\ o.copies = <<>> /\ o.chip \in Chips /\ o.buf \in Buffers
      /\ o.buf.head = buf.head /\ o.buf.observers = buf.observers /\ o.buf.rxNumBytes = buf.rxNumBytes
      /\ o.buf.txNumBytes \in {0, buf.txNumBytes}
  BY Zenon, <1>0, FlushFailed DEF DataTyped
<1>3. chip' = o.chip /\ copied' = copied \o <<>> /\ failures' = failures + 1
  BY Zenon, <1>2 DEF Flush
<1>4. scenario' = scenario /\ call' = call /\ req' = req /\ request' = request /\ failedBefore' = failedBefore
  BY Zenon DEF callVars
<1>5. scenario \in Scenarios /\ scenario.maxFailures \in Nat /\ scenario.poolBytes \in Nat
      /\ maxTxBufferBytes \in Nat
  BY <1>0, ScenarioFacts DEF CallTyped
<1>6. FailuresTyped' /\ failures' > 0 /\ failures' > failedBefore'
  BY <1>0, <1>2, <1>3, <1>4, <1>5 DEF FailuresTyped, MayFail
<1>7. DataTyped'
  <2>1. copied' \in Seq(Copies)
    BY <1>0, <1>3 DEF DataTyped
  <2>2. buf'.head <= scenario.poolBytes
    BY Zenon, <1>0, <1>2 DEF DataTyped
  <2> QED BY Zenon, <1>2, <1>3, <1>4, <2>1, <2>2 DEF DataTyped
<1>8. CallTyped'
  BY Zenon, <1>0, <1>4 DEF CallTyped
<1>9. BufferHolds'
  <2>1. maxTxBufferBytes' = maxTxBufferBytes /\ maxRxBufferBytes' = maxRxBufferBytes
    BY <1>4 DEF maxTxBufferBytes, maxRxBufferBytes, chipBufferBytes
  <2>2. buf'.txNumBytes <= maxTxBufferBytes /\ buf'.rxNumBytes <= maxRxBufferBytes
    BY <1>2, <1>5 DEF BufferHolds
  <2>3. buf'.observers = buf.observers /\ buf'.rxNumBytes = buf.rxNumBytes
    BY Zenon, <1>2
  <2>4. buf.observers \in Seq(Observers)
    BY <1>0 DEF DataTyped, Buffers
  <2>5. ASSUME NEW p \in Observers, NEW n, ObserverHolds(p, n) PROVE ObserverHolds(p, n)'
    <3>1. p.n > 0 /\ p.data + p.n <= n
      BY <2>5 DEF ObserverHolds
    <3>2. ~p.simple => p.n = 1 /\ p.addr \in 1..Len(extras')
      BY <1>0, <2>5 DEF ObserverHolds, ExtrasTyped
    <3>3. ~(failures' = 0)
      BY <1>6
    <3> QED BY <3>1, <3>2, <3>3 DEF ObserverHolds
  <2>6. PICK obs, n : obs = buf.observers /\ n = buf.rxNumBytes
    OBVIOUS
  <2>7. \A i \in 1..Len(obs) : ObserverHolds(obs[i], n)'
    <3> SUFFICES ASSUME NEW i \in 1..Len(obs) PROVE ObserverHolds(obs[i], n)'
      OBVIOUS
    <3>1. obs[i] \in Observers /\ ObserverHolds(obs[i], n)
      BY <2>4, <2>6 DEF BufferHolds
    <3>2. PICK p : p = obs[i]
      OBVIOUS
    <3>3. ObserverHolds(p, n)'
      BY Zenon, <2>5, <3>1, <3>2
    <3> QED BY Zenon, <3>2, <3>3 DEF ObserverHolds
  <2>8. buf'.observers = obs /\ buf'.rxNumBytes = n
    BY Zenon, <2>3, <2>6
  <2> QED BY <2>1, <2>2, <2>7, <2>8 DEF BufferHolds, ObserverHolds
<1> QED BY Zenon, <1>6, <1>7, <1>8, <1>9

LEMMA FlushFailsKeeps ==
  ASSUME TypeOK, Progress, FailureKept, BufferHolds, InCall, FlushFails, ExtrasTyped', Len(extras) <= Len(extras')
  PROVE  TypeOK' /\ Progress' /\ FailureKept' /\ BufferHolds' /\ failures' > 0
<1>0. CallTyped /\ FailuresTyped /\ ControlTyped
  BY Zenon, TypeParts
<1>1. PICK o \in ft_buffer_flush : ~o.ok /\ Flush(o) /\ buf' = o.buf /\ CallbackFails
  BY Zenon DEF FlushFails
<1>2. UNCHANGED callVars
  BY Zenon DEF FlushFails
<1>4. scenario' = scenario /\ call' = call /\ req' = req /\ request' = request /\ failedBefore' = failedBefore
  BY Zenon, <1>2 DEF callVars
<1>6. CallTyped' /\ DataTyped' /\ FailuresTyped' /\ BufferHolds' /\ failures' > 0 /\ failures' > failedBefore'
  BY Zenon, <1>1, <1>2, FailedFlush
<1>10. CASE call = "shift_bits" /\ ~resetting /\ events' = <<ResetEvent>> /\ curIdx' = 0 /\ resetting' = TRUE
            /\ pc' = "event" /\ UNCHANGED <<result, lastTdi>>
  <2>1. event' = ResetEvent /\ events' # <<>> /\ events' \in Seq(Events) /\ Len(events') = 1
    BY <1>10 DEF event, ResetEvent, Events
  <2>2. ControlTyped'
    BY <1>0, <1>10, <2>1 DEF ControlTyped, ResetEvent
  <2>3. Progress'
    BY <1>4, <1>10, <2>1 DEF Progress, IsCall, InCall, ResetEvent
  <2>4. FailureKept'
    BY <1>4, <1>6, <1>10 DEF FailureKept, InCall, FailuresReported
  <2> QED BY Zenon, <1>6, <2>2, <2>3, <2>4, TypeParts
<1>11. CASE Return("failed")
  <2>1. /\ pc' = IF call = "deactivate" THEN "deinit" ELSE "idle"
        /\ events' = <<>> /\ resetting' = FALSE /\ result' = "failed" /\ curIdx' = curIdx /\ lastTdi' = lastTdi
    BY <1>11 DEF Return
  <2>2. ControlTyped' /\ Progress'
    <3>1. UNCHANGED callVars /\ "failed" \in {"ok", "failed"} /\ ~(failures' = 0)
      BY <1>6 DEF FlushFails
    <3> QED BY Zenon, <1>0, <1>11, <3>1, Returned
  <2>4. FailureKept'
    BY <2>1 DEF FailureKept, InCall, FailuresReported
  <2> QED BY Zenon, <1>6, <2>2, <2>4, TypeParts
<1> QED BY Zenon, <1>1, <1>10, <1>11 DEF CallbackFails

(* A call that returns without a failure of its own.                       *)
LEMMA ReturnKeeps ==
  ASSUME TypeOK, Progress, FailureKept, InCall, events = <<>>, UNCHANGED callVars, failures' = failures,
         NEW res \in {"ok", "failed"}, resetting => res = "failed", Return(res)
  PROVE  CallTyped' /\ FailuresTyped' /\ ControlTyped' /\ Progress' /\ FailureKept'
         /\ (failures = 0 => curIdx = request[Len(request)].to)
<1>0. CallTyped /\ FailuresTyped /\ ControlTyped
  BY Zenon, TypeParts
<1>1. /\ pc' = IF call = "deactivate" THEN "deinit" ELSE "idle"
      /\ events' = <<>> /\ resetting' = FALSE /\ result' = res /\ curIdx' = curIdx /\ lastTdi' = lastTdi
  BY DEF Return
<1>2. scenario' = scenario /\ call' = call /\ req' = req /\ request' = request /\ failedBefore' = failedBefore
  BY Zenon DEF callVars
<1>3. CallTyped' /\ FailuresTyped'
  BY Zenon, <1>0, <1>2 DEF CallTyped, FailuresTyped
<1>5. failures = 0 => curIdx = request[Len(request)].to
  BY <1>0 DEF Progress, FailureKept, FailuresTyped
<1>6. ControlTyped' /\ Progress'
  BY Zenon, <1>0, <1>5, Returned
<1>7. FailureKept'
  BY <1>0, <1>1, <1>2 DEF FailureKept, InCall, FailuresReported, FailuresTyped
<1> QED BY <1>3, <1>5, <1>6, <1>7

-----------------------------------------------------------------------------
(* What a command makes of a chip that is where the driver is.             *)

(* Which call an event belongs to.                                         *)
LEMMA Kinds ==
  ASSUME TypeOK, Progress, FailureKept, InCall, events # <<>>
  PROVE  /\ event.kind \in {"tms", "tdi"} => call = "shift_bits" /\ ~resetting
         /\ event.kind = "reset" => event.from = 0 /\ event.to = 5
         /\ event.kind = "reset" /\ ~resetting => call = "deactivate"
         /\ event.kind \in {"divisor", "sync"} =>
              call = "set_tck_period" /\ ~resetting /\ event.from = 0 /\ event.to = 0 /\ curIdx = 0
         /\ failures = 0 => ~resetting
         /\ event.kind \in {"tms", "tdi", "reset", "divisor", "sync"} /\ event.from \in Nat /\ event.to \in Nat
<1>1. /\ req > 0 /\ events \in Seq(Events) /\ curIdx \in event.from..event.to
      /\ resetting => events = <<ResetEvent>>
      /\ ~resetting => \E k \in 1..Len(request) : k = Len(request) - Len(events) + 1 /\ event = request[k]
  BY Position
<1>2. failures = 0 => ~resetting
  BY DEF FailureKept, TypeOK
<1>3. event \in Events
  BY <1>1 DEF event
<1>4. event.kind \in {"tms", "tdi", "reset", "divisor", "sync"} /\ event.from \in Nat /\ event.to \in Nat
  BY <1>3 DEF Events
<1>5. CASE resetting
  <2>1. event = ResetEvent
    BY <1>1, <1>5 DEF event
  <2> QED BY <1>2, <1>4, <1>5, <2>1 DEF ResetEvent
<1>6. CASE ~resetting
  <2>1. PICK k \in 1..Len(request) : event = request[k]
    BY <1>1, <1>6
  <2>2. CASE call = "shift_bits"
    <3>1. event.kind \in {"tms", "tdi"}
      BY <1>1, <2>1, <2>2, RequestChain DEF IsVector
    <3> QED BY <1>2, <1>4, <1>6, <2>2, <3>1
  <2>3. CASE call = "set_tck_period"
    <3>1. event.kind \in {"divisor", "sync"} /\ event.from = 0 /\ event.to = 0
      <4>1. request = SetTckEvents
        BY <1>1, <2>3, RequestChain
      <4>2. Len(SetTckEvents) = 2 /\ \A i \in 1..2 :
              SetTckEvents[i].kind \in {"divisor", "sync"} /\ SetTckEvents[i].from = 0 /\ SetTckEvents[i].to = 0
        BY DEF SetTckEvents
      <4> QED BY <2>1, <4>1, <4>2
    <3> QED BY <1>1, <1>2, <1>4, <1>6, <2>3, <3>1
  <2>4. CASE call = "deactivate"
    <3>1. request = <<ResetEvent>>
      BY <1>1, <2>4, RequestChain
    <3>2. event = ResetEvent
      BY <2>1, <3>1
    <3> QED BY <1>2, <1>4, <1>6, <2>4, <3>2 DEF ResetEvent
  <2> QED BY <2>2, <2>3, <2>4 DEF TypeOK
<1> QED BY <1>5, <1>6

(* What the kinds of commands do to the chip's fields.                     *)
Shifted(d, c, w, n, samples) ==
  /\ d.bad = (c.bad \/ w.req # c.req \/ w.from # c.next)
  /\ d.req = c.req /\ d.expect = c.expect /\ d.next = w.from + n
  /\ d.tdi = <<w.req, w.from + n - 1>> /\ d.out = c.out \o samples

LEMMA ShiftBitsShifts ==
  ASSUME NEW c \in Chips, NEW w \in WriteCommands, NEW n \in Nat \ {0}, NEW samples \in Seq(Samples)
  PROVE  ShiftBits(c, w, n, samples) \in Chips /\ Shifted(ShiftBits(c, w, n, samples), c, w, n, samples)
<1>1. c.out \o samples \in Seq(Samples)
  BY DEF Chips
<1>2. w.from + n \in Nat /\ <<w.req, w.from + n - 1>> \in Nat \X Nat
  BY DEF WriteCommands
<1> QED BY <1>1, <1>2 DEF ShiftBits, Chips, Shifted

Answered(d, c, samples) ==
  /\ d.expect = c.expect /\ d.bad = c.bad /\ d.req = c.req /\ d.next = c.next
  /\ d.tdi = c.tdi /\ d.out = c.out \o samples

LEMMA OnlyAnswered ==
  ASSUME NEW c \in Chips, NEW samples \in Seq(Samples)
  PROVE  Answered([c EXCEPT !.out = c.out \o samples], c, samples)
BY DEF Chips, Answered

LEMMA NothingShifted ==
  ASSUME NEW c, NEW w, c.expect = 0, w.kind \in {"reset", "divisor"}
  PROVE  ChipStep(c, w) = c
BY DEF ChipStep

(* The fields a chip needs to be ready once the call went on.              *)
LEMMA ReadyNext ==
  ASSUME UNCHANGED callVars, NEW to, NEW tdi, pc' = "event", lastTdi' = tdi, curIdx' = to,
         NEW d, d.req = req, ~d.bad, d.next = (IF call = "deactivate" THEN 0 ELSE to), d.expect = 0,
         d.tdi = tdi \/ (events' # <<>> /\ event'.kind = "tdi")
  PROVE  Ready(d)'
BY DEF Ready, callVars, handedOver

(* A TMS command and, between vectors, a reset.                            *)
LEMMA TmsAdvances ==
  ASSUME TypeOK, Progress, FailureKept, failures = 0, Handling({"tms", "reset"}),
         NEW w \in WriteCommands, w = tmsWrite, UNCHANGED callVars,
         pc' = "event", lastTdi' = lastTdi, curIdx' = curIdx + bitsToTransfer
  PROVE  Advances(w, <<>>)
<1>1. pc = "event" /\ events # <<>> /\ event.kind \in {"tms", "reset"} /\ InCall
  BY DEF Handling, InCall
<1>2. (event.kind = "tms" => call = "shift_bits") /\ (event.kind = "reset" => call = "deactivate")
  BY <1>1, Kinds
<1>3. /\ w.kind = event.kind /\ w.req = req /\ w.from = curIdx /\ w.n = bitsToTransfer
      /\ w.tdi = lastTdi /\ w.rx = 0
  BY DEF tmsWrite, Command
<1>4. ASSUME NEW c \in Chips, Ready(c)
      PROVE  Ready(ChipStep(c, w))' /\ ChipStep(c, w).out = c.out \o <<>>
  <2>0. /\ c.req = req /\ ~c.bad /\ c.next = handedOver /\ c.expect = 0
        /\ c.tdi = lastTdi
    BY <1>1, <1>4 DEF Ready
  <2>1. c.out \o <<>> = c.out
    <3>1. c.out \in Seq(Samples)
      BY DEF Chips
    <3> QED BY <3>1
  <2> PICK d : d = ChipStep(c, w)
    OBVIOUS
  <2>2. CASE event.kind = "tms"
    <3>1. d = ShiftTms(c, w)
      BY <1>3, <2>0, <2>2 DEF ChipStep
    <3>2. /\ d.bad = (c.bad \/ w.req # c.req \/ w.from # c.next \/ w.tdi # c.tdi)
          /\ d.req = c.req /\ d.expect = c.expect /\ d.next = w.from + w.n
          /\ d.tdi = w.tdi /\ d.out = c.out
      BY <3>1, ShiftTmsFields
    <3>3. call # "deactivate"
      BY <1>2, <2>2
    <3>4. c.next = curIdx
      BY <2>0, <3>3 DEF handedOver
    <3>5. ~d.bad
      BY Zenon, <1>3, <2>0, <3>2, <3>4
    <3>6. Ready(d)'
      BY <1>3, <2>0, <3>2, <3>3, <3>5, ReadyNext
    <3> QED BY <2>1, <3>2, <3>6
  <2>3. CASE event.kind = "reset"
    <3>1. d = c
      BY <1>3, <2>0, <2>3 DEF ChipStep
    <3>2. call = "deactivate"
      BY <1>2, <2>3
    <3>3. c.next = 0
      BY <2>0, <3>2 DEF handedOver
    <3>4. Ready(d)'
      BY <2>0, <3>1, <3>2, <3>3, ReadyNext
    <3> QED BY <2>1, <3>1, <3>4
  <2> QED BY <1>1, <2>2, <2>3
<1> QED BY <1>3, <1>4 DEF Advances

LEMMA ProbeAnswered ==
  ASSUME NEW r \in Nat
  PROVE  Octets(r, 0, 2) \in Seq(Samples) /\ Len(Octets(r, 0, 2)) = 2
<1>1. \A from, n \in Nat : Octets(r, from, n) \in Seq(Samples) /\ Len(Octets(r, from, n)) = n
  BY Zenon, OctetsTyped
<1>2. 0 \in Nat /\ 2 \in Nat
  OBVIOUS
<1> QED BY <1>1, <1>2

(* set_tck_period()'s commands shift nothing.                              *)
LEMMA TckAdvances ==
  ASSUME TypeOK, Progress, FailureKept, failures = 0, Handling({"divisor", "sync"}),
         NEW w \in WriteCommands, w = (IF event.kind = "divisor" THEN divisorWrite ELSE syncWrite),
         UNCHANGED callVars, pc' = "event", lastTdi' = lastTdi, curIdx' = event.to
  PROVE  Advances(w, IF event.kind = "divisor" THEN <<>> ELSE Octets(w.req, 0, 2))
<1>1. pc = "event" /\ events # <<>> /\ event.kind \in {"divisor", "sync"} /\ InCall
  BY DEF Handling, InCall
<1>2. call = "set_tck_period" /\ event.to = 0 /\ curIdx = 0
  BY <1>1, Kinds
<1>3. w.kind = event.kind /\ w.req = req /\ w.rx = IF event.kind = "divisor" THEN 0 ELSE 2
  BY <1>1 DEF divisorWrite, syncWrite, Command
<1>t. req \in Nat
  BY ScenarioFacts DEF TypeOK
<1>4. Octets(w.req, 0, 2) \in Seq(Samples) /\ Len(Octets(w.req, 0, 2)) = 2
  <2>1. w.req \in Nat
    BY <1>3, <1>t
  <2> QED BY Zenon, <2>1, ProbeAnswered
<1>5. ASSUME NEW c \in Chips, Ready(c)
      PROVE  /\ event.kind = "divisor" => Ready(ChipStep(c, w))' /\ ChipStep(c, w).out = c.out \o <<>>
             /\ event.kind = "sync" =>
                  Ready(ChipStep(c, w))' /\ ChipStep(c, w).out = c.out \o Octets(w.req, 0, 2)
  <2>0. /\ c.req = req /\ ~c.bad /\ c.next = 0 /\ c.expect = 0 /\ c.tdi = lastTdi /\ c.out \in Seq(Samples)
    BY <1>1, <1>2, <1>5 DEF Ready, Chips, handedOver
  <2> PICK d : d = ChipStep(c, w)
    OBVIOUS
  <2>2. CASE event.kind = "divisor"
    <3>1. d = c
      BY <1>3, <2>0, <2>2, NothingShifted
    <3>2. Ready(d)'
      BY <1>2, <2>0, <3>1, ReadyNext
    <3>3. c.out \o <<>> = c.out
      BY <2>0
    <3> QED BY <2>2, <3>1, <3>2, <3>3
  <2>3. CASE event.kind = "sync"
    <3> PICK samples : samples = Octets(w.req, 0, 2)
      OBVIOUS
    <3>1. d = [c EXCEPT !.out = c.out \o samples]
      BY <1>3, <2>0, <2>3 DEF ChipStep
    <3>2. samples \in Seq(Samples)
      BY <1>4
    <3>3. /\ d.expect = c.expect /\ d.bad = c.bad /\ d.req = c.req /\ d.next = c.next
          /\ d.tdi = c.tdi /\ d.out = c.out \o samples
      <4>1. Answered(ChipStep(c, w), c, samples)
        <5>1. ChipStep(c, w) = [c EXCEPT !.out = c.out \o samples]
          BY Zenon, <3>1
        <5>2. Answered([c EXCEPT !.out = c.out \o samples], c, samples)
          BY Zenon, <3>2, OnlyAnswered
        <5> QED BY Zenon, <5>1, <5>2
      <4> QED BY Zenon, <4>1 DEF Answered
    <3>4. Ready(d)'
      BY <1>2, <2>0, <3>3, ReadyNext
    <3> QED BY <2>3, <3>3, <3>4
  <2> QED BY <1>1, <2>2, <2>3
<1>6. CASE event.kind = "divisor"
  <2> <<>> \in Seq(Samples) /\ Len(<<>>) = 0  OBVIOUS
  <2> QED BY <1>3, <1>5, <1>6 DEF Advances
<1>7. CASE event.kind = "sync"
  <2> PICK samples : samples = Octets(w.req, 0, 2)
    OBVIOUS
  <2>1. Advances(w, samples)
    BY <1>3, <1>4, <1>5, <1>7 DEF Advances
  <2> QED BY <1>7, <2>1
<1> QED BY <1>1, <1>6, <1>7

(* n bits in bit mode come back in one byte.                               *)
LEMMA BitsAdvance ==
  ASSUME TypeOK, Progress, FailureKept, failures = 0, Handling({"tdi"}), NEW n \in 1..8,
         NEW w \in WriteCommands, w = bitsWrite(n), NEW tdi, UNCHANGED callVars,
         pc' = "event", lastTdi' = tdi, curIdx' = curIdx + n,
         tdi = <<req, curIdx + n - 1>> \/ (events' # <<>> /\ event'.kind = "tdi")
  PROVE  Advances(w, << [req |-> w.req, from |-> w.from, n |-> w.n] >>)
<1> PICK samples : samples = << [req |-> w.req, from |-> w.from, n |-> w.n] >>
  OBVIOUS
<1>1. pc = "event" /\ events # <<>> /\ event.kind = "tdi" /\ InCall
  BY DEF Handling, InCall
<1>2. call = "shift_bits"
  BY <1>1, Kinds
<1>3. w.kind = "bits" /\ w.req = req /\ w.from = curIdx /\ w.n = n /\ w.rx = 1
  BY DEF bitsWrite, Command
<1>4. samples \in Seq(Samples) /\ Len(samples) = 1
  <2>1. [req |-> w.req, from |-> w.from, n |-> w.n] \in Samples
    BY <1>3 DEF Samples, WriteCommands
  <2> QED BY <2>1
<1>5. ASSUME NEW c \in Chips, Ready(c)
      PROVE  Ready(ChipStep(c, w))' /\ ChipStep(c, w).out = c.out \o samples
  <2>0. c.req = req /\ ~c.bad /\ c.next = curIdx /\ c.expect = 0
    BY <1>1, <1>2, <1>5 DEF Ready, handedOver
  <2> PICK d : d = ChipStep(c, w)
    OBVIOUS
  <2>1. d = ShiftBits(c, w, n, samples)
    BY <1>3, <2>0 DEF ChipStep
  <2>2. n \in Nat \ {0}
    OBVIOUS
  <2>3. /\ d.bad = (c.bad \/ w.req # c.req \/ w.from # c.next)
        /\ d.req = c.req /\ d.expect = c.expect /\ d.next = w.from + n
        /\ d.tdi = <<w.req, w.from + n - 1>> /\ d.out = c.out \o samples
    <3>1. Shifted(ShiftBits(c, w, n, samples), c, w, n, samples)
      BY Zenon, <1>4, <2>2, ShiftBitsShifts
    <3>2. Shifted(d, c, w, n, samples)
      BY Zenon, <2>1, <3>1
    <3> QED BY Zenon, <3>2 DEF Shifted
  <2>4. ~d.bad
    BY Zenon, <1>3, <2>0, <2>3
  <2>5. Ready(d)'
    BY <1>2, <1>3, <2>0, <2>3, <2>4, ReadyNext
  <2> QED BY <2>3, <2>5
<1>6. Advances(w, samples)
  BY <1>3, <1>4, <1>5 DEF Advances
<1> QED BY <1>6

(* Inner octets: the command announces them, ...                           *)
LEMMA OctetsAdvance ==
  ASSUME Handling({"tdi"}), NEW w \in WriteCommands, w = innerWrite, UNCHANGED callVars,
         pc' = "payload", UNCHANGED <<events, curIdx, lastTdi>>
  PROVE  Advances(w, <<>>)
<1>1. pc = "event" /\ events # <<>> /\ event.kind = "tdi"
  BY DEF Handling
<1>2. w.kind = "octets" /\ w.n = innerOctetsToSend /\ w.rx = 0 /\ w.n \in Nat
  BY DEF innerWrite, Command, WriteCommands
<1>3. ASSUME NEW c \in Chips, Ready(c)
      PROVE  Ready(ChipStep(c, w))' /\ ChipStep(c, w).out = c.out \o <<>>
  <2>0. c.req = req /\ ~c.bad /\ c.next = handedOver /\ c.expect = 0
    BY <1>1, <1>3 DEF Ready
  <2> PICK d : d = ChipStep(c, w)
    OBVIOUS
  <2>1. d = [c EXCEPT !.expect = w.n]
    BY <1>2, <2>0 DEF ChipStep
  <2>2. /\ d.expect = w.n /\ d.bad = c.bad /\ d.req = c.req /\ d.next = c.next
        /\ d.tdi = c.tdi /\ d.out = c.out
    BY <1>2, <2>1, ExpectField
  <2>3. c.out \o <<>> = c.out
    <3>1. c.out \in Seq(Samples)
      BY DEF Chips
    <3> QED BY <3>1
  <2>4. event' = event /\ innerOctetsToSend' = innerOctetsToSend /\ handedOver' = handedOver
    BY DEF event, innerOctetsToSend, innerEndIdx, leadingOnly, numLeadingBits, numRegularBits, lastBitIdx,
           numFirstOctetBits, handedOver, callVars, chipBufferBytes, min
  <2>5. Ready(d)'
    BY <1>1, <1>2, <2>0, <2>2, <2>4 DEF Ready, callVars
  <2> QED BY <2>2, <2>3, <2>5
<1>4. <<>> \in Seq(Samples) /\ Len(<<>>) = 0
  OBVIOUS
<1> QED BY <1>2, <1>3, <1>4 DEF Advances

(* ... and they come back byte by byte.                                    *)
LEMMA PayloadAdvances ==
  ASSUME TypeOK, Progress, FailureKept, failures = 0, pc = "payload", innerOctetsToSend > 0,
         NEW w \in WriteCommands, w = payloadWrite, UNCHANGED callVars,
         pc' = "event", lastTdi' = lastTdi, curIdx' = curIdx + 8 * innerOctetsToSend,
         events' # <<>>, event'.kind = "tdi"
  PROVE  Advances(w, Octets(w.req, w.from, w.n))
<1>1. events # <<>> /\ event.kind = "tdi" /\ InCall
  BY DEF Progress, InCall
<1>2. call = "shift_bits"
  BY <1>1, Kinds
<1>3. w.kind = "payload" /\ w.req = req /\ w.from = curIdx /\ w.n = innerOctetsToSend /\ w.rx = w.n
      /\ w.n \in Nat /\ w.n > 0 /\ w.req \in Nat /\ w.from \in Nat
  BY DEF payloadWrite, Command, WriteCommands
<1> PICK samples : samples = Octets(w.req, w.from, w.n)
  OBVIOUS
<1>4. samples \in Seq(Samples) /\ Len(samples) = w.n
  BY Zenon, <1>3, OctetsTyped
<1>5. ASSUME NEW c \in Chips, Ready(c)
      PROVE  Ready(ChipStep(c, w))' /\ ChipStep(c, w).out = c.out \o samples
  <2>0. c.req = req /\ ~c.bad /\ c.next = curIdx /\ c.expect = w.n
    BY <1>2, <1>3, <1>5 DEF Ready, handedOver
  <2> PICK n : n = 8 * w.n
    OBVIOUS
  <2>1. n \in Nat \ {0}
    BY <1>3
  <2> PICK e : e = ShiftBits(c, w, n, samples)
    OBVIOUS
  <2>2. e \in Chips /\ Shifted(e, c, w, n, samples)
    <3>1. ShiftBits(c, w, n, samples) \in Chips /\ Shifted(ShiftBits(c, w, n, samples), c, w, n, samples)
      BY Zenon, <1>4, <2>1, ShiftBitsShifts
    <3> QED BY Zenon, <3>1
  <2>3. ChipStep(c, w) = [e EXCEPT !.expect = 0]
    BY <1>3, <2>0 DEF ChipStep
  <2> PICK d : d = ChipStep(c, w)
    OBVIOUS
  <2>4. /\ d.expect = 0 /\ d.bad = e.bad /\ d.req = e.req /\ d.next = e.next /\ d.tdi = e.tdi /\ d.out = e.out
    BY <2>2, <2>3, ExpectField
  <2>5. /\ e.bad = (c.bad \/ w.req # c.req \/ w.from # c.next)
        /\ e.req = c.req /\ e.next = w.from + n /\ e.out = c.out \o samples
    BY Zenon, <2>2 DEF Shifted
  <2>6. ~d.bad
    <3>1. w.req = c.req /\ w.from = c.next /\ ~c.bad
      BY <1>3, <2>0
    <3>2. d.bad = (c.bad \/ w.req # c.req \/ w.from # c.next)
      BY Zenon, <2>4, <2>5
    <3> QED BY Zenon, <3>1, <3>2
  <2>7. Ready(d)'
    BY <1>2, <1>3, <2>0, <2>4, <2>5, <2>6, ReadyNext
  <2> QED BY <2>4, <2>5, <2>7
<1>6. Advances(w, samples)
  BY <1>3, <1>4, <1>5 DEF Advances
<1> QED BY <1>6

-----------------------------------------------------------------------------
(* What a command adds to the vector.                                      *)

(* The bits handed over by a TDI event are the ones to store, any others   *)
(* are not.                                                                *)
LEMMA WantedNext ==
  ASSUME TypeOK, Progress, InCall, events # <<>>, ~resetting, UNCHANGED callVars,
         NEW to \in curIdx..event.to, curIdx' = to
  PROVE  /\ event.kind = "tdi" => WantedBits' = WantedBits \cup (curIdx..(to - 1))
         /\ event.kind # "tdi" => WantedBits' = WantedBits
         /\ (curIdx..(to - 1)) \cap WantedBits = {}
<1>1. PICK k \in 1..Len(request) : event = request[k]
  BY Position
<1>2. req > 0 /\ curIdx \in event.from..event.to /\ curIdx \in Nat /\ events \in Seq(Events)
  BY Position DEF TypeOK
<1>3. IsChain(request)
  BY <1>2, RequestChain
<1>4. event.from \in Nat /\ event.to \in Nat
  <2>1. event \in Events
    BY <1>2 DEF event
  <2> QED BY <2>1 DEF Events
<1>5. \A b \in curIdx..(to - 1) : b \in tdiBits <=> event.kind = "tdi"
  <2> SUFFICES ASSUME NEW b \in curIdx..(to - 1) PROVE b \in tdiBits <=> event.kind = "tdi"
    OBVIOUS
  <2>1. b \in request[k].from..(request[k].to - 1)
    BY <1>1, <1>2, <1>4
  <2>2. b \in tdiBits <=> request[k].kind = "tdi"
    BY Zenon, <1>3, <2>1, EventBits
  <2> QED BY <1>1, <2>2
<1>6. \A b \in tdiBits : b \in Nat
  BY <1>3, BitsBelowEnd
<1>7. tdiBits' = tdiBits
  BY DEF tdiBits, callVars
<1>8. WantedBits' = {b \in tdiBits : b < to} /\ WantedBits = {b \in tdiBits : b < curIdx}
  BY <1>7 DEF WantedBits
<1> HIDE DEF WantedBits
<1> QED BY <1>2, <1>4, <1>5, <1>6, <1>8

(* Bit mode: n samples, at the high end of a byte.                         *)
LEMMA BitsVector ==
  ASSUME TypeOK, Progress, Handling({"tdi"}), ~resetting, UNCHANGED callVars, NEW n \in 1..8,
         NEW w, w = bitsWrite(n), curIdx + n <= event.to, curIdx' = curIdx + n,
         extras'[extrasHead + 1] = [fromBit |-> 8 - n, dst |-> req, toBit |-> curIdx, numBits |-> n],
         NEW answer, answer = << [req |-> w.req, from |-> w.from, n |-> w.n] >>
  PROVE  Vector(w, answer)
<1>1. events # <<>> /\ event.kind = "tdi" /\ InCall /\ curIdx \in Nat
  BY DEF Handling, InCall, TypeOK
<1>2. w.req = req /\ w.from = curIdx /\ w.n = n /\ w.rx = 1 /\ w.simple = FALSE
  BY DEF bitsWrite, Command
<1> PICK to, more : to = curIdx + n /\ more = curIdx..(to - 1)
  OBVIOUS
<1>3. to \in curIdx..event.to /\ curIdx' = to
  <2> event.to \in Nat
    <3> event \in Events  BY SMTT(30), <1>1 DEF event, TypeOK
    <3> QED BY DEF Events
  <2> QED BY <1>1
<1>4. WantedBits' = WantedBits \cup more /\ more \cap WantedBits = {}
  BY <1>1, <1>3, WantedNext
<1> PICK x : x = [fromBit |-> 8 - n, dst |-> req, toBit |-> curIdx, numBits |-> n]
  OBVIOUS
<1>5. ASSUME NEW o, NEW out, Watches(o, out, w) PROVE StoresWell(o, out, answer, more)'
  <2>1. out \in Seq(Samples) /\ o.data = Len(out) /\ o.simple = FALSE /\ extras'[o.addr] = x
    BY <1>2, <1>5 DEF Watches
  <2>2. (out \o answer)[o.data + 1] = [req |-> req, from |-> curIdx, n |-> n]
    BY <1>2, <2>1
  <2>3. x.dst = req /\ x.toBit = curIdx /\ x.numBits = n /\ x.fromBit = 8 - n
    OBVIOUS
  <2> PICK cp : cp = bit_copier_rx_observer_fn(x, [req |-> req, from |-> curIdx, n |-> n])
    OBVIOUS
  <2>4. cp.good /\ cp.toBit = curIdx /\ cp.numBits = n
    BY <2>3 DEF bit_copier_rx_observer_fn
  <2>5. Copy(o, out \o answer)' = cp
    BY <2>1, <2>2 DEF Copy, bit_copier_rx_observer_fn
  <2>6. BitsOf(cp) = more
    BY SMTT(30), <1>1, <2>4 DEF BitsOf
  <2> QED BY <2>4, <2>5, <2>6 DEF StoresWell, BitsOf
<1>6. w.rx > 0
  BY <1>2
<1>7. \A o, out : Watches(o, out, w) => StoresWell(o, out, answer, more)'
  BY Zenon, <1>5
<1> QED BY Zenon, <1>4, <1>6, <1>7 DEF Vector

(* Byte mode: eight samples in each byte.                                  *)
LEMMA PayloadVector ==
  ASSUME TypeOK, Progress, pc = "payload", UNCHANGED callVars,
         NEW w \in WriteCommands, w = payloadWrite, w.n > 0, curIdx + 8 * w.n <= event.to, curIdx' = curIdx + 8 * w.n,
         NEW answer, answer = Octets(w.req, w.from, w.n)
  PROVE  Vector(w, answer)
<1>1. events # <<>> /\ event.kind = "tdi" /\ ~resetting /\ InCall /\ curIdx \in Nat /\ req \in Nat
  BY ScenarioFacts DEF Progress, InCall, TypeOK
<1>2. w.req = req /\ w.from = curIdx /\ w.rx = w.n /\ w.simple = TRUE /\ w.n \in Nat
  BY DEF payloadWrite, Command, WriteCommands
<1> PICK to, more : to = curIdx + 8 * w.n /\ more = curIdx..(to - 1)
  OBVIOUS
<1>3. to \in curIdx..event.to /\ curIdx' = to
  <2> event.to \in Nat
    <3> event \in Events  BY <1>1 DEF event, TypeOK
    <3> QED BY DEF Events
  <2> QED BY <1>1, <1>2
<1>4. WantedBits' = WantedBits \cup more /\ more \cap WantedBits = {}
  BY <1>1, <1>3, WantedNext
<1>5. ASSUME NEW o, NEW out, Watches(o, out, w) PROVE StoresWell(o, out, answer, more)'
  <2>1. out \in Seq(Samples) /\ o.data = Len(out) /\ o.simple = TRUE /\ o.n = w.n /\ o.dst = w.req
        /\ o.toBit = w.from
    BY <1>2, <1>5 DEF Watches
  <2>2. answer \in Seq(Samples) /\ Len(answer) = w.n
    BY Zenon, <1>1, <1>2, OctetsTyped
  <2>3. SubSeq(out \o answer, o.data + 1, o.data + o.n) = answer
    <3>1. SubSeq(out \o answer, Len(out) + 1, Len(out) + Len(answer)) = answer
      <4>1. out \in Seq(Samples) /\ answer \in Seq(Samples)
        BY Zenon, <2>1, <2>2
      <4> QED BY <4>1, SubSeqRest
    <3>2. o.data + o.n = Len(out) + Len(answer)
      BY Zenon, <2>1, <2>2
    <3> QED BY Zenon, <2>1, <3>1, <3>2
  <2>4. Copy(o, out \o answer)' = [dst |-> o.dst, toBit |-> o.toBit, numBits |-> 8 * o.n,
                                   good |-> answer = Octets(o.dst, o.toBit, o.n)]
    BY <2>1, <2>3 DEF Copy, byte_copier_rx_observer_fn
  <2> PICK cp : cp = Copy(o, out \o answer)'
    OBVIOUS
  <2>5. cp.good /\ cp.toBit = curIdx /\ cp.numBits = 8 * w.n
    <3>1. cp.toBit = o.toBit /\ cp.numBits = 8 * o.n /\ cp.good = (answer = Octets(o.dst, o.toBit, o.n))
      BY <2>4
    <3>2. Octets(o.dst, o.toBit, o.n) = answer
      BY Zenon, <2>1
    <3> QED BY Zenon, <1>2, <2>1, <3>1, <3>2
  <2>6. BitsOf(cp) = more
    <3>1. cp.toBit + cp.numBits - 1 = to - 1
      BY <1>1, <1>2, <2>5
    <3> QED BY Zenon, <2>5, <3>1 DEF BitsOf
  <2> QED BY <2>5, <2>6 DEF StoresWell, BitsOf
<1>6. w.rx > 0
  BY <1>2
<1>7. \A o, out : Watches(o, out, w) => StoresWell(o, out, answer, more)'
  BY Zenon, <1>5
<1> QED BY Zenon, <1>4, <1>6, <1>7 DEF Vector

-----------------------------------------------------------------------------
(* The steps.                                                              *)

(* What a step may change of d->pool, given that command w takes an extra. *)
ExtrasFor(w) ==
  /\ ExtrasTyped' /\ ExtrasStay
  /\ w.rx > 0 /\ ~w.simple => w.rx = 1 /\ extrasHead' = extrasHead + 1

(* A command was appended and the call goes on.                            *)
LEMMA CommandKeeps ==
  ASSUME IndInv, InCall, events # <<>>, NEW w, Sized(w), Appended(w), ExtrasFor(w),
         NEW answer, failures = 0 => Advances(w, answer) /\ Vector(w, answer),
         ControlTyped', Progress', InCall', handedOver' >= handedOver
  PROVE  IndInv' /\ failures' = failures /\ (failures = 0 => chip'.next \in {chip.next, handedOver})
<1>0. CallTyped /\ FailuresTyped /\ ControlTyped /\ DataTyped /\ ExtrasTyped /\ TypeOK
      /\ Progress /\ FailureKept /\ BufferHolds /\ InSync
  BY Zenon, TypeParts DEF IndInv
<1>1. extras' \in Seq(Extras) /\ Len(extras) <= Len(extras') /\ extrasHead' \in extrasHead..Len(extras')
      /\ (w.rx > 0 /\ ~w.simple => w.rx = 1 /\ extrasHead' = extrasHead + 1) /\ ExtrasStay /\ ExtrasTyped'
  BY Zenon DEF ExtrasFor, ExtrasStay
<1>2. /\ buf' \in Buffers /\ buf'.head <= scenario.poolBytes
      /\ chip' \in Chips /\ copied' \in Seq(Copies) /\ failures' = failures
      /\ BufferHolds'
  BY Zenon, <1>0, <1>1, AppendKeeps
<1>3. scenario' = scenario /\ call' = call /\ req' = req /\ request' = request /\ failedBefore' = failedBefore
      /\ resetting' = resetting /\ result' = result
  BY Zenon DEF Appended, callVars
<1>4. CallTyped' /\ FailuresTyped' /\ DataTyped'
  BY Zenon, <1>0, <1>2, <1>3 DEF CallTyped, FailuresTyped, DataTyped
<1>5. TypeOK'
  BY Zenon, <1>1, <1>4, TypeParts
<1>6. FailureKept'
  BY <1>0, <1>2, <1>3 DEF FailureKept, InCall, FailuresReported
<1>7. pc # "aborted" /\ pc' # "idle"
  BY DEF InCall
<1>8. ASSUME failures = 0
      PROVE  /\ SyncAt(buf, chip, copied)'
             /\ ~chip'.bad /\ chip'.next \in {chip.next, handedOver}
  BY Zenon, <1>0, <1>1, <1>7, <1>8, AppendSyncs
<1>9. InSync'
  <2>1. ASSUME failures = 0 PROVE chip'.next <= handedOver'
    <3>1. chip.next <= handedOver /\ chip.next \in Nat
      BY <1>0, <2>1 DEF InSync, DataTyped, Chips
    <3>2. handedOver \in Nat /\ handedOver' \in Nat
      BY <1>0 DEF ControlTyped, handedOver
    <3> QED BY <1>8, <2>1, <3>1, <3>2
  <2> QED BY Zenon, <1>2, <1>7, <1>8, <2>1 DEF InSync
<1> QED BY Zenon, <1>0, <1>2, <1>5, <1>6, <1>8, <1>9 DEF IndInv

(* A flush before the command failed.                                      *)
LEMMA FailureKeeps ==
  ASSUME IndInv, InCall, FlushFails, ExtrasTyped', Len(extras) <= Len(extras')
  PROVE  IndInv' /\ failures' > 0
<1>1. TypeOK' /\ Progress' /\ FailureKept' /\ BufferHolds' /\ failures' > 0
  BY Zenon, FlushFailsKeeps DEF IndInv
<1>2. InSync'
  <2>1. ~(failures' = 0)
    BY <1>1
  <2> QED BY Zenon, <2>1 DEF InSync
<1> QED BY Zenon, <1>1, <1>2 DEF IndInv

(* Of a step of a call, what the splitter is to expect.                    *)
Shifts == failures' = 0 => failures = 0 /\ chip'.next \in {chip.next, handedOver} /\ curIdx' >= curIdx

LEMMA FailureShifts ==
  ASSUME IndInv, InCall, FlushFails, ExtrasTyped', Len(extras) <= Len(extras')
  PROVE  IndInv' /\ Shifts
<1>1. IndInv' /\ failures' > 0
  BY Zenon, FailureKeeps
<1>2. ~(failures' = 0)
  BY <1>1
<1> QED BY Zenon, <1>1, <1>2 DEF Shifts

(* A command was appended that hands over bits.                            *)
LEMMA BitsGoOn ==
  ASSUME IndInv, InCall, events # <<>>, NEW w, Sized(w), Appended(w), ExtrasFor(w),
         NEW answer, failures = 0 => Advances(w, answer) /\ Vector(w, answer),
         NEW to \in curIdx..event.to, NEW tdi \in Nat \X Nat, HandedOver(to, tdi),
         event.kind = "tdi" /\ to < event.to => to \in {event.from, lastBitIdx} \/ to % 8 = 0
  PROVE  IndInv' /\ Shifts
<1>0. TypeOK /\ Progress /\ ControlTyped
  BY Zenon, TypeParts DEF IndInv
<1>1. UNCHANGED callVars /\ UNCHANGED resetting /\ UNCHANGED result
  BY DEF Appended
<1>2. /\ pc' = "event" /\ lastTdi' = tdi /\ curIdx' = to /\ curIdx' \in Nat /\ events' \in Seq(Events)
      /\ events' # <<>> => curIdx' \in (event.from..event.to)'
      /\ Progress'
  BY Zenon, <1>0, <1>1, GoesOn
<1>3. ControlTyped'
  <2>1. pc' \in {"idle", "event", "payload", "deinit", "off", "aborted"}
    BY <1>2
  <2> QED BY Zenon, <1>0, <1>1, <1>2, <2>1 DEF ControlTyped
<1>4. InCall'
  BY <1>2 DEF InCall
<1>5. curIdx' >= curIdx /\ handedOver' >= handedOver
  <2>1. curIdx \in Nat /\ to >= curIdx
    BY <1>0 DEF ControlTyped
  <2> QED BY <1>1, <1>2, <2>1 DEF handedOver, callVars
<1>6. IndInv' /\ failures' = failures /\ (failures = 0 => chip'.next \in {chip.next, handedOver})
  BY Zenon, <1>3, <1>2, <1>4, <1>5, CommandKeeps
<1> QED BY Zenon, <1>5, <1>6 DEF Shifts

(* d->pool left as it is.                                                  *)
LEMMA ExtrasUnchanged ==
  ASSUME TypeOK, UNCHANGED poolVars, UNCHANGED callVars, NEW w, w.rx = 0 \/ w.simple
  PROVE  ExtrasFor(w) /\ ExtrasTyped' /\ Len(extras) <= Len(extras')
<1>1. extras' = extras /\ extrasHead' = extrasHead /\ scenario' = scenario
  BY DEF poolVars, callVars
<1>2. extras \in Seq(Extras) /\ Len(extras) \in Nat /\ extrasHead \in 0..Len(extras) /\ Len(extras) <= scenario.poolExtras
  BY DEF TypeOK
<1>3. ExtrasTyped'
  BY <1>1, <1>2 DEF ExtrasTyped
<1>4. ExtrasStay
  BY <1>1, <1>2 DEF ExtrasStay
<1>5. ~(w.rx > 0 /\ ~w.simple)
  OBVIOUS
<1> QED BY <1>1, <1>2, <1>3, <1>4, <1>5 DEF ExtrasFor

LEMMA NumbersTyped ==
  ASSUME TypeOK
  PROVE  /\ curIdx \in Nat /\ lastTdi \in Nat \X Nat /\ req \in Nat
         /\ chipBufferBytes \in Nat /\ chipBufferBytes >= 4 /\ maxTxBufferBytes = 3 * chipBufferBytes
         /\ maxRxBufferBytes = chipBufferBytes
<1>1. scenario \in Scenarios /\ req \in 0..MaxCalls /\ curIdx \in Nat /\ lastTdi \in Nat \X Nat
  BY DEF TypeOK
<1> QED BY <1>1, ScenarioFacts

(* append_tms_shift_to_transaction()                                       *)
LEMMA TmsStep ==
  ASSUME IndInv, append_tms
  PROVE  IndInv' /\ Shifts
<1>0. TypeOK /\ Progress /\ FailureKept
  BY Zenon DEF IndInv
<1>1. Handling({"tms", "reset"}) /\ PoolFits(tmsWrite) /\ UNCHANGED poolVars
      /\ AddWrite(tmsWrite, HandedOver(curIdx + bitsToTransfer, lastTdi))
  BY Zenon DEF append_tms
<1>2. InCall /\ events # <<>> /\ pc = "event" /\ event.kind \in {"tms", "reset"}
  BY <1>1 DEF Handling, InCall
<1>3. /\ curIdx \in Nat /\ event.to \in Nat /\ curIdx < event.to /\ lastTdi \in Nat \X Nat /\ req \in Nat
      /\ chipBufferBytes \in Nat /\ chipBufferBytes >= 4 /\ maxTxBufferBytes = 3 * chipBufferBytes
      /\ maxRxBufferBytes = chipBufferBytes /\ event.kind # "tdi"
  <2>1. event.to \in Nat
    BY <1>0, <1>2, Kinds
  <2>2. curIdx < event.to /\ event.kind # "tdi"
    BY <1>0, <1>2 DEF Progress
  <2> QED BY <1>0, <2>1, <2>2, NumbersTyped
<1>4. bitsToTransfer \in Nat /\ curIdx + bitsToTransfer \in curIdx..event.to
  BY <1>3 DEF bitsToTransfer, min, maxTmsBitsPerCommand
<1> PICK w : w = tmsWrite
  OBVIOUS
<1>5. w \in WriteCommands /\ w.tx = 3 /\ w.rx = 0 /\ w.simple = FALSE
  <2>1. w = [kind |-> event.kind, req |-> req, from |-> curIdx, n |-> bitsToTransfer, tdi |-> lastTdi,
             tx |-> 3, rx |-> 0, simple |-> FALSE]
    BY DEF tmsWrite, Command
  <2> QED BY SMTT(30), <1>2, <1>3, <1>4, <2>1 DEF WriteCommands
<1>6. Sized(w)
  BY <1>1, <1>3, <1>5 DEF Sized
<1>7. UNCHANGED callVars
  BY Zenon, <1>1 DEF AddWrite
<1>8. ExtrasFor(w) /\ ExtrasTyped' /\ Len(extras) <= Len(extras')
  BY Zenon, <1>0, <1>1, <1>5, <1>7, ExtrasUnchanged
<1>9. CASE FlushFails
  BY Zenon, <1>2, <1>8, <1>9, FailureShifts
<1>10. CASE Appended(tmsWrite) /\ HandedOver(curIdx + bitsToTransfer, lastTdi)
  <2> PICK to, tdi : to = curIdx + bitsToTransfer /\ tdi = lastTdi
    OBVIOUS
  <2>1. Appended(w) /\ HandedOver(to, tdi) /\ to \in curIdx..event.to /\ tdi \in Nat \X Nat
        /\ UNCHANGED resetting
    BY Zenon, <1>3, <1>4, <1>10 DEF Appended, HandedOver
  <2>2. pc' = "event" /\ lastTdi' = tdi /\ curIdx' = to
    BY Zenon, <1>0, <1>2, <1>3, <1>7, <2>1, GoesOn
  <2>3. ASSUME failures = 0 PROVE Advances(w, <<>>) /\ Vector(w, <<>>)
    <3>1. Advances(w, <<>>)
      BY <1>0, <1>1, <1>5, <1>7, <2>2, <2>3, TmsAdvances
    <3>2. WantedBits' = WantedBits
      BY <1>0, <1>2, <1>3, <1>7, <2>1, <2>2, <2>3, WantedNext, Kinds
    <3> QED BY Zenon, <1>5, <3>1, <3>2 DEF Vector
  <2> QED BY Zenon, <1>2, <1>3, <1>6, <1>8, <2>1, <2>3, BitsGoOn
<1> QED BY Zenon, <1>1, <1>9, <1>10 DEF AddWrite, Appended, FlushFails

(* The next extra of d->pool.                                              *)
LEMMA AllocKeeps ==
  ASSUME TypeOK, extrasHead < scenario.poolExtras, NEW x \in Extras, AllocExtra(x), UNCHANGED callVars
  PROVE  /\ ExtrasTyped' /\ ExtrasStay /\ extrasHead' = extrasHead + 1
         /\ extras'[extrasHead + 1] = x /\ Len(extras) <= Len(extras')
<1>1. extras \in Seq(Extras) /\ Len(extras) \in Nat /\ extrasHead \in 0..Len(extras) /\ Len(extras) <= scenario.poolExtras
      /\ scenario.poolExtras \in Nat /\ scenario' = scenario
  <2>1. scenario' = scenario
    BY Zenon DEF callVars
  <2>2. scenario \in Scenarios /\ extras \in Seq(Extras) /\ extrasHead \in 0..Len(extras)
        /\ Len(extras) <= scenario.poolExtras
    BY Zenon DEF TypeOK
  <2>3. scenario.poolExtras \in Nat
    BY <2>2, ScenarioFacts
  <2>4. Len(extras) \in Nat
    BY <2>2
  <2> QED BY Zenon, <2>1, <2>2, <2>3, <2>4
<1>2. extrasHead' = extrasHead + 1
      /\ extras' = IF extrasHead < Len(extras) THEN [extras EXCEPT ![extrasHead + 1] = x] ELSE Append(extras, x)
  BY DEF AllocExtra
<1>3. CASE extrasHead < Len(extras)
  <2>1. extras' = [extras EXCEPT ![extrasHead + 1] = x] /\ extrasHead + 1 \in 1..Len(extras)
    BY <1>1, <1>2, <1>3
  <2>2. extras' \in Seq(Extras) /\ Len(extras') = Len(extras) /\ extras'[extrasHead + 1] = x
        /\ \A i \in 1..extrasHead : extras'[i] = extras[i]
    BY <1>1, <2>1
  <2> QED BY <1>1, <1>2, <1>3, <2>2 DEF ExtrasTyped, ExtrasStay
<1>4. CASE ~(extrasHead < Len(extras))
  <2>1. extras' = Append(extras, x) /\ extrasHead = Len(extras)
    BY <1>1, <1>2, <1>4
  <2>2. extras' \in Seq(Extras) /\ Len(extras') = Len(extras) + 1 /\ extras'[extrasHead + 1] = x
        /\ \A i \in 1..extrasHead : extras'[i] = extras[i]
    BY <1>1, <2>1
  <2> QED BY <1>1, <1>2, <2>1, <2>2 DEF ExtrasTyped, ExtrasStay
<1> QED BY <1>3, <1>4

(* A range in bit mode.                                                    *)
LEMMA BitsStep ==
  ASSUME IndInv, Handling({"tdi"}), NEW n \in 1..8, NEW tdi \in Nat \X Nat, append_bits(n, tdi),
         curIdx + n <= event.to,
         curIdx + n < event.to => curIdx + n = lastBitIdx \/ (curIdx + n) % 8 = 0,
         curIdx + n = event.to => tdi = <<req, curIdx + n - 1>>
  PROVE  IndInv' /\ Shifts
<1>0. TypeOK /\ Progress /\ FailureKept
  BY Zenon DEF IndInv
<1>1. extrasHead < scenario.poolExtras /\ PoolFits(bitsWrite(n))
      /\ AllocExtra([fromBit |-> 8 - n, dst |-> req, toBit |-> curIdx, numBits |-> n])
      /\ AddWrite(bitsWrite(n), HandedOver(curIdx + n, tdi))
  BY Zenon DEF append_bits
<1>2. InCall /\ events # <<>> /\ pc = "event" /\ event.kind = "tdi"
  BY DEF Handling, InCall
<1>3. /\ curIdx \in Nat /\ lastTdi \in Nat \X Nat /\ req \in Nat
      /\ chipBufferBytes \in Nat /\ chipBufferBytes >= 4 /\ maxTxBufferBytes = 3 * chipBufferBytes
      /\ maxRxBufferBytes = chipBufferBytes
  BY Zenon, <1>0, NumbersTyped
<1>4. event.to \in Nat /\ ~resetting /\ curIdx + n \in curIdx..event.to
  <2>1. event.to \in Nat /\ ~resetting
    BY <1>0, <1>2, Kinds
  <2> QED BY <1>3, <2>1
<1> PICK x, w : /\ x = [fromBit |-> 8 - n, dst |-> req, toBit |-> curIdx, numBits |-> n]
                /\ w = bitsWrite(n)
  OBVIOUS
<1>5. w \in WriteCommands /\ w.tx = 3 /\ w.rx = 1 /\ w.simple = FALSE /\ x \in Extras
  <2>1. w = [kind |-> "bits", req |-> req, from |-> curIdx, n |-> n, tdi |-> lastTdi,
             tx |-> 3, rx |-> 1, simple |-> FALSE]
    BY DEF bitsWrite, Command
  <2>2. x \in Extras
    BY <1>3 DEF Extras
  <2> QED BY <1>3, <2>1, <2>2 DEF WriteCommands
<1>6. Sized(w)
  BY <1>1, <1>3, <1>5 DEF Sized
<1>7. UNCHANGED callVars
  BY Zenon, <1>1 DEF AddWrite
<1>8. /\ ExtrasTyped' /\ ExtrasStay /\ extrasHead' = extrasHead + 1
      /\ extras'[extrasHead + 1] = x /\ Len(extras) <= Len(extras')
  BY Zenon, <1>0, <1>1, <1>5, <1>7, AllocKeeps
<1>9. ExtrasFor(w)
  BY Zenon, <1>5, <1>8 DEF ExtrasFor
<1>10. CASE FlushFails
  BY Zenon, <1>2, <1>8, <1>10, FailureShifts
<1>11. CASE Appended(bitsWrite(n)) /\ HandedOver(curIdx + n, tdi)
  <2> PICK to : to = curIdx + n
    OBVIOUS
  <2>1. Appended(w) /\ HandedOver(to, tdi) /\ to \in curIdx..event.to /\ UNCHANGED resetting
    BY Zenon, <1>4, <1>11 DEF Appended, HandedOver
  <2>2. event.kind = "tdi" /\ to < event.to => to \in {event.from, lastBitIdx} \/ to % 8 = 0
    OBVIOUS
  <2>3. pc' = "event" /\ lastTdi' = tdi /\ curIdx' = to /\ (to < event.to => events' = events)
    BY Zenon, <1>0, <1>2, <1>7, <2>1, <2>2, GoesOn
  <2> PICK answer : answer = << [req |-> w.req, from |-> w.from, n |-> w.n] >>
    OBVIOUS
  <2>4. ASSUME failures = 0 PROVE Advances(w, answer) /\ Vector(w, answer)
    <3>1. tdi = <<req, curIdx + n - 1>> \/ (events' # <<>> /\ event'.kind = "tdi")
      BY SMTT(30), <1>2, <1>3, <1>4, <2>3 DEF event
    <3>2. Advances(w, answer)
      BY Zenon, <1>0, <1>5, <1>7, <2>3, <2>4, <3>1, BitsAdvance
    <3>3. Vector(w, answer)
      BY Zenon, <1>0, <1>4, <1>7, <1>8, <2>3, BitsVector
    <3> QED BY <3>2, <3>3
  <2> QED BY Zenon, <1>2, <1>6, <1>9, <2>1, <2>2, <2>4, BitsGoOn
<1> QED BY Zenon, <1>1, <1>10, <1>11 DEF AddWrite, Appended, FlushFails

LEMMA OctetBoundary ==
  ASSUME NEW i \in Nat
  PROVE  /\ i % 8 \in 0..7
         /\ i - (i % 8) \in Nat /\ (i - (i % 8)) % 8 = 0
         /\ (i + (8 - (i % 8))) % 8 = 0
<1>1. i % 8 \in 0..7
  OBVIOUS
<1>2. i - (i % 8) \in Nat /\ (i - (i % 8)) % 8 = 0
  OBVIOUS
<1>3. (i + (8 - (i % 8))) % 8 = 0
  OBVIOUS
<1> QED BY <1>1, <1>2, <1>3

LEMMA LeadingCut ==
  ASSUME NEW from \in Nat, NEW last \in Nat, from <= last, NEW n \in Int,
         n = IF from % 8 = 0 THEN 0 ELSE IF 8 - (from % 8) < last - from THEN 8 - (from % 8) ELSE last - from
  PROVE  n \in 0..7 /\ from + n <= last /\ (from + n = last \/ (from + n) % 8 = 0)
<1>1. CASE n = 0
  BY <1>1
<1>2. CASE n = 8 - (from % 8)
  BY <1>2
<1>3. CASE n = last - from
  BY <1>3
<1> QED BY <1>1, <1>2, <1>3

(* The ranges a TDI event is cut into.                                     *)
LEMMA TdiRanges ==
  ASSUME TypeOK, Progress, InCall, events # <<>>, event.kind = "tdi"
  PROVE  /\ event.from \in Nat /\ event.to \in Nat /\ curIdx \in event.from..event.to
         /\ lastBitIdx \in Nat /\ lastBitIdx = event.to - 1 /\ event.from <= lastBitIdx
         /\ numLeadingBits \in 0..7 /\ event.from + numLeadingBits <= lastBitIdx
         /\ event.from + numLeadingBits = lastBitIdx \/ (event.from + numLeadingBits) % 8 = 0
         /\ numTrailingBits \in 0..7
         /\ innerEndIdx >= 0 => /\ innerEndIdx \in Nat /\ innerEndIdx % 8 = 0
                                /\ innerEndIdx + numTrailingBits = lastBitIdx
<1>1. event \in Events /\ curIdx \in event.from..event.to /\ event.from < event.to
  <2>1. events \in Seq(Events) /\ curIdx \in event.from..event.to
        /\ \A i \in 1..Len(events) :
              IF events[i].kind \in {"divisor", "sync"} THEN events[i].from = events[i].to
                                                        ELSE events[i].from < events[i].to
    BY Zenon, Position
  <2>2. event = events[1] /\ 1 \in 1..Len(events) /\ event \in Events
    BY <2>1 DEF event
  <2> QED BY <2>1, <2>2
<1>2. event.from \in Nat /\ event.to \in Nat
  BY <1>1 DEF Events
<1> PICK from, to : from = event.from /\ to = event.to
  OBVIOUS
<1>3. from \in Nat /\ to \in Nat /\ from < to
  BY <1>1, <1>2
<1>4. lastBitIdx = to - 1 /\ numRegularBits = to - 1 - from /\ numFirstOctetBits = 8 - (from % 8)
  BY DEF lastBitIdx, numRegularBits, numFirstOctetBits
<1>5. numLeadingBits = IF from % 8 = 0 THEN 0
                       ELSE IF 8 - (from % 8) < to - 1 - from THEN 8 - (from % 8) ELSE to - 1 - from
  <2>1. numLeadingBits = IF numFirstOctetBits = 8 THEN min(0, numRegularBits) ELSE min(numFirstOctetBits, numRegularBits)
    BY DEF numLeadingBits
  <2>2. min(0, numRegularBits) = 0
    BY <1>3, <1>4 DEF min
  <2>3. numFirstOctetBits = 8 <=> from % 8 = 0
    BY <1>3, <1>4, OctetBoundary
  <2>4. min(numFirstOctetBits, numRegularBits)
          = IF 8 - (from % 8) < to - 1 - from THEN 8 - (from % 8) ELSE to - 1 - from
    BY <1>4 DEF min
  <2> QED BY <2>1, <2>2, <2>3, <2>4
<1>6. innerEndIdx = IF numLeadingBits = to - 1 - from THEN -1 ELSE (to - 1) - ((to - 1) % 8)
  BY <1>4 DEF innerEndIdx, leadingOnly
<1>7. numTrailingBits = IF numLeadingBits = to - 1 - from THEN 0 ELSE (to - 1) % 8
  BY <1>4 DEF numTrailingBits, leadingOnly
<1>8. numLeadingBits \in 0..7 /\ from + numLeadingBits <= to - 1
      /\ (from + numLeadingBits = to - 1 \/ (from + numLeadingBits) % 8 = 0)
  <2>1. from <= to - 1 /\ to - 1 \in Nat /\ numLeadingBits \in Int
    BY SMTT(30), <1>3, <1>5
  <2> QED BY ZenonT(60), <1>3, <1>5, <2>1, LeadingCut
<1>9. numTrailingBits \in 0..7
      /\ (innerEndIdx >= 0 => innerEndIdx \in Nat /\ innerEndIdx % 8 = 0 /\ innerEndIdx + numTrailingBits = to - 1)
  <2> PICK m : m = (to - 1) % 8 /\ m \in 0..7 /\ to - 1 - m \in Nat /\ (to - 1 - m) % 8 = 0
    <3>1. to - 1 \in Nat
      BY <1>3
    <3> QED BY Zenon, <3>1, OctetBoundary
  <2>1. CASE numLeadingBits = to - 1 - from
    BY <1>6, <1>7, <2>1
  <2>2. CASE numLeadingBits # to - 1 - from
    <3>1. innerEndIdx = to - 1 - m /\ numTrailingBits = m
      BY <1>6, <1>7, <2>2
    <3> QED BY <1>3, <3>1
  <2> QED BY <2>1, <2>2
<1>10. lastBitIdx \in Nat /\ from <= lastBitIdx
  BY SMTT(30), <1>3, <1>4
<1> QED BY Zenon, <1>1, <1>2, <1>4, <1>8, <1>9, <1>10

LEMMA LeadingStep ==
  ASSUME IndInv, append_tdi_leading
  PROVE  IndInv' /\ Shifts
<1>1. TypeOK /\ Progress /\ Handling({"tdi"}) /\ AtLeading
  BY Zenon DEF IndInv, append_tdi_leading, AtLeading
<1>2. InCall /\ events # <<>> /\ event.kind = "tdi"
  BY <1>1 DEF Handling, InCall
<1>3. curIdx = event.from /\ numLeadingBits > 0
  BY Zenon, <1>1 DEF AtLeading
<1> PICK n, tdi : n = numLeadingBits /\ tdi = lastTdi
  OBVIOUS
<1>4. append_bits(n, tdi) /\ tdi \in Nat \X Nat
  BY Zenon, <1>1 DEF append_tdi_leading, TypeOK
<1>5. /\ n \in 1..8 /\ curIdx + n <= event.to
      /\ curIdx + n < event.to => curIdx + n = lastBitIdx \/ (curIdx + n) % 8 = 0
      /\ ~(curIdx + n = event.to)
  <2>1. /\ event.to \in Nat /\ lastBitIdx = event.to - 1 /\ event.from \in Nat
        /\ n \in 0..7 /\ event.from + n <= lastBitIdx
        /\ event.from + n = lastBitIdx \/ (event.from + n) % 8 = 0
    BY Zenon, <1>1, <1>2, TdiRanges
  <2> QED BY <1>3, <2>1
<1> QED BY Zenon, <1>1, <1>4, <1>5, BitsStep

LEMMA TrailingStep ==
  ASSUME IndInv, append_tdi_trailing
  PROVE  IndInv' /\ Shifts
<1>1. TypeOK /\ Progress /\ Handling({"tdi"}) /\ AtTrailing
  BY Zenon DEF IndInv, append_tdi_trailing, AtTrailing
<1>2. InCall /\ events # <<>> /\ event.kind = "tdi"
  BY <1>1 DEF Handling, InCall
<1>3. curIdx = innerEndIdx /\ numTrailingBits > 0
  BY Zenon, <1>1 DEF AtTrailing
<1> PICK n, tdi : n = numTrailingBits /\ tdi = lastTdi
  OBVIOUS
<1>4. append_bits(n, tdi) /\ tdi \in Nat \X Nat
  BY Zenon, <1>1 DEF append_tdi_trailing, TypeOK
<1>5. /\ n \in 1..8 /\ curIdx + n <= event.to
      /\ curIdx + n < event.to => curIdx + n = lastBitIdx \/ (curIdx + n) % 8 = 0
      /\ ~(curIdx + n = event.to)
  BY <1>1, <1>2, <1>3, TdiRanges
<1> QED BY Zenon, <1>1, <1>4, <1>5, BitsStep

LEMMA LastStep ==
  ASSUME IndInv, append_tdi_last
  PROVE  IndInv' /\ Shifts
<1>1. TypeOK /\ Progress /\ Handling({"tdi"}) /\ AtLast
  BY Zenon DEF IndInv, append_tdi_last, AtLast
<1>2. InCall /\ events # <<>> /\ event.kind = "tdi"
  BY <1>1 DEF Handling, InCall
<1>3. curIdx = lastBitIdx
  BY Zenon, <1>1 DEF AtLast
<1> PICK n, tdi : n = 1 /\ tdi = <<req, lastBitIdx>>
  OBVIOUS
<1>4. append_bits(n, tdi)
  BY Zenon, <1>1 DEF append_tdi_last
<1>5. req \in Nat
  BY Zenon, <1>1, NumbersTyped
<1>6. /\ n \in 1..8 /\ curIdx + n = event.to /\ curIdx + n <= event.to /\ tdi \in Nat \X Nat
      /\ ~(curIdx + n < event.to) /\ tdi = <<req, curIdx + n - 1>>
  <2>1. event.to \in Nat /\ lastBitIdx = event.to - 1 /\ lastBitIdx \in Nat
    BY Zenon, <1>1, <1>2, TdiRanges
  <2>2. n = 1 /\ curIdx = event.to - 1 /\ tdi = <<req, event.to - 1>> /\ event.to - 1 \in Nat
    BY <1>3, <2>1
  <2> QED BY <1>5, <2>1, <2>2
<1> QED BY Zenon, <1>1, <1>4, <1>6, BitsStep

LEMMA WholeOctets ==
  ASSUME NEW i \in Nat, NEW end \in Nat, i % 8 = 0, end % 8 = 0, i < end
  PROVE  i + 8 <= end /\ (end - i) \div 8 \in Nat \ {0} /\ i + 8 * ((end - i) \div 8) = end
<1>1. i + 8 <= end
  OBVIOUS
<1>2. (end - i) % 8 = 0
  OBVIOUS
<1>3. PICK d \in Nat : d = end - i
  BY <1>1
<1>4. d \div 8 \in Nat /\ d = 8 * (d \div 8)
  BY <1>2, <1>3
<1>5. d \div 8 # 0
  BY <1>1, <1>3, <1>4
<1> QED BY <1>1, <1>3, <1>4, <1>5

(* Each turn of the loop over the inner octets sends some, and no more     *)
(* than there are.                                                         *)
LEMMA InnerOctets ==
  ASSUME TypeOK, Progress, InCall, events # <<>>, event.kind = "tdi", curIdx % 8 = 0, curIdx < innerEndIdx
  PROVE  /\ curIdx + 8 <= innerEndIdx /\ innerOctetsToSend \in Nat \ {0}
         /\ innerOctetsToSend <= chipBufferBytes
         /\ curIdx + 8 * innerOctetsToSend <= lastBitIdx /\ (curIdx + 8 * innerOctetsToSend) % 8 = 0
         /\ lastBitIdx = event.to - 1 /\ event.to \in Nat /\ lastBitIdx \in Nat
<1>1. curIdx \in Nat /\ chipBufferBytes \in Nat /\ chipBufferBytes >= 4
  BY Zenon, NumbersTyped
<1>2. /\ event.to \in Nat /\ lastBitIdx \in Nat /\ lastBitIdx = event.to - 1 /\ numTrailingBits \in 0..7
      /\ innerEndIdx >= 0 => /\ innerEndIdx \in Nat /\ innerEndIdx % 8 = 0
                             /\ innerEndIdx + numTrailingBits = lastBitIdx
  BY Zenon, TdiRanges
<1>3. innerEndIdx >= 0
  <2>1. innerEndIdx \in Int
    <3>1. innerEndIdx = -1 \/ innerEndIdx = lastBitIdx - (lastBitIdx % 8)
      BY DEF innerEndIdx
    <3> QED BY <1>2, <3>1
  <2> QED BY <1>1, <2>1
<1> PICK i, end, size : i = curIdx /\ end = innerEndIdx /\ size = chipBufferBytes
  OBVIOUS
<1>4. i \in Nat /\ end \in Nat /\ i % 8 = 0 /\ end % 8 = 0 /\ i < end /\ end <= lastBitIdx /\ size \in Nat /\ size >= 4
  BY <1>1, <1>2, <1>3
<1>5. PICK d \in Nat \ {0} : d = (end - i) \div 8 /\ i + 8 <= end /\ i + 8 * d = end
  <2>1. i + 8 <= end /\ (end - i) \div 8 \in Nat \ {0} /\ i + 8 * ((end - i) \div 8) = end
    BY <1>4, WholeOctets
  <2> QED BY <2>1
<1>6. innerOctetsToSend = IF d < size THEN d ELSE size
  BY <1>5 DEF innerOctetsToSend, min
<1>7. PICK n : n = innerOctetsToSend
  OBVIOUS
<1>8. n \in Nat \ {0} /\ n <= size /\ n <= d
  BY <1>4, <1>6, <1>7
<1>9. i + 8 * n <= lastBitIdx /\ (i + 8 * n) % 8 = 0
  BY <1>2, <1>4, <1>5, <1>8
<1> QED BY Zenon, <1>2, <1>5, <1>7, <1>8, <1>9

(* The inner octets begin at one.                                          *)
LEMMA InnerCut ==
  ASSUME TypeOK, Progress, AtInner
  PROVE  curIdx % 8 = 0 /\ curIdx + 8 <= innerEndIdx /\ innerOctetsToSend \in Nat \ {0} /\ innerOctetsToSend \in Nat
<1>1. Handling({"tdi"}) /\ ~AtLeading /\ curIdx < lastBitIdx /\ curIdx < innerEndIdx
  BY Zenon DEF AtInner
<1>2. InCall /\ events # <<>> /\ pc = "event" /\ event.kind = "tdi"
  BY <1>1 DEF Handling, InCall
<1>3. curIdx % 8 = 0
  <2>1. /\ numLeadingBits \in 0..7 /\ curIdx \in event.from..event.to /\ event.from \in Nat /\ event.to \in Nat
        /\ event.from + numLeadingBits = lastBitIdx \/ (event.from + numLeadingBits) % 8 = 0
    BY Zenon, <1>2, TdiRanges
  <2>2. curIdx \in {event.from, lastBitIdx} \/ curIdx % 8 = 0
    BY Zenon, <1>2 DEF Progress
  <2>3. curIdx # event.from \/ ~(numLeadingBits > 0)
    BY Zenon, <1>1 DEF AtLeading
  <2> QED BY <1>1, <2>1, <2>2, <2>3
<1>4. curIdx + 8 <= innerEndIdx /\ innerOctetsToSend \in Nat \ {0}
  BY Zenon, <1>1, <1>2, <1>3, InnerOctets
<1>5. innerOctetsToSend \in Nat
  BY <1>4
<1> QED BY <1>3, <1>4, <1>5

(* The header of a byte-mode shift announces the octets that are sent next. *)
LEMMA InnerStep ==
  ASSUME IndInv, append_tdi_inner
  PROVE  IndInv' /\ Shifts
<1>0. TypeOK /\ Progress /\ FailureKept /\ ControlTyped
  BY Zenon, TypeParts DEF IndInv
<1>1. /\ AtInner /\ PoolFits(innerWrite)
      /\ AddWrite(innerWrite, pc' = "payload" /\ UNCHANGED <<events, curIdx, lastTdi>>)
      /\ UNCHANGED poolVars
  BY Zenon DEF append_tdi_inner
<1>2. Handling({"tdi"}) /\ ~AtLeading /\ curIdx < lastBitIdx /\ curIdx < innerEndIdx
  BY Zenon, <1>1 DEF AtInner
<1>3. InCall /\ events # <<>> /\ pc = "event" /\ event.kind = "tdi"
  BY <1>2 DEF Handling, InCall
<1>4. curIdx % 8 = 0
  BY Zenon, <1>0, <1>1, InnerCut
<1>5. curIdx + 8 <= innerEndIdx /\ innerOctetsToSend \in Nat \ {0} /\ ~resetting
  <2>1. curIdx + 8 <= innerEndIdx /\ innerOctetsToSend \in Nat \ {0}
    BY Zenon, <1>0, <1>1, InnerCut
  <2>2. ~resetting
    BY <1>0, <1>3, Kinds
  <2> QED BY <2>1, <2>2
<1>6. /\ curIdx \in Nat /\ lastTdi \in Nat \X Nat /\ req \in Nat
      /\ chipBufferBytes \in Nat /\ chipBufferBytes >= 4 /\ maxTxBufferBytes = 3 * chipBufferBytes
      /\ maxRxBufferBytes = chipBufferBytes
  BY Zenon, <1>0, NumbersTyped
<1> PICK w : w = innerWrite
  OBVIOUS
<1>7. w \in WriteCommands /\ w.tx = 3 /\ w.rx = 0
  <2>1. w = [kind |-> "octets", req |-> req, from |-> curIdx, n |-> innerOctetsToSend, tdi |-> lastTdi,
             tx |-> 3, rx |-> 0, simple |-> FALSE]
    BY DEF innerWrite, Command
  <2> QED BY <1>5, <1>6, <2>1 DEF WriteCommands
<1>8. Sized(w)
  BY <1>1, <1>6, <1>7 DEF Sized
<1>9. UNCHANGED callVars
  BY Zenon, <1>1 DEF AddWrite
<1>10. ExtrasFor(w) /\ ExtrasTyped' /\ Len(extras) <= Len(extras')
  BY Zenon, <1>0, <1>1, <1>7, <1>9, ExtrasUnchanged
<1>11. CASE FlushFails
  BY Zenon, <1>3, <1>10, <1>11, FailureShifts
<1>12. CASE Appended(innerWrite) /\ pc' = "payload" /\ UNCHANGED <<events, curIdx, lastTdi>>
  <2>1. Appended(w) /\ pc' = "payload" /\ events' = events /\ curIdx' = curIdx /\ lastTdi' = lastTdi
        /\ resetting' = resetting /\ result' = result
    BY Zenon, <1>12 DEF Appended
  <2>2. event' = event /\ lastBitIdx' = lastBitIdx /\ innerEndIdx' = innerEndIdx
    BY <2>1 DEF event, lastBitIdx, innerEndIdx, leadingOnly, numLeadingBits, numRegularBits, numFirstOctetBits
  <2>3. ControlTyped'
    <3>1. pc' \in {"idle", "event", "payload", "deinit", "off", "aborted"}
      BY <2>1
    <3> QED BY Zenon, <1>0, <2>1, <2>2, <3>1 DEF ControlTyped
  <2>4. InCall' /\ handedOver' >= handedOver /\ curIdx' >= curIdx
    <3>1. InCall' /\ handedOver' = handedOver /\ handedOver \in Nat
      BY <1>6, <1>9, <2>1 DEF InCall, handedOver, callVars
    <3> QED BY <1>6, <2>1, <3>1
  <2>5. Progress'
    <3>1. call' = call /\ req' = req /\ request' = request /\ scenario' = scenario /\ ~resetting'
      BY Zenon, <1>5, <1>9, <2>1 DEF callVars
    <3>2. (req > 0 => IsCall(call, request)) /\ req > 0
          /\ Len(events) <= Len(request)
          /\ (\A i \in 1..Len(events) : events[i] = request[i + Len(request) - Len(events)])
          /\ (events = <<>> => curIdx = request[Len(request)].to)
      BY Zenon, <1>0, <1>3, <1>5 DEF Progress
    <3>3. (req > 0 => IsCall(call, request))'
      BY <3>1, <3>2 DEF IsCall
    <3>4. pc' # "idle" /\ pc' # "event"
      BY <2>1
    <3> QED BY Zenon, <1>2, <1>3, <1>4, <1>5, <2>1, <2>2, <2>4, <3>1, <3>2, <3>3, <3>4 DEF Progress
  <2>6. failures = 0 => Advances(w, <<>>) /\ Vector(w, <<>>)
    <3>1. Advances(w, <<>>)
      BY Zenon, <1>2, <1>7, <1>9, <2>1, OctetsAdvance
    <3>2. WantedBits' = WantedBits
      BY <1>9, <2>1 DEF WantedBits, tdiBits, callVars
    <3> QED BY Zenon, <1>7, <3>1, <3>2 DEF Vector
  <2>7. IndInv' /\ failures' = failures /\ (failures = 0 => chip'.next \in {chip.next, handedOver})
    BY Zenon, <1>3, <1>8, <1>10, <2>1, <2>3, <2>4, <2>5, <2>6, CommandKeeps
  <2> QED BY Zenon, <2>4, <2>7 DEF Shifts
<1> QED BY Zenon, <1>1, <1>11, <1>12 DEF AddWrite, Appended, FlushFails

(* Behind their header there are octets to send.                           *)
LEMMA PayloadOctets ==
  ASSUME TypeOK, Progress, pc = "payload"
  PROVE  /\ InCall /\ events # <<>> /\ event.kind = "tdi" /\ ~resetting /\ curIdx % 8 = 0 /\ curIdx + 8 <= innerEndIdx
         /\ innerOctetsToSend \in Nat \ {0} /\ innerOctetsToSend <= chipBufferBytes
         /\ curIdx + 8 * innerOctetsToSend <= lastBitIdx /\ (curIdx + 8 * innerOctetsToSend) % 8 = 0
         /\ lastBitIdx = event.to - 1 /\ event.to \in Nat /\ lastBitIdx \in Nat
<1>1. InCall /\ events # <<>> /\ event.kind = "tdi" /\ ~resetting /\ curIdx % 8 = 0 /\ curIdx + 8 <= innerEndIdx
  BY DEF Progress, InCall
<1>2. innerEndIdx \in Int
  <2>1. innerEndIdx = -1 \/ innerEndIdx = lastBitIdx - (lastBitIdx % 8)
    BY DEF innerEndIdx
  <2>2. lastBitIdx \in Nat
    BY Zenon, <1>1, TdiRanges
  <2> QED BY <2>1, <2>2
<1>3. curIdx < innerEndIdx
  <2>1. curIdx \in Nat
    BY Zenon, NumbersTyped
  <2> QED BY <1>1, <1>2, <2>1
<1> QED BY Zenon, <1>1, <1>3, InnerOctets

(* The octets, whose samples one observer stores.                          *)
LEMMA PayloadStep ==
  ASSUME IndInv, append_tdi_payload
  PROVE  IndInv' /\ Shifts
<1>0. TypeOK /\ Progress /\ FailureKept
  BY Zenon DEF IndInv
<1>1. /\ pc = "payload" /\ PoolFits(payloadWrite)
      /\ AddWrite(payloadWrite, HandedOver(curIdx + 8 * innerOctetsToSend, lastTdi))
      /\ UNCHANGED poolVars
  BY Zenon DEF append_tdi_payload
<1>2. InCall /\ events # <<>> /\ event.kind = "tdi" /\ ~resetting /\ curIdx % 8 = 0 /\ curIdx + 8 <= innerEndIdx
  BY Zenon, <1>0, <1>1, PayloadOctets
<1>3. /\ curIdx \in Nat /\ lastTdi \in Nat \X Nat /\ req \in Nat
      /\ chipBufferBytes \in Nat /\ chipBufferBytes >= 4 /\ maxTxBufferBytes = 3 * chipBufferBytes
      /\ maxRxBufferBytes = chipBufferBytes
  BY Zenon, <1>0, NumbersTyped
<1>4. /\ innerOctetsToSend \in Nat \ {0} /\ innerOctetsToSend <= chipBufferBytes
      /\ curIdx + 8 * innerOctetsToSend <= lastBitIdx /\ (curIdx + 8 * innerOctetsToSend) % 8 = 0
      /\ lastBitIdx = event.to - 1 /\ event.to \in Nat /\ lastBitIdx \in Nat
  BY Zenon, <1>0, <1>1, PayloadOctets
<1> PICK w, to, tdi, n : w = payloadWrite /\ to = curIdx + 8 * innerOctetsToSend /\ tdi = lastTdi
                      /\ n = innerOctetsToSend
  OBVIOUS
<1>5. w \in WriteCommands /\ w.tx = n /\ w.rx = n /\ w.n = n /\ w.simple = TRUE
  <2>1. w = [kind |-> "payload", req |-> req, from |-> curIdx, n |-> n, tdi |-> lastTdi,
             tx |-> n, rx |-> n, simple |-> TRUE]
    BY DEF payloadWrite, Command
  <2> QED BY <1>3, <1>4, <2>1 DEF WriteCommands
<1>6. Sized(w)
  BY <1>1, <1>3, <1>4, <1>5 DEF Sized
<1>7. UNCHANGED callVars
  BY Zenon, <1>1 DEF AddWrite
<1>8. ExtrasFor(w) /\ ExtrasTyped' /\ Len(extras) <= Len(extras')
  BY Zenon, <1>0, <1>1, <1>5, <1>7, ExtrasUnchanged
<1>9. to \in curIdx..event.to /\ to < event.to /\ to % 8 = 0 /\ n > 0 /\ curIdx + 8 * w.n = to /\ to <= event.to
  BY <1>3, <1>4, <1>5
<1>10. CASE FlushFails
  BY Zenon, <1>2, <1>8, <1>10, FailureShifts
<1>11. CASE Appended(payloadWrite) /\ HandedOver(curIdx + 8 * innerOctetsToSend, lastTdi)
  <2>1. Appended(w) /\ HandedOver(to, tdi) /\ tdi \in Nat \X Nat /\ UNCHANGED resetting
    BY Zenon, <1>3, <1>11 DEF Appended, HandedOver
  <2>2. event.kind = "tdi" /\ to < event.to => to \in {event.from, lastBitIdx} \/ to % 8 = 0
    BY Zenon, <1>9
  <2>3. pc' = "event" /\ lastTdi' = tdi /\ curIdx' = to /\ events' = events
    BY Zenon, <1>0, <1>2, <1>7, <1>9, <2>1, <2>2, GoesOn
  <2>4. events' # <<>> /\ event'.kind = "tdi"
    BY <1>2, <2>3 DEF event
  <2> PICK answer : answer = Octets(w.req, w.from, w.n)
    OBVIOUS
  <2>5. ASSUME failures = 0 PROVE Advances(w, answer) /\ Vector(w, answer)
    <3>1. Advances(w, answer)
      BY Zenon, <1>0, <1>1, <1>5, <1>7, <1>9, <2>3, <2>4, <2>5, PayloadAdvances
    <3>2. Vector(w, answer)
      BY Zenon, <1>0, <1>1, <1>5, <1>7, <1>9, <2>3, PayloadVector
    <3> QED BY Zenon, <3>1, <3>2
  <2> QED BY Zenon, <1>2, <1>6, <1>8, <1>9, <2>1, <2>2, <2>5, BitsGoOn
<1> QED BY Zenon, <1>1, <1>10, <1>11 DEF AddWrite, Appended, FlushFails

(* set_tck_period(): the divisor and the probe of check_device_in_sync().  *)
IsTckWrite(w) == w = (IF event.kind = "divisor" THEN divisorWrite ELSE syncWrite)

LEMMA TckWrites ==
  ASSUME curIdx \in Nat, lastTdi \in Nat \X Nat, req \in Nat, NEW w, IsTckWrite(w)
  PROVE  w \in WriteCommands /\ w.tx <= 4 /\ w.rx <= 2 /\ (w.rx = 0 \/ w.simple)
<1> PICK tx, rx, kind, simple :
         /\ w = [kind |-> kind, req |-> req, from |-> curIdx, n |-> 0, tdi |-> lastTdi,
                  tx |-> tx, rx |-> rx, simple |-> simple]
         /\ kind \in {"divisor", "sync"} /\ simple \in BOOLEAN /\ tx \in {1, 4} /\ rx \in {0, 2}
         /\ (rx = 0 \/ simple)
  <2>1. divisorWrite = [kind |-> "divisor", req |-> req, from |-> curIdx, n |-> 0, tdi |-> lastTdi,
                        tx |-> 4, rx |-> 0, simple |-> FALSE]
    BY DEF divisorWrite, Command
  <2>2. syncWrite = [kind |-> "sync", req |-> req, from |-> curIdx, n |-> 0, tdi |-> lastTdi,
                     tx |-> 1, rx |-> 2, simple |-> TRUE]
    BY DEF syncWrite, Command
  <2>3. w = divisorWrite \/ w = syncWrite
    BY DEF IsTckWrite
  <2> QED BY Zenon, <2>1, <2>2, <2>3
<1>1. w \in WriteCommands
  BY DEF WriteCommands
<1>2. w.tx <= 4 /\ w.rx <= 2
  OBVIOUS
<1>3. w.rx = 0 \/ w.simple
  BY Zenon
<1> QED BY <1>1, <1>2, <1>3

LEMMA TckStep ==
  ASSUME IndInv, Handling({"divisor", "sync"}), NEW w, IsTckWrite(w),
         PoolFits(w), AddWrite(w, HandedOver(event.to, lastTdi)), UNCHANGED poolVars
  PROVE  IndInv' /\ Shifts
<1>0. TypeOK /\ Progress /\ FailureKept
  BY Zenon DEF IndInv
<1>1. InCall /\ events # <<>> /\ pc = "event" /\ event.kind \in {"divisor", "sync"}
  BY DEF Handling, InCall
<1>2. call = "set_tck_period" /\ ~resetting /\ event.to = 0 /\ curIdx = 0
  BY <1>0, <1>1, Kinds
<1>3. /\ curIdx \in Nat /\ lastTdi \in Nat \X Nat /\ req \in Nat
      /\ chipBufferBytes \in Nat /\ chipBufferBytes >= 4 /\ maxTxBufferBytes = 3 * chipBufferBytes
      /\ maxRxBufferBytes = chipBufferBytes
  BY Zenon, <1>0, NumbersTyped
<1>4. w \in WriteCommands /\ w.tx <= 4 /\ w.rx <= 2 /\ (w.rx = 0 \/ w.simple)
  BY Zenon, <1>3, TckWrites
<1>5. Sized(w)
  <2>1. w.tx \in Nat /\ w.rx \in Nat
    BY <1>4 DEF WriteCommands
  <2>2. w.tx <= maxTxBufferBytes /\ w.rx <= maxRxBufferBytes
    BY <1>3, <1>4, <2>1
  <2> QED BY Zenon, <1>4, <2>2 DEF Sized
<1>6. UNCHANGED callVars
  BY Zenon DEF AddWrite
<1>7. ExtrasFor(w) /\ ExtrasTyped' /\ Len(extras) <= Len(extras')
  BY Zenon, <1>0, <1>4, <1>6, ExtrasUnchanged
<1>8. CASE FlushFails
  BY Zenon, <1>1, <1>7, <1>8, FailureShifts
<1>9. CASE Appended(w) /\ HandedOver(event.to, lastTdi)
  <2> PICK to, tdi : to = event.to /\ tdi = lastTdi
    OBVIOUS
  <2>1. Appended(w) /\ HandedOver(to, tdi) /\ tdi \in Nat \X Nat /\ UNCHANGED resetting
    BY Zenon, <1>3, <1>9 DEF Appended, HandedOver
  <2>2. to \in curIdx..event.to
    BY <1>2
  <2>3. event.kind = "tdi" /\ to < event.to => to \in {event.from, lastBitIdx} \/ to % 8 = 0
    BY <1>1
  <2>4. pc' = "event" /\ lastTdi' = tdi /\ curIdx' = to
    BY Zenon, <1>0, <1>1, <1>6, <2>1, <2>2, <2>3, GoesOn
  <2> PICK answer : answer = (IF event.kind = "divisor" THEN <<>> ELSE Octets(w.req, 0, 2))
    OBVIOUS
  <2>5. ASSUME failures = 0 PROVE Advances(w, answer) /\ Vector(w, answer)
    <3>1. Advances(w, answer)
      BY Zenon, <1>0, <1>4, <1>6, <2>4, <2>5, TckAdvances DEF IsTckWrite
    <3>2. ~StoresVector
      BY <1>2 DEF StoresVector
    <3> QED BY Zenon, <3>1, <3>2 DEF Vector
  <2> QED BY Zenon, <1>1, <1>5, <1>7, <2>1, <2>2, <2>3, <2>5, BitsGoOn
<1> QED BY Zenon, <1>8, <1>9 DEF AddWrite, Appended, FlushFails

LEMMA TckSteps ==
  ASSUME IndInv, add_divisor \/ add_sync
  PROVE  IndInv' /\ Shifts
<1>1. CASE add_divisor
  <2>1. PICK w : w = divisorWrite
    OBVIOUS
  <2>2. Handling({"divisor"}) /\ PoolFits(w) /\ AddWrite(w, HandedOver(event.to, lastTdi)) /\ UNCHANGED poolVars
    BY Zenon, <1>1, <2>1 DEF add_divisor
  <2>3. Handling({"divisor", "sync"}) /\ event.kind = "divisor"
    BY <2>2 DEF Handling
  <2>4. IsTckWrite(w)
    BY <2>1, <2>3 DEF IsTckWrite
  <2> QED BY Zenon, <2>2, <2>3, <2>4, TckStep
<1>2. CASE add_sync
  <2>1. PICK w : w = syncWrite
    OBVIOUS
  <2>2. Handling({"sync"}) /\ PoolFits(w) /\ AddWrite(w, HandedOver(event.to, lastTdi)) /\ UNCHANGED poolVars
    BY Zenon, <1>2, <2>1 DEF add_sync
  <2>3. Handling({"divisor", "sync"}) /\ event.kind # "divisor"
    BY <2>2 DEF Handling
  <2>4. IsTckWrite(w)
    BY <2>1, <2>3 DEF IsTckWrite
  <2> QED BY Zenon, <2>2, <2>3, <2>4, TckStep
<1> QED BY <1>1, <1>2

-----------------------------------------------------------------------------
(* The ends of a call, and its beginning.                                  *)

(* With an empty buffer, driver and chip agree when the chip is ready.     *)
LEMMA EmptySync ==
  ASSUME NEW k, NEW cp \in Seq(Copies)
  PROVE  /\ SyncAt(EmptyBuffer, k, cp) <=>
              Ready(k) /\ Len(k.out) = 0 /\ (StoresVector => Tiles(cp, WantedBits))
         /\ SyncAt(EmptyBuffer, k, cp)' <=>
              Ready(k)' /\ Len(k.out) = 0 /\ (StoresVector' => Tiles(cp, WantedBits'))
<1>1. EmptyBuffer.tx = <<>> /\ EmptyBuffer.rxNumBytes = 0 /\ EmptyBuffer.observers = <<>>
  BY DEF EmptyBuffer
<1>2. Fed(k, EmptyBuffer.tx)[Len(EmptyBuffer.tx)] = {k}
  BY Zenon, <1>1, FedNothing
<1>3. Stored(EmptyBuffer, cp, k) = cp /\ Stored(EmptyBuffer, cp, k)' = cp
  <2>1. Len(EmptyBuffer.observers) = 0 /\ Len(cp) + 0 = Len(cp) /\ cp = [i \in 1..Len(cp) |-> cp[i]]
    BY <1>1
  <2>2. \A i \in 1..(Len(cp) + Len(EmptyBuffer.observers)) : i <= Len(cp)
    BY <2>1
  <2> QED BY <2>1, <2>2 DEF Stored
<1>4. \A c \in Fed(k, EmptyBuffer.tx)[Len(EmptyBuffer.tx)] : c = k
  BY <1>2
<1>5. k \in Fed(k, EmptyBuffer.tx)[Len(EmptyBuffer.tx)]
  BY <1>2
<1>6. SyncAt(EmptyBuffer, k, cp) <=> Ready(k) /\ Len(k.out) = 0 /\ (StoresVector => Tiles(cp, WantedBits))
  BY Zenon, <1>1, <1>3, <1>4, <1>5 DEF SyncAt, StoresVector, WantedBits
<1>7. SyncAt(EmptyBuffer, k, cp)' <=> Ready(k)' /\ Len(k.out) = 0 /\ (StoresVector' => Tiles(cp, WantedBits'))
  BY Zenon, <1>1, <1>3, <1>4, <1>5 DEF SyncAt, StoresVector, WantedBits
<1> QED BY Zenon, <1>6, <1>7

(* A flush that worked, outside of any append.                             *)
LEMMA WorkedFlush ==
  ASSUME TypeOK, BufferHolds, UNCHANGED callVars, NEW o \in ft_buffer_flush, o.ok, Flush(o), buf' = o.buf
  PROVE  /\ CallTyped' /\ DataTyped' /\ FailuresTyped' /\ BufferHolds' /\ failures' = failures
         /\ buf' = EmptyBuffer
<1>0. CallTyped /\ FailuresTyped /\ DataTyped /\ ExtrasTyped
  BY Zenon, TypeParts
<1>1. chip \in Chips /\ buf \in Buffers /\ extras \in Seq(Extras) /\ ObserversFit
  BY Zenon, <1>0 DEF DataTyped, ExtrasTyped, BufferHolds, ObserverHolds, ObserversFit
<1>2. o.ok = TRUE /\ o.buf = EmptyBuffer /\ o.chip \in Chips /\ o.copies \in Seq(Copies)
  BY Zenon, <1>1, FlushWorked
<1>3. chip' = o.chip /\ copied' = copied \o o.copies /\ failures' = failures
  BY Zenon, <1>2 DEF Flush
<1>4. scenario' = scenario /\ call' = call /\ req' = req /\ request' = request /\ failedBefore' = failedBefore
  BY Zenon DEF callVars
<1>5. CallTyped' /\ FailuresTyped'
  BY Zenon, <1>0, <1>3, <1>4 DEF CallTyped, FailuresTyped
<1>6. scenario.poolBytes \in Nat /\ maxTxBufferBytes \in Nat /\ maxRxBufferBytes \in Nat
  BY <1>0, ScenarioFacts DEF CallTyped
<1>7. EmptyBuffer.head = 0 /\ EmptyBuffer.txNumBytes = 0 /\ EmptyBuffer.rxNumBytes = 0 /\ Len(EmptyBuffer.observers) = 0
  BY DEF EmptyBuffer, reclaim_all
<1>8. DataTyped'
  <2>1. copied' \in Seq(Copies)
    BY <1>0, <1>2, <1>3 DEF DataTyped
  <2>2. buf'.head <= scenario'.poolBytes
    BY <1>2, <1>4, <1>6, <1>7
  <2> QED BY Zenon, <1>2, <1>3, <2>1, <2>2, EmptyTyped DEF DataTyped
<1>9. BufferHolds'
  <2>1. maxTxBufferBytes' = maxTxBufferBytes /\ maxRxBufferBytes' = maxRxBufferBytes
    BY <1>4 DEF maxTxBufferBytes, maxRxBufferBytes, chipBufferBytes
  <2>2. buf'.txNumBytes <= maxTxBufferBytes' /\ buf'.rxNumBytes <= maxRxBufferBytes'
    BY <1>2, <1>6, <1>7, <2>1
  <2>3. \A i : ~(i \in 1..Len(buf'.observers))
    BY <1>2, <1>7
  <2> QED BY Zenon, <2>2, <2>3 DEF BufferHolds
<1> QED BY Zenon, <1>2, <1>3, <1>5, <1>8, <1>9

(* A chip that is ready for what follows the last event is ready when the  *)
(* call has returned.                                                      *)
LEMMA ReadyAtRest ==
  ASSUME UNCHANGED <<callVars, curIdx, lastTdi>>, events = <<>>, events' = <<>>, pc # "payload", pc' # "payload",
         NEW k, Ready(k)
  PROVE  Ready(k)' /\ handedOver' = handedOver /\ WantedBits' = WantedBits /\ StoresVector' = StoresVector
<1>1. scenario' = scenario /\ call' = call /\ req' = req /\ request' = request /\ curIdx' = curIdx /\ lastTdi' = lastTdi
  BY Zenon DEF callVars
<1>2. handedOver' = handedOver
  BY <1>1 DEF handedOver
<1>3. Ready(k)'
  BY <1>1, <1>2 DEF Ready
<1>4. WantedBits' = WantedBits /\ StoresVector' = StoresVector
  BY Zenon, <1>1 DEF WantedBits, tdiBits, StoresVector
<1> QED BY <1>2, <1>3, <1>4

(* After the last flush driver, buffer and chip still agree.               *)
LEMMA RestSync ==
  ASSUME TypeOK, BufferHolds, InSync, failures = 0, pc \in {"event", "deinit"},
         UNCHANGED <<callVars, curIdx, lastTdi>>, events = <<>>, events' = <<>>, pc' # "payload",
         NEW o \in ft_buffer_flush, o.ok, Flush(o), buf' = o.buf
  PROVE  InSync' /\ chip'.next = handedOver
<1>1. CallTyped' /\ DataTyped' /\ failures' = failures /\ buf' = EmptyBuffer
  <2>1. UNCHANGED callVars
    OBVIOUS
  <2> QED BY Zenon, <2>1, WorkedFlush
<1>2. pc # "aborted" /\ pc # "payload"
  OBVIOUS
<1>3. chip \in Chips /\ buf \in Buffers /\ extras \in Seq(Extras) /\ copied \in Seq(Copies) /\ curIdx \in Nat
  BY Zenon DEF TypeOK
<1>4. SyncAt(buf, chip, copied)
  BY Zenon, <1>2 DEF InSync
<1> PICK k, cp : k = o.chip /\ cp = copied \o o.copies
  OBVIOUS
<1>5. SyncAt(EmptyBuffer, k, cp) /\ Ready(k)
  BY Zenon, <1>3, <1>4, FlushSync
<1>6. chip' = k /\ copied' = cp
  BY Zenon DEF Flush
<1>7. k \in Chips /\ cp \in Seq(Copies)
  BY Zenon, <1>1, <1>6 DEF DataTyped
<1>8. Ready(k) /\ Len(k.out) = 0 /\ (StoresVector => Tiles(cp, WantedBits))
  BY Zenon, <1>5, <1>7, EmptySync
<1>9. Ready(k)' /\ handedOver' = handedOver /\ WantedBits' = WantedBits /\ StoresVector' = StoresVector
  BY Zenon, <1>2, <1>8, ReadyAtRest
<1>10. SyncAt(EmptyBuffer, k, cp)'
  BY Zenon, <1>7, <1>8, <1>9, EmptySync
<1>11. SyncAt(buf, chip, copied)'
  BY Zenon, <1>1, <1>6, <1>10 DEF SyncAt
<1>12. ~chip'.bad /\ chip'.next = handedOver /\ chip'.next <= handedOver'
  <2>1. ~k.bad /\ k.next = handedOver
    BY Zenon, <1>8 DEF Ready
  <2>2. handedOver \in Nat
    BY <1>3 DEF handedOver
  <2> QED BY <1>6, <1>9, <2>1, <2>2
<1> QED BY Zenon, <1>1, <1>11, <1>12 DEF InSync

(* The call returns after a flush that worked.                             *)
LEMMA EndStep ==
  ASSUME IndInv, pc = "event", events = <<>>, UNCHANGED callVars, ExtrasTyped',
         NEW o \in ft_buffer_flush, o.ok, Flush(o), buf' = o.buf,
         NEW res \in {"ok", "failed"}, resetting => res = "failed", Return(res)
  PROVE  IndInv' /\ Shifts
<1>0. TypeOK /\ Progress /\ FailureKept /\ BufferHolds /\ InSync
  BY Zenon DEF IndInv
<1>1. /\ CallTyped' /\ DataTyped' /\ FailuresTyped' /\ BufferHolds' /\ failures' = failures
      /\ buf' = EmptyBuffer
  BY Zenon, <1>0, WorkedFlush
<1>2. InCall
  BY DEF InCall
<1>3. ControlTyped' /\ Progress' /\ FailureKept'
  BY Zenon, <1>0, <1>1, <1>2, ReturnKeeps
<1>4. TypeOK'
  BY Zenon, <1>1, <1>3, TypeParts
<1>5. pc' # "payload" /\ events' = <<>> /\ curIdx' = curIdx /\ lastTdi' = lastTdi
  BY DEF Return
<1>6. ASSUME failures = 0 PROVE InSync' /\ chip'.next = handedOver
  <2>1. UNCHANGED <<callVars, curIdx, lastTdi>> /\ pc \in {"event", "deinit"}
    BY <1>5
  <2> QED BY Zenon, <1>0, <1>5, <1>6, <2>1, RestSync
<1>7. InSync'
  BY Zenon, <1>1, <1>6 DEF InSync
<1>8. curIdx' >= curIdx
  BY <1>0, <1>5 DEF TypeOK
<1>9. Shifts
  <2>1. ASSUME failures = 0 PROVE chip'.next \in {chip.next, handedOver}
    BY <1>6, <2>1
  <2> QED BY Zenon, <1>1, <1>8, <2>1 DEF Shifts
<1> QED BY Zenon, <1>1, <1>3, <1>4, <1>7, <1>9 DEF IndInv

(* The flush_all event reclaims d->pool, whatever the flush did.           *)
LEMMA FlushAllStep ==
  ASSUME IndInv, flush_all
  PROVE  IndInv' /\ Shifts
<1>0. TypeOK /\ ExtrasTyped
  BY Zenon, TypeParts DEF IndInv
<1>1. pc = "event" /\ events = <<>> /\ extrasHead' = 0 /\ UNCHANGED callVars /\ extras' = extras
  BY Zenon DEF flush_all
<1>2. PICK o \in ft_buffer_flush :
        /\ Flush(o) /\ buf' = o.buf
        /\ \/ o.ok /\ Return(IF resetting THEN "failed" ELSE "ok")
           \/ ~o.ok /\ CallbackFails
  BY Zenon DEF flush_all
<1>3. ExtrasTyped' /\ Len(extras) <= Len(extras')
  <2>1. extras \in Seq(Extras) /\ Len(extras) <= scenario.poolExtras /\ Len(extras) \in Nat
    BY <1>0 DEF ExtrasTyped
  <2>2. scenario' = scenario
    BY Zenon, <1>1 DEF callVars
  <2> QED BY <1>1, <2>1, <2>2 DEF ExtrasTyped
<1>4. CASE o.ok
  <2> PICK res : res = IF resetting THEN "failed" ELSE "ok"
    OBVIOUS
  <2>1. Return(res)
    BY Zenon, <1>2, <1>4
  <2>2. res \in {"ok", "failed"} /\ (resetting => res = "failed")
    OBVIOUS
  <2> QED BY Zenon, <1>1, <1>2, <1>3, <1>4, <2>1, <2>2, EndStep
<1>5. CASE ~o.ok
  <2>1. FlushFails /\ InCall
    BY <1>1, <1>2, <1>5 DEF FlushFails, InCall
  <2> QED BY Zenon, <1>3, <2>1, FailureShifts
<1> QED BY <1>4, <1>5

(* check_device_in_sync() has no reset to fall back to.                    *)
LEMMA CheckStep ==
  ASSUME IndInv, check_device_in_sync
  PROVE  IndInv' /\ Shifts
<1>0. TypeOK /\ ExtrasTyped /\ FailureKept
  BY Zenon, TypeParts DEF IndInv
<1>1. pc = "event" /\ events = <<>> /\ call = "set_tck_period" /\ UNCHANGED callVars
      /\ extrasHead' = extrasHead /\ extras' = extras
  BY Zenon DEF check_device_in_sync, poolVars
<1>2. PICK o \in ft_buffer_flush :
        /\ Flush(o) /\ buf' = o.buf
        /\ Return(IF o.ok /\ Last(o.copies).good THEN "ok" ELSE "failed")
  BY Zenon DEF check_device_in_sync
<1>3. ExtrasTyped' /\ Len(extras) <= Len(extras')
  <2>1. Len(extras) \in Nat
    BY <1>0 DEF ExtrasTyped
  <2>2. scenario' = scenario
    BY Zenon, <1>1 DEF callVars
  <2> QED BY <1>0, <1>1, <2>1, <2>2 DEF ExtrasTyped
<1>4. ~resetting
  BY <1>0, <1>1 DEF FailureKept
<1>5. CASE o.ok
  <2> PICK res : res = IF o.ok /\ Last(o.copies).good THEN "ok" ELSE "failed"
    OBVIOUS
  <2>1. Return(res)
    BY Zenon, <1>2
  <2>2. res \in {"ok", "failed"} /\ (resetting => res = "failed")
    BY <1>4
  <2> QED BY Zenon, <1>1, <1>2, <1>3, <1>5, <2>1, <2>2, EndStep
<1>6. CASE ~o.ok
  <2>1. Return("failed")
    BY Zenon, <1>2, <1>6
  <2>2. CallbackFails
    BY <1>1, <2>1 DEF CallbackFails
  <2>3. FlushFails /\ InCall
    BY <1>1, <1>2, <1>6, <2>2 DEF FlushFails, InCall
  <2> QED BY Zenon, <1>3, <2>3, FailureShifts
<1> QED BY <1>5, <1>6

LEMMA DeinitStep ==
  ASSUME IndInv, ft_buffer_deinit
  PROVE  IndInv' /\ Shifts
<1>0. TypeOK /\ Progress /\ FailureKept /\ BufferHolds /\ InSync /\ ControlTyped /\ ExtrasTyped
  BY Zenon, TypeParts DEF IndInv
<1>1. /\ pc = "deinit" /\ pc' = "off" /\ events' = events /\ curIdx' = curIdx /\ resetting' = resetting
      /\ result' = result /\ lastTdi' = lastTdi /\ extras' = extras /\ extrasHead' = extrasHead
      /\ UNCHANGED callVars
  BY Zenon DEF ft_buffer_deinit, poolVars
<1>2. PICK o \in ft_buffer_flush : Flush(o) /\ buf' = o.buf
  BY Zenon DEF ft_buffer_deinit
<1>3. scenario' = scenario /\ call' = call /\ req' = req /\ request' = request /\ failedBefore' = failedBefore
  BY Zenon, <1>1 DEF callVars
<1>4. ExtrasTyped' /\ Len(extras) <= Len(extras')
  <2>1. Len(extras) \in Nat
    BY <1>0 DEF ExtrasTyped
  <2> QED BY <1>0, <1>1, <1>3, <2>1 DEF ExtrasTyped
<1>5. ControlTyped'
  <2>1. pc' \in {"idle", "event", "payload", "deinit", "off", "aborted"} /\ event' = event
    BY <1>1 DEF event
  <2> QED BY Zenon, <1>0, <1>1, <2>1 DEF ControlTyped
<1>6. events = <<>> /\ ~resetting
  BY <1>0, <1>1 DEF Progress, FailureKept, InCall
<1>7. FailureKept'
  BY <1>1, <1>6 DEF FailureKept, InCall, FailuresReported
<1>8. Progress' <=> ((req > 0 => IsCall(call, request))
                     /\ (req > 0 /\ failures' = 0 => curIdx = request[Len(request)].to))
  BY <1>1, <1>3, <1>6 DEF Progress, InCall, IsCall
<1>9. (req > 0 => IsCall(call, request)) /\ (req > 0 /\ failures = 0 => curIdx = request[Len(request)].to)
  BY <1>0, <1>1 DEF Progress, InCall
<1>10. CASE o.ok
  <2>1. /\ CallTyped' /\ DataTyped' /\ FailuresTyped' /\ BufferHolds' /\ failures' = failures
        /\ buf' = EmptyBuffer
    BY Zenon, <1>0, <1>1, <1>2, <1>10, WorkedFlush
  <2>2. Progress'
    BY Zenon, <1>8, <1>9, <2>1
  <2>3. ASSUME failures = 0 PROVE InSync' /\ chip'.next = handedOver
    <3>1. UNCHANGED <<callVars, curIdx, lastTdi>> /\ pc \in {"event", "deinit"} /\ pc' # "payload" /\ events' = <<>>
      BY <1>1, <1>6
    <3> QED BY Zenon, <1>0, <1>2, <1>6, <1>10, <2>3, <3>1, RestSync
  <2>4. InSync'
    BY Zenon, <2>1, <2>3 DEF InSync
  <2>5. curIdx' >= curIdx
    BY <1>0, <1>1 DEF TypeOK
  <2>6. ASSUME failures = 0 PROVE chip'.next \in {chip.next, handedOver}
    BY <2>3, <2>6
  <2>7. Shifts
    BY Zenon, <2>1, <2>5, <2>6 DEF Shifts
  <2>8. TypeOK'
    BY Zenon, <1>4, <1>5, <2>1, TypeParts
  <2> QED BY Zenon, <1>7, <2>1, <2>2, <2>4, <2>7, <2>8 DEF IndInv
<1>11. CASE ~o.ok
  <2>1. CallTyped' /\ DataTyped' /\ FailuresTyped' /\ BufferHolds' /\ failures' > 0 /\ failures' > failedBefore'
    BY Zenon, <1>0, <1>1, <1>2, <1>4, <1>11, FailedFlush
  <2>2. ~(failures' = 0)
    BY <2>1
  <2>3. Progress'
    BY Zenon, <1>8, <1>9, <2>2
  <2>4. TypeOK'
    BY Zenon, <1>4, <1>5, <2>1, TypeParts
  <2> QED BY Zenon, <1>7, <2>1, <2>2, <2>3, <2>4 DEF IndInv, InSync, Shifts
<1> QED BY <1>10, <1>11

(* Aborting changes nothing else.                                          *)
LEMMA FatalStep ==
  ASSUME IndInv, fatal_oom
  PROVE  IndInv' /\ Shifts
<1>0. TypeOK /\ Progress /\ FailureKept /\ BufferHolds /\ InSync
      /\ CallTyped /\ FailuresTyped /\ ControlTyped /\ DataTyped /\ ExtrasTyped
  BY Zenon, TypeParts DEF IndInv
<1>1. /\ pc' = "aborted" /\ events' = events /\ curIdx' = curIdx /\ resetting' = resetting
      /\ result' = result /\ lastTdi' = lastTdi /\ buf' = buf /\ extras' = extras /\ extrasHead' = extrasHead
      /\ chip' = chip /\ copied' = copied /\ failures' = failures
      /\ scenario' = scenario /\ call' = call /\ req' = req /\ request' = request /\ failedBefore' = failedBefore
  BY Zenon DEF fatal_oom, poolVars, callVars
<1>2. ControlTyped'
  <2>1. pc' \in {"idle", "event", "payload", "deinit", "off", "aborted"} /\ event' = event
    BY <1>1 DEF event
  <2> QED BY Zenon, <1>0, <1>1, <2>1 DEF ControlTyped
<1>3. CallTyped' /\ FailuresTyped' /\ DataTyped' /\ ExtrasTyped'
  BY Zenon, <1>0, <1>1 DEF CallTyped, FailuresTyped, DataTyped, ExtrasTyped
<1>4. Progress'
  <2>1. (req > 0 => IsCall(call, request)) /\ (resetting => events \in {<<ResetEvent>>, <<>>})
    BY Zenon, <1>0 DEF Progress
  <2> QED BY <1>1, <2>1 DEF Progress, InCall, IsCall
<1>5. FailureKept'
  BY <1>0, <1>1 DEF FailureKept, InCall, FailuresReported
<1>6. BufferHolds'
  BY Zenon, <1>0, <1>1 DEF BufferHolds, ObserverHolds, maxTxBufferBytes, maxRxBufferBytes, chipBufferBytes
<1>7. InSync'
  <2>1. pc' # "idle" /\ ~(pc' # "aborted")
    BY <1>1
  <2>2. handedOver' = handedOver
    BY Zenon, <1>1 DEF handedOver
  <2> QED BY Zenon, <1>0, <1>1, <2>1, <2>2 DEF InSync
<1>8. Shifts
  <2>1. curIdx' >= curIdx
    BY <1>0, <1>1 DEF TypeOK
  <2> QED BY <1>1, <2>1 DEF Shifts
<1> QED BY Zenon, <1>2, <1>3, <1>4, <1>5, <1>6, <1>7, <1>8, TypeParts DEF IndInv

(* A call begins on a chip that has done all of the last one.              *)
Begins == failures' = failures /\ (failures = 0 => chip.next = curIdx /\ curIdx' = 0 /\ chip'.next = 0)

LEMMA BeginStep ==
  ASSUME IndInv, NEW c \in {"shift_bits", "set_tck_period", "deactivate"}, NEW evs, IsCall(c, evs), Begin(c, evs)
  PROVE  IndInv' /\ Begins
<1>0. TypeOK /\ Progress /\ FailureKept /\ BufferHolds /\ InSync
      /\ CallTyped /\ FailuresTyped /\ ControlTyped /\ DataTyped /\ ExtrasTyped
  BY Zenon, TypeParts DEF IndInv
<1>1. /\ pc = "idle" /\ req < MaxCalls /\ pc' = "event" /\ call' = c /\ req' = req + 1 /\ request' = evs
      /\ events' = evs /\ curIdx' = Head(evs).from /\ resetting' = FALSE
      /\ chip' = [chip EXCEPT !.req = req + 1, !.next = 0, !.bad = FALSE]
      /\ copied' = <<>> /\ failedBefore' = failures
      /\ scenario' = scenario /\ result' = result /\ lastTdi' = lastTdi /\ buf' = buf /\ extras' = extras
      /\ extrasHead' = extrasHead /\ failures' = failures
  BY Zenon DEF Begin, poolVars
<1>2. scenario \in Scenarios /\ req \in Nat /\ MaxCalls \in Nat
  BY <1>0, ScenarioFacts DEF CallTyped
<1>3. IsChain(evs)
  BY Zenon, <1>2, CallChain
<1>4. /\ evs \in Seq(Events) /\ evs # <<>> /\ evs[1].from = 0 /\ evs[1] \in Events /\ Len(evs) \in Nat /\ Len(evs) >= 1
      /\ event' = evs[1] /\ curIdx' = 0
      /\ IF evs[1].kind \in {"divisor", "sync"} THEN evs[1].from = evs[1].to ELSE evs[1].from < evs[1].to
  <2>1. evs \in Seq(Events) /\ evs # <<>> /\ evs[1].from = 0
        /\ \A i \in 1..Len(evs) :
             IF evs[i].kind \in {"divisor", "sync"} THEN evs[i].from = evs[i].to ELSE evs[i].from < evs[i].to
    BY Zenon, <1>3 DEF IsChain
  <2>2. 1 \in 1..Len(evs) /\ evs[1] \in Events /\ Head(evs) = evs[1] /\ Len(evs) \in Nat /\ Len(evs) >= 1
    BY <2>1
  <2>3. event' = evs[1] /\ curIdx' = 0
    BY <1>1, <2>1, <2>2 DEF event
  <2> QED BY <2>1, <2>2, <2>3
<1>5. CallTyped'
  <2>1. req' \in 0..MaxCalls
    BY <1>1, <1>2
  <2> QED BY Zenon, <1>1, <1>2, <1>4, <2>1 DEF CallTyped
<1>6. FailuresTyped' /\ failures \in Nat /\ ~(failures' > failedBefore')
  <2>1. scenario.maxFailures \in Nat
    BY <1>2, ScenarioFacts
  <2> QED BY <1>0, <1>1, <2>1 DEF FailuresTyped
<1>7. ControlTyped'
  <2>1. evs[1].from \in Nat /\ evs[1].to \in Nat
    BY <1>4 DEF Events
  <2>2. curIdx' \in evs[1].from..evs[1].to /\ curIdx' \in Nat
    BY <1>4, <2>1
  <2>3. pc' \in {"idle", "event", "payload", "deinit", "off", "aborted"}
    BY <1>1
  <2>4. resetting' \in BOOLEAN
    BY Zenon, <1>1
  <2> QED BY Zenon, <1>0, <1>1, <1>4, <2>2, <2>3, <2>4 DEF ControlTyped
<1>8. chip' \in Chips /\ chip'.req = req + 1 /\ chip'.next = 0 /\ chip'.bad = FALSE
      /\ chip'.expect = chip.expect /\ chip'.tdi = chip.tdi /\ chip'.out = chip.out
  <2>1. chip \in Chips /\ req + 1 \in Nat
    BY <1>0, <1>2 DEF DataTyped
  <2> QED BY <1>1, <2>1 DEF Chips
<1>9. DataTyped' /\ ExtrasTyped'
  <2>1. copied' \in Seq(Copies)
    BY <1>1
  <2> QED BY Zenon, <1>0, <1>1, <1>8, <2>1 DEF DataTyped, ExtrasTyped
<1>10. TypeOK'
  BY Zenon, <1>5, <1>6, <1>7, <1>9, TypeParts
<1>11. Progress'
  <2>1. IsCall(call, request)'
    BY <1>1 DEF IsCall
  <2>2. req' > 0 /\ pc' # "idle" /\ pc' # "payload" /\ InCall' /\ ~resetting' /\ events' # <<>>
    BY <1>1, <1>2, <1>4 DEF InCall
  <2>3. Len(events') <= Len(request') /\ \A i \in 1..Len(events') : events'[i] = request'[i + Len(request') - Len(events')]
    BY <1>1, <1>4
  <2>4. /\ event'.kind \in {"tms", "reset", "tdi"} => curIdx' < event'.to
        /\ curIdx' = event'.from
    BY <1>4 DEF Events
  <2> QED BY Zenon, <2>1, <2>2, <2>3, <2>4 DEF Progress
<1>12. FailureKept'
  <2>1. ~resetting' /\ pc' # "idle"
    BY <1>1
  <2> QED BY Zenon, <1>6, <2>1 DEF FailureKept, FailuresReported
<1>13. BufferHolds'
  BY Zenon, <1>0, <1>1 DEF BufferHolds, ObserverHolds, maxTxBufferBytes, maxRxBufferBytes, chipBufferBytes
<1>14. ASSUME failures = 0
       PROVE  chip.next = curIdx /\ SyncAt(buf, chip, copied)' /\ handedOver' = 0
  <2>1. buf = EmptyBuffer /\ SyncAt(buf, chip, copied) /\ events = <<>> /\ call # "deactivate" /\ pc # "payload"
    BY <1>0, <1>1, <1>14 DEF InSync, Progress, InCall
  <2>2. copied \in Seq(Copies)
    BY Zenon, <1>0 DEF DataTyped
  <2>3. Ready(chip) /\ Len(chip.out) = 0
    BY Zenon, <2>1, <2>2, EmptySync
  <2>4. chip.next = curIdx /\ chip.tdi = lastTdi /\ chip.expect = 0
    BY <2>1, <2>3 DEF Ready, handedOver
  <2>5. handedOver' = 0
    BY <1>4 DEF handedOver
  <2> PICK k, cp : k = [chip EXCEPT !.req = req + 1, !.next = 0, !.bad = FALSE] /\ cp = <<>>
    OBVIOUS
  <2>6. chip' = k /\ copied' = cp
    BY Zenon, <1>1
  <2>7. k.req = req + 1 /\ k.next = 0 /\ ~k.bad /\ k.tdi = lastTdi /\ k.expect = 0 /\ k.out = chip.out
    BY <1>8, <2>4, <2>6
  <2>8. Ready(k)'
    BY <1>1, <2>5, <2>7 DEF Ready
  <2>9. WantedBits' = {}
    <3>1. IsChain(request)'
      BY Zenon, <1>1, <1>3 DEF IsChain
    <3>2. ASSUME NEW b \in tdiBits' PROVE b \in Nat
      <4>1. PICK i \in 1..Len(evs) : b \in evs[i].from..(evs[i].to - 1)
        BY <1>1, <1>4, <3>2 DEF tdiBits, Range
      <4>2. evs[i] \in Events
        BY <1>4
      <4>3. evs[i].from \in Nat /\ evs[i].to \in Nat
        BY <4>2 DEF Events
      <4> QED BY <4>1, <4>3
    <3> QED BY <1>4, <3>2 DEF WantedBits
  <2>10. Tiles(cp, {})
    <3>1. DOMAIN cp = {}
      OBVIOUS
    <3>2. UNION {BitsOf(cp[i]) : i \in DOMAIN cp} = {}
      BY <3>1
    <3> QED BY Zenon, <3>1, <3>2 DEF Tiles
  <2>11. cp \in Seq(Copies)
    OBVIOUS
  <2>12. SyncAt(EmptyBuffer, k, cp)'
    BY Zenon, <2>3, <2>7, <2>8, <2>9, <2>10, <2>11, EmptySync
  <2>13. SyncAt(buf, chip, copied)'
    BY Zenon, <1>1, <2>1, <2>6, <2>12 DEF SyncAt
  <2> QED BY Zenon, <2>4, <2>5, <2>13
<1>15. InSync'
  <2>1. pc' # "idle" /\ pc' # "aborted"
    BY <1>1
  <2>2. ASSUME failures = 0 PROVE chip'.next <= handedOver'
    BY <1>8, <1>14, <2>2
  <2> QED BY Zenon, <1>1, <1>8, <1>14, <2>1, <2>2 DEF InSync
<1>16. Begins
  BY Zenon, <1>1, <1>4, <1>8, <1>14 DEF Begins
<1> QED BY Zenon, <1>10, <1>11, <1>12, <1>13, <1>15, <1>16 DEF IndInv

-----------------------------------------------------------------------------
(* The theorems.                                                           *)

LEMMA InitHolds ==
  ASSUME Init
  PROVE  IndInv
<1>1. /\ scenario \in Scenarios /\ pc = "idle" /\ call = "shift_bits" /\ req = 0 /\ request = <<>>
      /\ events = <<>> /\ curIdx = 0 /\ resetting = FALSE /\ result = "ok"
      /\ lastTdi = <<0, 0>> /\ buf = EmptyBuffer /\ extras = <<>> /\ extrasHead = 0
      /\ chip = [req |-> 0, expect |-> 0, next |-> 0, tdi |-> <<0, 0>>, bad |-> FALSE, out |-> <<>>]
      /\ copied = <<>> /\ failures = 0 /\ failedBefore = 0
  BY Zenon DEF Init
<1>2. /\ MaxCalls \in Nat /\ scenario.poolBytes \in Nat /\ scenario.poolExtras \in Nat /\ scenario.maxFailures \in Nat
      /\ maxTxBufferBytes \in Nat /\ maxRxBufferBytes \in Nat
  BY <1>1, ScenarioFacts
<1>3. EmptyBuffer.head = 0 /\ EmptyBuffer.txNumBytes = 0 /\ EmptyBuffer.rxNumBytes = 0 /\ Len(EmptyBuffer.observers) = 0
  BY DEF EmptyBuffer, reclaim_all
<1>4. CallTyped /\ FailuresTyped /\ ExtrasTyped
  BY <1>1, <1>2 DEF CallTyped, FailuresTyped, ExtrasTyped
<1>5. ControlTyped
  <2>1. pc \in {"idle", "event", "payload", "deinit", "off", "aborted"} /\ events \in Seq(Events) /\ curIdx \in Nat
        /\ lastTdi \in Nat \X Nat /\ result \in {"ok", "failed"}
    BY <1>1
  <2> QED BY Zenon, <1>1, <2>1 DEF ControlTyped
<1>6. chip \in Chips /\ copied \in Seq(Copies)
  BY <1>1 DEF Chips
<1>7. DataTyped
  <2>1. buf.head <= scenario.poolBytes
    BY <1>1, <1>2, <1>3
  <2> QED BY Zenon, <1>1, <1>6, <2>1, EmptyTyped DEF DataTyped
<1>8. Progress
  BY <1>1 DEF Progress, InCall
<1>9. FailureKept
  BY <1>1 DEF FailureKept, InCall, FailuresReported
<1>10. BufferHolds
  BY <1>1, <1>2, <1>3 DEF BufferHolds
<1>11. handedOver = 0
  BY <1>1 DEF handedOver
<1>12. Ready(chip) /\ Len(chip.out) = 0 /\ ~StoresVector /\ ~chip.bad /\ chip.next = 0
  BY <1>1, <1>11 DEF Ready, StoresVector
<1>13. SyncAt(buf, chip, copied)
  BY Zenon, <1>1, <1>6, <1>12, EmptySync
<1>14. chip.next <= handedOver
  BY <1>11, <1>12
<1>15. InSync
  BY Zenon, <1>1, <1>12, <1>13, <1>14 DEF InSync
<1> QED BY Zenon, <1>4, <1>5, <1>7, <1>8, <1>9, <1>10, <1>15, TypeParts DEF IndInv

LEMMA CallSteps ==
  ASSUME IndInv, CallStep
  PROVE  IndInv' /\ Shifts
BY Zenon, TmsStep, LeadingStep, InnerStep, PayloadStep, TrailingStep, LastStep, FlushAllStep, TckSteps,
   CheckStep, DeinitStep, FatalStep DEF CallStep

LEMMA DriverCalls ==
  ASSUME IndInv, DriverCall
  PROVE  IndInv' /\ Begins
<1>1. CASE \E evs \in scenario.requests : shift_bits(evs)
  <2> PICK evs \in scenario.requests : shift_bits(evs)
    BY <1>1
  <2>1. IsCall("shift_bits", evs) /\ Begin("shift_bits", evs)
    BY DEF IsCall, shift_bits
  <2>2. "shift_bits" \in {"shift_bits", "set_tck_period", "deactivate"}
    OBVIOUS
  <2> QED BY Zenon, <2>1, <2>2, BeginStep
<1>2. CASE set_tck_period
  <2> PICK evs : evs = SetTckEvents
    OBVIOUS
  <2>1. IsCall("set_tck_period", evs) /\ Begin("set_tck_period", evs)
    BY <1>2 DEF IsCall, set_tck_period
  <2>2. "set_tck_period" \in {"shift_bits", "set_tck_period", "deactivate"}
    OBVIOUS
  <2> QED BY Zenon, <2>1, <2>2, BeginStep
<1>3. CASE deactivate
  <2> PICK evs : evs = <<ResetEvent>>
    OBVIOUS
  <2>1. IsCall("deactivate", evs) /\ Begin("deactivate", evs)
    BY <1>3 DEF IsCall, deactivate
  <2>2. "deactivate" \in {"shift_bits", "set_tck_period", "deactivate"}
    OBVIOUS
  <2> QED BY Zenon, <2>1, <2>2, BeginStep
<1> QED BY <1>1, <1>2, <1>3 DEF DriverCall

(* Stuttering.                                                             *)
LEMMA StutterStep ==
  ASSUME IndInv, UNCHANGED vars
  PROVE  IndInv' /\ curIdx' = curIdx /\ chip' = chip /\ failures' = failures
<1>1. /\ pc' = pc /\ events' = events /\ curIdx' = curIdx /\ resetting' = resetting
      /\ result' = result /\ lastTdi' = lastTdi /\ buf' = buf /\ extras' = extras /\ extrasHead' = extrasHead
      /\ chip' = chip /\ copied' = copied /\ failures' = failures
      /\ scenario' = scenario /\ call' = call /\ req' = req /\ request' = request /\ failedBefore' = failedBefore
  BY Zenon DEF vars, poolVars, callVars
<1>2. event' = event /\ lastBitIdx' = lastBitIdx /\ innerEndIdx' = innerEndIdx /\ innerOctetsToSend' = innerOctetsToSend
  BY Zenon, <1>1 DEF event, lastBitIdx, innerEndIdx, innerOctetsToSend, leadingOnly, numLeadingBits, numRegularBits,
                     numFirstOctetBits, chipBufferBytes, min
<1>3. TypeOK'
  BY Zenon, <1>1, <1>2 DEF IndInv, TypeOK
<1>4. Progress' /\ FailureKept'
  BY Zenon, <1>1, <1>2 DEF IndInv, Progress, IsCall, InCall, FailureKept, FailuresReported
<1>5. BufferHolds'
  BY Zenon, <1>1 DEF IndInv, BufferHolds, ObserverHolds, maxTxBufferBytes, maxRxBufferBytes, chipBufferBytes
<1>6. InSync'
  <2>1. handedOver' = handedOver /\ \A c : Ready(c)' = Ready(c)
    BY Zenon, <1>1, <1>2 DEF Ready, handedOver
  <2>2. tdiBits' = tdiBits
    BY Zenon, <1>1 DEF tdiBits
  <2>3. \A o, out : Copy(o, out)' = Copy(o, out)
    BY Zenon, <1>1 DEF Copy
  <2>4. \A b, cp, c : Stored(b, cp, c)' = Stored(b, cp, c)
    BY Zenon, <2>3 DEF Stored
  <2>5. \A b, k, cp : SyncAt(b, k, cp)' = SyncAt(b, k, cp)
    BY Zenon, <1>1, <2>1, <2>2, <2>4 DEF SyncAt
  <2> PICK b, k, cp : b = buf /\ k = chip /\ cp = copied
    OBVIOUS
  <2> QED BY Zenon, <1>1, <2>1, <2>5 DEF IndInv, InSync
<1> QED BY Zenon, <1>1, <1>3, <1>4, <1>5, <1>6 DEF IndInv

(***************************************************************************)
(* Of request, command buffer, observers and chip, every reachable state   *)
(* has what each step relies on: a flush would bring the chip to where the *)
(* driver is (ftdi_generic.c:235).                                         *)
(***************************************************************************)
THEOREM Invariance == Spec => []IndInv
<1>1. Init => IndInv
  BY Zenon, InitHolds
<1>2. IndInv /\ [Next]_vars => IndInv'
  BY Zenon, CallSteps, DriverCalls, StutterStep DEF Next
<1> QED BY <1>1, <1>2, PTL DEF Spec

(* Variables of the driver keep their types, no index leaves its event and *)
(* no head its pool, for every chip, request and number of failures.       *)
THEOREM TypeCorrect == Spec => []TypeOK
<1>1. IndInv => TypeOK
  BY DEF IndInv
<1> QED BY <1>1, Invariance, PTL

(* A D2XX failure in any write, flush or reset of a call is what that call *)
(* returns.                                                                *)
THEOREM FailuresAreReported == Spec => []FailuresReported
<1>1. IndInv => FailuresReported
  BY DEF IndInv, FailureKept
<1> QED BY <1>1, Invariance, PTL

(***************************************************************************)
(* What is buffered never makes the chip answer more than its own buffer   *)
(* holds, and a flush reads exactly the bytes the chip answers, for every  *)
(* size of the chip's buffer (ft_buffer_init()'s comment).                 *)
(***************************************************************************)
THEOREM ReadbackFits == Spec => []ReadbackFitsChip
<1>1. ASSUME IndInv PROVE ReadbackFitsChip
  <2>1. scenario \in Scenarios /\ BufferHolds /\ InSync
    BY Zenon, <1>1 DEF IndInv, TypeOK
  <2>2. buf.txNumBytes <= maxTxBufferBytes /\ buf.rxNumBytes <= chipBufferBytes
    BY Zenon, <2>1 DEF BufferHolds, maxRxBufferBytes
  <2>3. AboutToFlush => pc # "aborted"
    BY DEF AboutToFlush, Writing
  <2>4. failures = 0 /\ AboutToFlush => \A c \in AllSent : Len(c.out) = buf.rxNumBytes
    BY Zenon, <2>1, <2>3 DEF InSync, SyncAt, AllSent, Sent
  <2> QED BY Zenon, <2>2, <2>4 DEF ReadbackFitsChip
<1> QED BY <1>1, Invariance, PTL

(* Exactly one of what tiles the bits covers a bit of them, and none any   *)
(* other.                                                                  *)
LEMMA CoveredOnce ==
  ASSUME NEW stored \in Seq(Copies), NEW bits, Tiles(stored, bits), NEW b \in Nat
  PROVE  Cardinality({i \in DOMAIN stored : Covers(stored[i], b)}) = IF b \in bits THEN 1 ELSE 0
<1> DEFINE S == {i \in DOMAIN stored : Covers(stored[i], b)}
<1>1. ASSUME NEW i \in DOMAIN stored PROVE Covers(stored[i], b) <=> b \in BitsOf(stored[i])
  <2>1. stored[i] \in Copies
    OBVIOUS
  <2>2. stored[i].toBit \in Nat /\ stored[i].numBits \in Nat
    BY <2>1 DEF Copies
  <2> QED BY SMTT(30), <2>2 DEF Covers, BitsOf
<1>2. /\ \A i, j \in DOMAIN stored : i # j => BitsOf(stored[i]) \cap BitsOf(stored[j]) = {}
      /\ UNION {BitsOf(stored[i]) : i \in DOMAIN stored} = bits
  BY Zenon DEF Tiles
<1>3. CASE b \in bits
  <2>1. PICK i \in DOMAIN stored : b \in BitsOf(stored[i])
    BY Zenon, <1>2, <1>3
  <2>2. \A j \in DOMAIN stored : Covers(stored[j], b) <=> j = i
    <3> SUFFICES ASSUME NEW j \in DOMAIN stored PROVE Covers(stored[j], b) <=> j = i
      OBVIOUS
    <3>1. j # i => ~(b \in BitsOf(stored[j]))
      BY Zenon, <1>2, <2>1
    <3> QED BY Zenon, <1>1, <2>1, <3>1
  <2>3. S = {i}
    BY Zenon, <2>1, <2>2
  <2>4. Cardinality({i}) = 1
    BY FS_Singleton
  <2> QED BY <1>3, <2>3, <2>4
<1>4. CASE b \notin bits
  <2>1. \A j \in DOMAIN stored : ~Covers(stored[j], b)
    BY Zenon, <1>1, <1>2, <1>4
  <2>2. S = {}
    BY <2>1
  <2>3. Cardinality({}) = 0
    BY FS_EmptySet
  <2> QED BY <1>4, <2>2, <2>3
<1> QED BY <1>3, <1>4

(***************************************************************************)
(* shift_bits() that returned true before any failure has shifted every    *)
(* bit of the vectors and stored the sample of every TDI bit once, and     *)
(* nothing else, whatever events the splitter cut the vectors into and     *)
(* wherever the chip's buffer made the driver flush.                       *)
(***************************************************************************)
THEOREM OkMeansAllDone == Spec => []OkMeansDoneUntilFailure
<1>1. ASSUME IndInv PROVE OkMeansDoneUntilFailure
  <2> SUFFICES ASSUME failures = 0, pc = "idle", req > 0, call = "shift_bits", result = "ok"
               PROVE  /\ ~chip.bad /\ chip.expect = 0 /\ chip.next = Last(request).to
                      /\ \A i \in DOMAIN copied : copied[i].good
                      /\ \A b \in 0..(Last(request).to + 7) :
                           Cardinality({i \in DOMAIN copied : Covers(copied[i], b)}) = IF b \in tdiBits THEN 1 ELSE 0
    BY DEF OkMeansDoneUntilFailure, OkMeansDone
  <2>1. TypeOK /\ Progress /\ InSync
    BY Zenon, <1>1 DEF IndInv
  <2>2. buf = EmptyBuffer /\ SyncAt(buf, chip, copied) /\ events = <<>> /\ curIdx = request[Len(request)].to
    BY <2>1 DEF InSync, Progress, InCall
  <2>3. copied \in Seq(Copies) /\ curIdx \in Nat
    BY Zenon, <2>1 DEF TypeOK
  <2>4. Ready(chip) /\ (StoresVector => Tiles(copied, WantedBits))
    BY Zenon, <2>2, <2>3, EmptySync
  <2>5. Tiles(copied, WantedBits)
    BY Zenon, <2>4 DEF StoresVector
  <2>6. Last(request) = request[Len(request)]
    BY DEF Last
  <2>7. ~chip.bad /\ chip.expect = 0 /\ chip.next = Last(request).to
    BY <2>2, <2>4, <2>6 DEF Ready, handedOver
  <2>8. \A i \in DOMAIN copied : copied[i].good
    BY Zenon, <2>5 DEF Tiles
  <2>9. ASSUME NEW b \in 0..(Last(request).to + 7)
        PROVE  Cardinality({i \in DOMAIN copied : Covers(copied[i], b)}) = IF b \in tdiBits THEN 1 ELSE 0
    <3>1. b \in Nat
      BY <2>2, <2>3, <2>6, <2>9
    <3>2. b \in WantedBits <=> b \in tdiBits
      <4>1. IsChain(request)
        BY Zenon, <2>1, RequestChain
      <4>2. b \in tdiBits => b < curIdx
        BY <2>2, <4>1, BitsBelowEnd
      <4> QED BY <4>2 DEF WantedBits
    <3>3. Cardinality({i \in DOMAIN copied : Covers(copied[i], b)}) = IF b \in WantedBits THEN 1 ELSE 0
      BY Zenon, <2>3, <2>5, <3>1, CoveredOnce
    <3> QED BY Zenon, <3>2, <3>3
  <2> QED BY Zenon, <2>7, <2>8, <2>9
<1> QED BY <1>1, Invariance, PTL

(***************************************************************************)
(* The driver implements the sink the splitter expects: bits are shifted   *)
(* in order, none before it was handed over, all of them before the next   *)
(* vector begins (jtag_splitter_callback()).                               *)
(***************************************************************************)
THEOREM Refinement == Spec => ImplementsSink
<1>1. Init => Sink!Init
  BY DEF Init, Sink!Init
<1>2. ASSUME IndInv, IndInv', [Next]_vars
      PROVE  [Sink!Shift \/ Sink!FlushAll \/ Sink!Begin \/ Sink!Fail]_(Sink!vars)
  <2>1. ASSUME IndInv
        PROVE  curIdx \in Nat /\ chip.next \in Nat /\ failures \in Nat
               /\ (failures = 0 => ~chip.bad /\ chip.next <= handedOver /\ handedOver <= curIdx /\ handedOver \in Nat)
    <3>1. curIdx \in Nat /\ chip \in Chips /\ FailuresTyped /\ scenario \in Scenarios /\ InSync
      BY Zenon, <2>1, TypeParts DEF IndInv, TypeOK
    <3>2. chip.next \in Nat /\ failures \in Nat
      BY <3>1, ScenarioFacts DEF Chips, FailuresTyped
    <3>3. failures = 0 => ~chip.bad /\ chip.next <= handedOver
      BY Zenon, <3>1 DEF InSync
    <3>4. handedOver <= curIdx /\ handedOver \in Nat
      BY <3>1 DEF handedOver
    <3> QED BY Zenon, <3>1, <3>2, <3>3, <3>4
  <2>2. failures' \in Nat /\ (failures' = 0 => ~chip'.bad)
    <3>1. FailuresTyped' /\ scenario' \in Scenarios /\ InSync'
      BY Zenon, <1>2, TypeParts DEF IndInv, TypeOK
    <3>2. failures' \in Nat
      BY <3>1, DriverAssumption DEF FailuresTyped
    <3> QED BY Zenon, <3>1, <3>2 DEF InSync
  <2>3. CASE failures' > 0
    BY <2>3 DEF Sink!Fail
  <2>4. CASE ~(failures' > 0)
    <3>1. failures' = 0 /\ ~chip'.bad
      BY <2>2, <2>4
    <3>2. CASE CallStep
      <4>1. failures = 0 /\ chip'.next \in {chip.next, handedOver} /\ curIdx' >= curIdx
        BY Zenon, <1>2, <3>1, <3>2, CallSteps DEF Shifts
      <4>2. Sink!Shift
        BY <1>2, <2>1, <3>1, <4>1 DEF Sink!Shift
      <4> QED BY <4>2
    <3>3. CASE DriverCall
      <4>1. failures = 0 /\ chip.next = curIdx /\ curIdx' = 0 /\ chip'.next = 0
        BY Zenon, <1>2, <3>1, <3>3, DriverCalls DEF Begins
      <4>2. Sink!Begin
        BY <1>2, <2>1, <3>1, <4>1 DEF Sink!Begin
      <4> QED BY <4>2
    <3>4. CASE UNCHANGED vars
      <4>1. UNCHANGED Sink!vars
        BY Zenon, <1>2, <3>4, StutterStep DEF Sink!vars
      <4> QED BY <4>1
    <3> QED BY Zenon, <1>2, <3>2, <3>3, <3>4 DEF Next
  <2> QED BY <2>3, <2>4
<1> QED BY <1>1, <1>2, Invariance, PTL DEF Spec, ImplementsSink, Sink!Spec

-----------------------------------------------------------------------------
(* The pool of the command buffer: what it holds lies apart.               *)

(* Blocks below `head`, none over another.                                 *)
Fit(blocks, head) ==
  head \in Nat /\ Packed(blocks, head) /\ \A x \in blocks : x.at \in Int /\ x.size \in Nat

(* An allocation above the head: its block lies apart from the others.     *)
LEMMA BlockAdded ==
  ASSUME NEW blocks, NEW head, Fit(blocks, head), NEW top \in Nat,
         NEW x, x.at \in Nat, x.size \in Nat, head <= x.at, x.at + x.size <= top
  PROVE  Fit(blocks \cup {x}, top)
<1>1. /\ head \in Nat
      /\ \A b \in blocks : b.at \in Int /\ b.size \in Nat /\ b.at >= 0 /\ b.at + b.size <= head
      /\ \A b, c \in blocks : b = c \/ b.at + b.size <= c.at \/ c.at + c.size <= b.at
  BY DEF Fit, Packed
<1>2. ASSUME NEW b \in blocks \cup {x} PROVE b.at >= 0 /\ b.at + b.size <= top /\ b.at \in Int /\ b.size \in Nat
  BY <1>1
<1>3. ASSUME NEW b \in blocks \cup {x}, NEW c \in blocks \cup {x}
      PROVE  b = c \/ b.at + b.size <= c.at \/ c.at + c.size <= b.at
  BY <1>1
<1> QED BY <1>2, <1>3 DEF Fit, Packed

(* Fewer blocks fit as well.                                               *)
LEMMA FewerFit ==
  ASSUME NEW blocks, NEW head, Fit(blocks, head), NEW fewer, fewer \subseteq blocks
  PROVE  Fit(fewer, head)
BY DEF Fit, Packed

(* Where the allocations of an append end, and what they waste.            *)
LEMMA AppendHeads ==
  ASSUME scenario \in Scenarios, NEW b \in Buffers, NEW w \in WriteCommands, NEW h, h = ExtraHead(b, w)
  PROVE  /\ b.head \in Nat /\ h \in Nat /\ TxHead(b, h) \in Nat /\ RxHead(b, w, h) \in Nat /\ NodeHead(b, w, h) \in Nat
         /\ w.simple => b.head <= h - 16 /\ (h - 16) % 8 = 0 /\ h <= b.head + 23
         /\ ~w.simple => h = b.head
         /\ TxHead(b, h) = IF b.txBuffer = NULL THEN h + maxTxBufferBytes ELSE h
         /\ RxHead(b, w, h) = IF w.rx > 0 /\ b.rxBuffer = NULL THEN TxHead(b, h) + maxRxBufferBytes ELSE TxHead(b, h)
         /\ w.rx > 0 => /\ RxHead(b, w, h) <= NodeHead(b, w, h) - 32 /\ (NodeHead(b, w, h) - 32) % 8 = 0
                        /\ NodeHead(b, w, h) <= RxHead(b, w, h) + 39
         /\ ~(w.rx > 0) => NodeHead(b, w, h) = RxHead(b, w, h)
<1>1. b.head \in Nat /\ h \in Nat /\ TxHead(b, h) \in Nat /\ RxHead(b, w, h) \in Nat /\ NodeHead(b, w, h) \in Nat
  BY HeadsRise DEF Buffers
<1>2. ASSUME NEW at \in Nat, NEW sz \in {16, 32}
      PROVE  /\ alloc_object(at, sz) \in Nat /\ at <= alloc_object(at, sz) - sz
             /\ (alloc_object(at, sz) - sz) % 8 = 0 /\ alloc_object(at, sz) <= at + sz + 7
  BY SMTT(30), AllocObject DEF Align
<1>3. (w.simple => h = alloc_object(b.head, 16)) /\ (~w.simple => h = b.head)
  BY DEF ExtraHead, ByteExtraSz
<1>4. (w.rx > 0 => NodeHead(b, w, h) = alloc_object(RxHead(b, w, h), 32))
      /\ (~(w.rx > 0) => NodeHead(b, w, h) = RxHead(b, w, h))
  BY DEF NodeHead, NodeSz
<1>5. ASSUME w.simple PROVE b.head <= h - 16 /\ (h - 16) % 8 = 0 /\ h <= b.head + 23
  <2> PICK at : at = b.head
    OBVIOUS
  <2>1. at \in Nat /\ h = alloc_object(at, 16)
    BY Zenon, <1>1, <1>3, <1>5
  <2>2. at <= h - 16 /\ (h - 16) % 8 = 0 /\ h <= at + 16 + 7
    BY <1>2, <2>1
  <2> QED BY <1>1, <2>2
<1>6. w.rx > 0 => /\ RxHead(b, w, h) <= NodeHead(b, w, h) - 32 /\ (NodeHead(b, w, h) - 32) % 8 = 0
                  /\ NodeHead(b, w, h) <= RxHead(b, w, h) + 39
  BY <1>1, <1>2, <1>4
<1>7. TxHead(b, h) = IF b.txBuffer = NULL THEN h + maxTxBufferBytes ELSE h
  BY Zenon DEF TxHead, alloc_unaligned
<1>8. RxHead(b, w, h) = IF w.rx > 0 /\ b.rxBuffer = NULL THEN TxHead(b, h) + maxRxBufferBytes ELSE TxHead(b, h)
  BY Zenon DEF RxHead, alloc_unaligned
<1> QED BY <1>1, <1>3, <1>4, <1>5, <1>6, <1>7, <1>8

(* The blocks that the append makes, in the order of their addresses.      *)
NewExtra(b, h)   == Block("extra", Len(b.observers) + 1, h - ByteExtraSz, ByteExtraSz)
NewTx(b, h)      == Block("tx", 0, TxHead(b, h) - maxTxBufferBytes, maxTxBufferBytes)
NewRx(b, w, h)   == Block("rx", 0, RxHead(b, w, h) - maxRxBufferBytes, maxRxBufferBytes)
NewNode(b, w, h) == Block("node", Len(b.observers) + 1, NodeHead(b, w, h) - NodeSz, NodeSz)

WithExtra(b, w, h) == IF w.simple THEN LiveBlocks(b) \cup {NewExtra(b, h)} ELSE LiveBlocks(b)
WithTx(b, w, h)    == IF b.txBuffer = NULL THEN WithExtra(b, w, h) \cup {NewTx(b, h)} ELSE WithExtra(b, w, h)
WithRx(b, w, h)    == IF w.rx > 0 /\ b.rxBuffer = NULL THEN WithTx(b, w, h) \cup {NewRx(b, w, h)} ELSE WithTx(b, w, h)
WithNode(b, w, h)  == IF w.rx > 0 THEN WithRx(b, w, h) \cup {NewNode(b, w, h)} ELSE WithRx(b, w, h)

LEMMA NewBlocksFit ==
  ASSUME scenario \in Scenarios, NEW b \in Buffers, NEW w \in WriteCommands, NEW h, h = ExtraHead(b, w),
         Fit(LiveBlocks(b), b.head)
  PROVE  Fit(WithNode(b, w, h), NodeHead(b, w, h))
<1>0. maxTxBufferBytes \in Nat /\ maxRxBufferBytes \in Nat /\ w.simple \in BOOLEAN
  BY ScenarioFacts DEF WriteCommands
<1>1. /\ b.head \in Nat /\ h \in Nat /\ TxHead(b, h) \in Nat /\ RxHead(b, w, h) \in Nat /\ NodeHead(b, w, h) \in Nat
      /\ w.simple => b.head <= h - 16 /\ (h - 16) % 8 = 0 /\ h <= b.head + 23
      /\ ~w.simple => h = b.head
      /\ TxHead(b, h) = IF b.txBuffer = NULL THEN h + maxTxBufferBytes ELSE h
      /\ RxHead(b, w, h) = IF w.rx > 0 /\ b.rxBuffer = NULL THEN TxHead(b, h) + maxRxBufferBytes ELSE TxHead(b, h)
      /\ w.rx > 0 => /\ RxHead(b, w, h) <= NodeHead(b, w, h) - 32 /\ (NodeHead(b, w, h) - 32) % 8 = 0
                     /\ NodeHead(b, w, h) <= RxHead(b, w, h) + 39
      /\ ~(w.rx > 0) => NodeHead(b, w, h) = RxHead(b, w, h)
  BY ZenonT(60), AppendHeads
<1>2. Fit(WithExtra(b, w, h), h)
  <2> PICK x : x = NewExtra(b, h)
    OBVIOUS
  <2>1. x.at = h - 16 /\ x.size = 16
    BY DEF NewExtra, Block, ByteExtraSz
  <2>2. ASSUME w.simple
        PROVE  x.at \in Nat /\ x.size \in Nat /\ b.head <= x.at /\ x.at + x.size <= h
    BY <1>1, <2>1, <2>2
  <2> QED BY Zenon, <1>1, <2>2, BlockAdded DEF WithExtra
<1>3. Fit(WithTx(b, w, h), TxHead(b, h))
  <2> PICK x : x = NewTx(b, h)
    OBVIOUS
  <2>1. x.at = TxHead(b, h) - maxTxBufferBytes /\ x.size = maxTxBufferBytes
    BY DEF NewTx, Block
  <2>2. ASSUME b.txBuffer = NULL
        PROVE  x.at \in Nat /\ x.size \in Nat /\ h <= x.at /\ x.at + x.size <= TxHead(b, h)
    BY <1>0, <1>1, <2>1, <2>2
  <2> QED BY Zenon, <1>1, <1>2, <2>2, BlockAdded DEF WithTx
<1>4. Fit(WithRx(b, w, h), RxHead(b, w, h))
  <2> PICK x : x = NewRx(b, w, h)
    OBVIOUS
  <2>1. x.at = RxHead(b, w, h) - maxRxBufferBytes /\ x.size = maxRxBufferBytes
    BY DEF NewRx, Block
  <2>2. ASSUME w.rx > 0, b.rxBuffer = NULL
        PROVE  x.at \in Nat /\ x.size \in Nat /\ TxHead(b, h) <= x.at /\ x.at + x.size <= RxHead(b, w, h)
    BY <1>0, <1>1, <2>1, <2>2
  <2> QED BY Zenon, <1>1, <1>3, <2>2, BlockAdded DEF WithRx
<1>5. Fit(WithNode(b, w, h), NodeHead(b, w, h))
  <2> PICK x : x = NewNode(b, w, h)
    OBVIOUS
  <2>1. x.at = NodeHead(b, w, h) - 32 /\ x.size = 32
    BY DEF NewNode, Block, NodeSz
  <2>2. ASSUME w.rx > 0
        PROVE  x.at \in Nat /\ x.size \in Nat /\ RxHead(b, w, h) <= x.at /\ x.at + x.size <= NodeHead(b, w, h)
    BY <1>1, <2>1, <2>2
  <2> QED BY Zenon, <1>1, <1>4, <2>2, BlockAdded DEF WithNode
<1> QED BY <1>5

(* The buffers of what is appended to: there, or just allocated.           *)
LEMMA AppendBuffers ==
  ASSUME NEW b, NEW w, NEW h, h = ExtraHead(b, w)
  PROVE  LET a == ft_buffer_append(b, w)
         IN  /\ a.txBuffer = IF b.txBuffer = NULL THEN TxHead(b, h) - maxTxBufferBytes ELSE b.txBuffer
             /\ a.rxBuffer = IF w.rx > 0 /\ b.rxBuffer = NULL THEN RxHead(b, w, h) - maxRxBufferBytes ELSE b.rxBuffer
<1> DEFINE txBuf == IF b.txBuffer = NULL THEN TxHead(b, h) - maxTxBufferBytes ELSE b.txBuffer
           rxBuf == IF w.rx > 0 /\ b.rxBuffer = NULL THEN RxHead(b, w, h) - maxRxBufferBytes ELSE b.rxBuffer
           obs   == IF w.rx > 0 THEN Append(b.observers, Observer(b, w, h)) ELSE b.observers
<1>1. ft_buffer_append(b, w) =
        [ tx |-> Append(b.tx, w), txNumBytes |-> b.txNumBytes + w.tx, txBuffer |-> txBuf,
          rxNumBytes |-> b.rxNumBytes + w.rx, rxBuffer |-> rxBuf, observers |-> obs,
          head |-> NodeHead(b, w, h) ]
  BY Zenon DEF ft_buffer_append, AppendWith
<1> HIDE DEF txBuf, rxBuf, obs
<1>2. ft_buffer_append(b, w).txBuffer = txBuf /\ ft_buffer_append(b, w).rxBuffer = rxBuf
  BY <1>1
<1> QED BY Zenon, <1>2 DEF txBuf, rxBuf

(* The observers of a, of n in b and the one of command w.                 *)
LEMMA AppendObservers ==
  ASSUME scenario \in Scenarios, extrasHead \in Nat, NEW b \in Buffers, NEW w \in WriteCommands,
         NEW h, h = ExtraHead(b, w), NEW a, a = ft_buffer_append(b, w), NEW n, n = Len(b.observers)
  PROVE  /\ n \in Nat /\ Len(a.observers) = IF w.rx > 0 THEN n + 1 ELSE n
         /\ \A i \in 1..n : a.observers[i] = b.observers[i]
         /\ w.rx > 0 => /\ a.observers[n + 1].node = NodeHead(b, w, h) - NodeSz
                        /\ a.observers[n + 1].extra = h - ByteExtraSz
                        /\ a.observers[n + 1].simple = w.simple
<1> PICK o : o = Observer(b, w, h)
  OBVIOUS
<1>1. o \in Observers /\ a.observers = IF w.rx > 0 THEN Append(b.observers, o) ELSE b.observers
  BY Zenon, AppendFields
<1>2. b.observers \in Seq(Observers)
  BY DEF Buffers
<1>3. o.node = NodeHead(b, w, h) - NodeSz /\ o.extra = h - ByteExtraSz /\ o.simple = w.simple
  BY DEF Observer
<1>4. n \in Nat /\ Len(Append(b.observers, o)) = n + 1 /\ Append(b.observers, o)[n + 1] = o
      /\ \A i \in 1..n : Append(b.observers, o)[i] = b.observers[i]
  BY <1>1, <1>2
<1> QED BY Zenon, <1>1, <1>3, <1>4

(* An object of a is one of b, or belongs to the new observer.             *)
LEMMA AppendObjects ==
  ASSUME scenario \in Scenarios, extrasHead \in Nat, NEW b \in Buffers, NEW w \in WriteCommands,
         NEW h, h = ExtraHead(b, w), NEW a, a = ft_buffer_append(b, w), NEW x \in Objects(a)
  PROVE  \/ x \in Objects(b)
         \/ w.rx > 0 /\ x = NewNode(b, w, h)
         \/ w.simple /\ x = NewExtra(b, h)
<1> PICK n : n = Len(b.observers)
  OBVIOUS
<1>1. /\ n \in Nat /\ Len(a.observers) = IF w.rx > 0 THEN n + 1 ELSE n
      /\ \A i \in 1..n : a.observers[i] = b.observers[i]
      /\ w.rx > 0 => /\ a.observers[n + 1].node = NodeHead(b, w, h) - NodeSz
                     /\ a.observers[n + 1].extra = h - ByteExtraSz
                     /\ a.observers[n + 1].simple = w.simple
  BY AppendObservers
<1>2. ASSUME NEW i \in 1..Len(a.observers) PROVE i \in 1..n \/ (w.rx > 0 /\ i = n + 1)
  BY <1>1
<1>3. CASE \E i \in 1..Len(a.observers) : x = Block("node", i, a.observers[i].node, NodeSz)
  <2> PICK i \in 1..Len(a.observers) : x = Block("node", i, a.observers[i].node, NodeSz)
    BY <1>3
  <2>1. CASE i \in 1..n
    <3>1. x = Block("node", i, b.observers[i].node, NodeSz)
      BY Zenon, <1>1, <2>1
    <3> QED BY Zenon, <2>1, <3>1 DEF Objects
  <2>2. CASE w.rx > 0 /\ i = n + 1
    BY Zenon, <1>1, <2>2 DEF NewNode
  <2> QED BY <1>2, <2>1, <2>2
<1>4. CASE \E i \in Simple(a) : x = Block("extra", i, a.observers[i].extra, ByteExtraSz)
  <2> PICK i \in Simple(a) : x = Block("extra", i, a.observers[i].extra, ByteExtraSz)
    BY <1>4
  <2>0. i \in 1..Len(a.observers) /\ a.observers[i].simple
    BY DEF Simple
  <2>1. CASE i \in 1..n
    <3>1. x = Block("extra", i, b.observers[i].extra, ByteExtraSz) /\ b.observers[i].simple
      BY Zenon, <1>1, <2>0, <2>1
    <3>2. i \in Simple(b)
      BY <2>1, <3>1 DEF Simple
    <3> QED BY Zenon, <3>1, <3>2 DEF Objects
  <2>2. CASE w.rx > 0 /\ i = n + 1
    <3>1. w.simple
      BY Zenon, <1>1, <2>0, <2>2
    <3> QED BY Zenon, <1>1, <2>2, <3>1 DEF NewExtra
  <2> QED BY <1>2, <2>0, <2>1, <2>2
<1> QED BY <1>3, <1>4 DEF Objects

(* So every block of a is one of b or one that the append made.            *)
LEMMA AppendBlocks ==
  ASSUME scenario \in Scenarios, extrasHead \in Nat, NEW b \in Buffers, NEW w \in WriteCommands,
         NEW h, h = ExtraHead(b, w), NEW a, a = ft_buffer_append(b, w)
  PROVE  LiveBlocks(a) \subseteq WithNode(b, w, h)
<1>1. /\ a.txBuffer = IF b.txBuffer = NULL THEN TxHead(b, h) - maxTxBufferBytes ELSE b.txBuffer
      /\ a.rxBuffer = IF w.rx > 0 /\ b.rxBuffer = NULL THEN RxHead(b, w, h) - maxRxBufferBytes ELSE b.rxBuffer
  BY Zenon, AppendBuffers
<1>2. /\ LiveBlocks(b) \subseteq WithExtra(b, w, h) /\ WithExtra(b, w, h) \subseteq WithTx(b, w, h)
      /\ WithTx(b, w, h) \subseteq WithRx(b, w, h) /\ WithRx(b, w, h) \subseteq WithNode(b, w, h)
  BY Zenon DEF WithExtra, WithTx, WithRx, WithNode
<1> SUFFICES ASSUME NEW x \in LiveBlocks(a) PROVE x \in WithNode(b, w, h)
  OBVIOUS
<1>3. CASE x \in Objects(a)
  <2>1. x \in Objects(b) \/ (w.rx > 0 /\ x = NewNode(b, w, h)) \/ (w.simple /\ x = NewExtra(b, h))
    BY Zenon, <1>3, AppendObjects
  <2>2. x \in Objects(b) => x \in LiveBlocks(b)
    BY Zenon DEF LiveBlocks
  <2>3. w.simple /\ x = NewExtra(b, h) => x \in WithExtra(b, w, h)
    BY Zenon DEF WithExtra
  <2>4. w.rx > 0 /\ x = NewNode(b, w, h) => x \in WithNode(b, w, h)
    BY Zenon DEF WithNode
  <2> QED BY Zenon, <1>2, <2>1, <2>2, <2>3, <2>4
<1>4. CASE a.txBuffer # NULL /\ x = Block("tx", 0, a.txBuffer, maxTxBufferBytes)
  <2>1. CASE b.txBuffer = NULL
    <3>1. x \in WithTx(b, w, h)
      BY Zenon, <1>1, <1>4, <2>1 DEF WithTx, NewTx
    <3> QED BY Zenon, <1>2, <3>1
  <2>2. CASE b.txBuffer # NULL
    <3>1. x \in LiveBlocks(b)
      BY Zenon, <1>1, <1>4, <2>2 DEF LiveBlocks
    <3> QED BY Zenon, <1>2, <3>1
  <2> QED BY <2>1, <2>2
<1>5. CASE a.rxBuffer # NULL /\ x = Block("rx", 0, a.rxBuffer, maxRxBufferBytes)
  <2>1. CASE w.rx > 0 /\ b.rxBuffer = NULL
    <3>1. x \in WithRx(b, w, h)
      BY Zenon, <1>1, <1>5, <2>1 DEF WithRx, NewRx
    <3> QED BY Zenon, <1>2, <3>1
  <2>2. CASE ~(w.rx > 0 /\ b.rxBuffer = NULL)
    <3>1. x \in LiveBlocks(b)
      BY Zenon, <1>1, <1>5, <2>2 DEF LiveBlocks
    <3> QED BY Zenon, <1>2, <3>1
  <2> QED BY <2>1, <2>2
<1> QED BY Zenon, <1>3, <1>4, <1>5 DEF LiveBlocks

(* How many observers have an extra in the pool: no more than there are.   *)
LEMMA SimpleFinite ==
  ASSUME NEW b \in Buffers
  PROVE  /\ Len(b.observers) \in Nat /\ IsFiniteSet(Simple(b)) /\ Cardinality(Simple(b)) \in Nat
         /\ Cardinality(Simple(b)) <= Len(b.observers)
<1> PICK n : n = Len(b.observers)
  OBVIOUS
<1>1. n \in Nat
  BY DEF Buffers
<1>2. Simple(b) \subseteq 1..n
  BY DEF Simple
<1>3. 0 \in Int /\ 1 \in Int /\ n \in Int
  BY <1>1
<1>4. IsFiniteSet(1..n) /\ Cardinality(1..n) = n
  <2>1. IsFiniteSet(1..n) /\ Cardinality(1..n) = IF 1 > n THEN 0 ELSE n - 1 + 1
    BY <1>3, FS_Interval
  <2> QED BY <1>1, <2>1
<1>5. IsFiniteSet(Simple(b)) /\ Cardinality(Simple(b)) <= Cardinality(1..n)
  BY Zenon, <1>2, <1>4, FS_Subset
<1>6. Cardinality(Simple(b)) \in Nat
  BY Zenon, <1>5, FS_CardinalityType
<1> QED BY <1>1, <1>4, <1>5, <1>6

(* An append of a _simple command adds one.                                *)
LEMMA AppendSimple ==
  ASSUME scenario \in Scenarios, extrasHead \in Nat, NEW b \in Buffers, NEW w \in WriteCommands,
         w.simple => w.rx > 0, NEW a, a = ft_buffer_append(b, w)
  PROVE  Cardinality(Simple(a)) = IF w.simple THEN Cardinality(Simple(b)) + 1 ELSE Cardinality(Simple(b))
<1> PICK n, h : n = Len(b.observers) /\ h = ExtraHead(b, w)
  OBVIOUS
<1>1. /\ n \in Nat /\ Len(a.observers) = IF w.rx > 0 THEN n + 1 ELSE n
      /\ \A i \in 1..n : a.observers[i] = b.observers[i]
      /\ w.rx > 0 => /\ a.observers[n + 1].node = NodeHead(b, w, h) - NodeSz
                     /\ a.observers[n + 1].extra = h - ByteExtraSz
                     /\ a.observers[n + 1].simple = w.simple
  BY AppendObservers
<1>2. CASE w.simple
  <2>1. Simple(a) = Simple(b) \cup {n + 1}
    <3>1. Len(a.observers) = n + 1 /\ a.observers[n + 1].simple
      BY Zenon, <1>1, <1>2
    <3>2. \A i : i \in 1..(n + 1) <=> i \in 1..n \/ i = n + 1
      BY <1>1
    <3>3. \A i : i \in Simple(a) <=> i \in 1..(n + 1) /\ a.observers[i].simple
      BY Zenon, <3>1 DEF Simple
    <3>4. \A i : i \in Simple(b) <=> i \in 1..n /\ b.observers[i].simple
      BY Zenon DEF Simple
    <3> QED BY Zenon, <1>1, <3>1, <3>2, <3>3, <3>4
  <2>2. n + 1 \notin Simple(b)
    BY <1>1 DEF Simple
  <2>3. IsFiniteSet(Simple(b))
    BY SimpleFinite
  <2>4. Cardinality(Simple(b) \cup {n + 1}) = Cardinality(Simple(b)) + 1
    BY <2>2, <2>3, FS_AddElement
  <2> QED BY Zenon, <1>2, <2>1, <2>4
<1>3. CASE ~w.simple
  <2>1. Simple(a) = Simple(b)
    <3>1. \A i : i \in 1..Len(a.observers) <=> i \in 1..n \/ (w.rx > 0 /\ i = n + 1)
      BY <1>1
    <3>2. \A i : i \in Simple(a) <=> i \in 1..Len(a.observers) /\ a.observers[i].simple
      BY Zenon DEF Simple
    <3>3. \A i : i \in Simple(b) <=> i \in 1..n /\ b.observers[i].simple
      BY Zenon DEF Simple
    <3> QED BY Zenon, <1>1, <1>3, <3>1, <3>2, <3>3
  <2> QED BY Zenon, <1>3, <2>1
<1> QED BY <1>2, <1>3

(* The sum of what four allocations add.                                   *)
Rises(e, h, p, q, k, btx, brx, atx, arx, n, m, an, am) ==
  /\ e \in Nat /\ h \in Nat /\ p \in Nat /\ q \in Nat /\ k \in Nat
  /\ btx \in Nat /\ brx \in Nat /\ atx \in Nat /\ arx \in Nat
  /\ n \in Nat /\ m \in Nat /\ an \in Nat /\ am \in Nat
  /\ h - e <= 23 * (am - m) /\ p - h <= atx - btx /\ q - p <= arx - brx /\ k - q <= 39 * (an - n)

LEMMA SumOfHeads ==
  ASSUME NEW e, NEW h, NEW p, NEW q, NEW k, NEW btx, NEW brx, NEW atx, NEW arx, NEW n, NEW m, NEW an, NEW am,
         Rises(e, h, p, q, k, btx, brx, atx, arx, n, m, an, am)
  PROVE  /\ btx + brx + 39 * n + 23 * m \in Nat /\ atx + arx + 39 * an + 23 * am \in Nat
         /\ k - e <= (atx + arx + 39 * an + 23 * am) - (btx + brx + 39 * n + 23 * m)
BY DEF Rises

LEMMA HeadOfObject ==
  ASSUME NEW x \in Nat, NEW y \in Nat, NEW n \in Nat, NEW an, NEW sz \in {23, 39}
  PROVE  /\ an = n + 1 /\ x <= y + sz => x - y <= sz * (an - n)
         /\ an = n /\ x = y => x - y <= sz * (an - n)
OBVIOUS

(* What an append adds to the head, it adds to the live bytes at least.    *)
LEMMA AppendBytes ==
  ASSUME scenario \in Scenarios, extrasHead \in Nat, NEW b \in Buffers, NEW w \in WriteCommands,
         w.simple => w.rx > 0, NEW a, a = ft_buffer_append(b, w), NEW h, h = ExtraHead(b, w)
  PROVE  LiveBytes(b) \in Nat /\ LiveBytes(a) \in Nat /\ NodeHead(b, w, h) - b.head <= LiveBytes(a) - LiveBytes(b)
<1> PICK T, R, n, m : /\ T = maxTxBufferBytes /\ R = maxRxBufferBytes
                      /\ n = Len(b.observers) /\ m = Cardinality(Simple(b))
  OBVIOUS
<1> PICK btx, brx, atx, arx :
         /\ btx = IF b.txBuffer = NULL THEN 0 ELSE T
         /\ brx = IF b.rxBuffer = NULL THEN 0 ELSE R
         /\ atx = IF a.txBuffer = NULL THEN 0 ELSE T
         /\ arx = IF a.rxBuffer = NULL THEN 0 ELSE R
  OBVIOUS
<1>0. T \in Nat /\ R \in Nat /\ n \in Nat /\ m \in Nat
  BY ScenarioFacts, SimpleFinite
<1>1. /\ b.head \in Nat /\ h \in Nat /\ TxHead(b, h) \in Nat /\ RxHead(b, w, h) \in Nat /\ NodeHead(b, w, h) \in Nat
      /\ w.simple => b.head <= h - 16 /\ (h - 16) % 8 = 0 /\ h <= b.head + 23
      /\ ~w.simple => h = b.head
      /\ TxHead(b, h) = IF b.txBuffer = NULL THEN h + T ELSE h
      /\ RxHead(b, w, h) = IF w.rx > 0 /\ b.rxBuffer = NULL THEN TxHead(b, h) + R ELSE TxHead(b, h)
      /\ w.rx > 0 => /\ RxHead(b, w, h) <= NodeHead(b, w, h) - 32 /\ (NodeHead(b, w, h) - 32) % 8 = 0
                     /\ NodeHead(b, w, h) <= RxHead(b, w, h) + 39
      /\ ~(w.rx > 0) => NodeHead(b, w, h) = RxHead(b, w, h)
  BY ZenonT(60), AppendHeads
<1>2. Len(a.observers) = (IF w.rx > 0 THEN n + 1 ELSE n) /\ Cardinality(Simple(a)) = (IF w.simple THEN m + 1 ELSE m)
  BY AppendObservers, AppendSimple
<1>3. LiveBytes(b) = btx + brx + 39 * n + 23 * m
  BY <1>0 DEF LiveBytes, NodeSz, ByteExtraSz, Align
<1>4. LiveBytes(a) = atx + arx + 39 * Len(a.observers) + 23 * Cardinality(Simple(a))
  BY <1>0, <1>2 DEF LiveBytes, NodeSz, ByteExtraSz, Align
<1>5. btx \in Nat /\ brx \in Nat /\ atx \in Nat /\ arx \in Nat
  BY <1>0
<1>6. TxHead(b, h) - h <= atx - btx
  <2>1. a.txBuffer = IF b.txBuffer = NULL THEN TxHead(b, h) - T ELSE b.txBuffer
    BY Zenon, AppendBuffers
  <2>2. TxHead(b, h) - T # NULL \/ b.txBuffer # NULL
    BY <1>0, <1>1 DEF NULL
  <2>3. CASE b.txBuffer = NULL
    <3>1. a.txBuffer # NULL
      BY Zenon, <2>1, <2>2, <2>3
    <3> QED BY <1>0, <1>1, <2>3, <3>1
  <2>4. CASE b.txBuffer # NULL
    <3>1. a.txBuffer # NULL
      BY Zenon, <2>1, <2>4
    <3> QED BY <1>0, <1>1, <2>4, <3>1
  <2> QED BY <2>3, <2>4
<1>7. RxHead(b, w, h) - TxHead(b, h) <= arx - brx
  <2>1. a.rxBuffer = IF w.rx > 0 /\ b.rxBuffer = NULL THEN RxHead(b, w, h) - R ELSE b.rxBuffer
    BY Zenon, AppendBuffers
  <2>3. CASE w.rx > 0 /\ b.rxBuffer = NULL
    <3>1. RxHead(b, w, h) - R # NULL
      BY SMTT(30), <1>0, <1>1, <2>3 DEF NULL
    <3>2. a.rxBuffer # NULL
      BY Zenon, <2>1, <2>3, <3>1
    <3>3. TxHead(b, h) \in Nat /\ RxHead(b, w, h) = TxHead(b, h) + R
      BY Zenon, <1>1, <2>3
    <3>4. arx = R /\ brx = 0
      BY Zenon, <2>3, <3>2
    <3>5. \A x \in Nat : (x + R) - x <= R - 0
      BY <1>0
    <3> QED BY Zenon, <3>3, <3>4, <3>5
  <2>4. CASE ~(w.rx > 0 /\ b.rxBuffer = NULL)
    <3>1. a.rxBuffer = b.rxBuffer /\ RxHead(b, w, h) = TxHead(b, h)
      BY Zenon, <1>1, <2>1, <2>4
    <3>2. arx = brx
      BY Zenon, <3>1
    <3> QED BY <1>1, <1>5, <3>1, <3>2
  <2> QED BY <2>3, <2>4
<1>8. PICK an, am : an = Len(a.observers) /\ am = Cardinality(Simple(a))
  OBVIOUS
<1>9. an \in Nat /\ am \in Nat
  BY <1>0, <1>2, <1>8
<1>10. h - b.head <= 23 * (am - m)
  <2>1. CASE w.simple
    <3>1. am = m + 1 /\ h <= b.head + 23
      BY Zenon, <1>1, <1>2, <1>8, <2>1
    <3>2. h \in Nat /\ b.head \in Nat
      BY Zenon, <1>1
    <3> QED BY <1>0, <3>1, <3>2, HeadOfObject
  <2>2. CASE ~w.simple
    <3>1. am = m /\ h = b.head
      BY Zenon, <1>1, <1>2, <1>8, <2>2
    <3>2. h \in Nat /\ b.head \in Nat
      BY Zenon, <1>1
    <3> QED BY <1>0, <3>1, <3>2, HeadOfObject
  <2> QED BY <2>1, <2>2
<1>11. NodeHead(b, w, h) - RxHead(b, w, h) <= 39 * (an - n)
  <2>1. CASE w.rx > 0
    <3>1. an = n + 1 /\ NodeHead(b, w, h) <= RxHead(b, w, h) + 39
      BY Zenon, <1>1, <1>2, <1>8, <2>1
    <3>2. NodeHead(b, w, h) \in Nat /\ RxHead(b, w, h) \in Nat
      BY Zenon, <1>1
    <3> QED BY <1>0, <3>1, <3>2, HeadOfObject
  <2>2. CASE ~(w.rx > 0)
    <3>1. an = n /\ NodeHead(b, w, h) = RxHead(b, w, h)
      BY Zenon, <1>1, <1>2, <1>8, <2>2
    <3>2. NodeHead(b, w, h) \in Nat /\ RxHead(b, w, h) \in Nat
      BY Zenon, <1>1
    <3> QED BY <1>0, <3>1, <3>2, HeadOfObject
  <2> QED BY <2>1, <2>2
<1>12. /\ btx + brx + 39 * n + 23 * m \in Nat /\ atx + arx + 39 * an + 23 * am \in Nat
       /\ NodeHead(b, w, h) - b.head <= (atx + arx + 39 * an + 23 * am) - (btx + brx + 39 * n + 23 * m)
  <2>1. PICK p, q, k, e : p = TxHead(b, h) /\ q = RxHead(b, w, h) /\ k = NodeHead(b, w, h) /\ e = b.head
    OBVIOUS
  <2>2. /\ e \in Nat /\ h \in Nat /\ p \in Nat /\ q \in Nat /\ k \in Nat
        /\ h - e <= 23 * (am - m) /\ p - h <= atx - btx /\ q - p <= arx - brx /\ k - q <= 39 * (an - n)
    BY Zenon, <1>1, <1>6, <1>7, <1>10, <1>11, <2>1
  <2>3. /\ btx + brx + 39 * n + 23 * m \in Nat /\ atx + arx + 39 * an + 23 * am \in Nat
        /\ k - e <= (atx + arx + 39 * an + 23 * am) - (btx + brx + 39 * n + 23 * m)
    <3>1. Rises(e, h, p, q, k, btx, brx, atx, arx, n, m, an, am)
      BY Zenon, <1>0, <1>5, <1>9, <2>2 DEF Rises
    <3> QED BY <3>1, SumOfHeads
  <2> QED BY Zenon, <2>1, <2>3
<1> QED BY ZenonT(60), <1>3, <1>4, <1>8, <1>12

(* What the pool of buffer b is like after f failures.                     *)
Arena(b, f) ==
  /\ Fit(LiveBlocks(b), b.head)
  /\ \A x \in Objects(b) : x.at % Align = 0
  /\ b.head <= maxTxBufferBytes * f + LiveBytes(b)
  /\ Len(b.observers) <= b.rxNumBytes

LEMMA AppendArena ==
  ASSUME scenario \in Scenarios, extrasHead \in Nat, NEW b \in Buffers, NEW w \in WriteCommands,
         w.simple => w.rx > 0, NEW f \in Nat, Arena(b, f)
  PROVE  Arena(ft_buffer_append(b, w), f)
<1> PICK a, h : a = ft_buffer_append(b, w) /\ h = ExtraHead(b, w)
  OBVIOUS
<1>1. a.head = NodeHead(b, w, h) /\ a.rxNumBytes = b.rxNumBytes + w.rx
  BY Zenon, AppendFields
<1>2. Fit(LiveBlocks(a), a.head)
  <2>1. Fit(WithNode(b, w, h), NodeHead(b, w, h))
    BY Zenon, NewBlocksFit DEF Arena
  <2>2. LiveBlocks(a) \subseteq WithNode(b, w, h)
    BY Zenon, AppendBlocks
  <2> QED BY Zenon, <1>1, <2>1, <2>2, FewerFit
<1>3. ASSUME NEW x \in Objects(a) PROVE x.at % Align = 0
  <2>1. x \in Objects(b) \/ (w.rx > 0 /\ x = NewNode(b, w, h)) \/ (w.simple /\ x = NewExtra(b, h))
    BY Zenon, AppendObjects
  <2>2. /\ w.simple => (h - 16) % 8 = 0
        /\ w.rx > 0 => (NodeHead(b, w, h) - 32) % 8 = 0
    BY AppendHeads
  <2>3. NewNode(b, w, h).at = NodeHead(b, w, h) - 32 /\ NewExtra(b, h).at = h - 16
    BY DEF NewNode, NewExtra, Block, NodeSz, ByteExtraSz
  <2>4. x \in Objects(b) => x.at % Align = 0
    BY Zenon DEF Arena
  <2> QED BY Zenon, <2>1, <2>2, <2>3, <2>4 DEF Align
<1>4. a.head <= maxTxBufferBytes * f + LiveBytes(a)
  <2>1. LiveBytes(b) \in Nat /\ LiveBytes(a) \in Nat /\ NodeHead(b, w, h) - b.head <= LiveBytes(a) - LiveBytes(b)
    BY Zenon, AppendBytes
  <2>2. PICK g, top, k, lb, la : /\ g = b.head /\ top = NodeHead(b, w, h) /\ k = maxTxBufferBytes * f
                                 /\ lb = LiveBytes(b) /\ la = LiveBytes(a)
    OBVIOUS
  <2>3. g \in Nat /\ top \in Nat /\ k \in Nat /\ g <= k + lb
    <3>1. maxTxBufferBytes \in Nat
      BY ScenarioFacts
    <3>2. maxTxBufferBytes * f \in Nat
      BY <3>1
    <3>3. b.head \in Nat /\ NodeHead(b, w, h) \in Nat
      BY Zenon, AppendHeads
    <3> QED BY Zenon, <2>2, <3>2, <3>3 DEF Arena
  <2>4. top <= k + la
    BY <2>1, <2>2, <2>3
  <2> QED BY Zenon, <1>1, <2>2, <2>4
<1>5. Len(a.observers) <= a.rxNumBytes
  <2>1. PICK n : n = Len(b.observers)
    OBVIOUS
  <2>2. n \in Nat /\ Len(a.observers) = IF w.rx > 0 THEN n + 1 ELSE n
    BY <2>1, AppendObservers
  <2>3. w.rx \in Nat /\ b.rxNumBytes \in Nat /\ n <= b.rxNumBytes
    BY <2>1 DEF WriteCommands, Buffers, Arena
  <2> QED BY <1>1, <2>2, <2>3
<1> QED BY Zenon, <1>2, <1>3, <1>4, <1>5 DEF Arena

(* txvc_mempool_reclaim_all(): there is nothing in it.                     *)
LEMMA EmptyArena ==
  ASSUME scenario \in Scenarios, NEW f \in Nat
  PROVE  Arena(EmptyBuffer, f)
<1>1. EmptyBuffer.txBuffer = NULL /\ EmptyBuffer.rxBuffer = NULL /\ EmptyBuffer.head = 0
      /\ Len(EmptyBuffer.observers) = 0 /\ EmptyBuffer.rxNumBytes = 0
  BY DEF EmptyBuffer, reclaim_all
<1>2. Simple(EmptyBuffer) = {} /\ Objects(EmptyBuffer) = {} /\ LiveBlocks(EmptyBuffer) = {}
  <2>1. 1..Len(EmptyBuffer.observers) = {}
    BY <1>1
  <2>2. Simple(EmptyBuffer) = {}
    BY Zenon, <2>1 DEF Simple
  <2>3. Objects(EmptyBuffer) = {}
    BY Zenon, <2>1, <2>2 DEF Objects
  <2> QED BY Zenon, <1>1, <2>2, <2>3 DEF LiveBlocks
<1>3. Fit(LiveBlocks(EmptyBuffer), EmptyBuffer.head)
  BY <1>1, <1>2 DEF Fit, Packed
<1>4. EmptyBuffer.head <= maxTxBufferBytes * f + LiveBytes(EmptyBuffer)
  <2>1. Cardinality(Simple(EmptyBuffer)) = 0
    BY <1>2, FS_EmptySet
  <2>2. LiveBytes(EmptyBuffer) = 0
    BY <1>1, <2>1 DEF LiveBytes, NodeSz, ByteExtraSz, Align
  <2>3. maxTxBufferBytes \in Nat
    BY ScenarioFacts
  <2>4. maxTxBufferBytes * f \in Nat
    BY <2>3
  <2> QED BY <1>1, <2>2, <2>4
<1>5. Len(EmptyBuffer.observers) <= EmptyBuffer.rxNumBytes
  BY <1>1
<1> QED BY Zenon, <1>2, <1>3, <1>4, <1>5 DEF Arena

(* A flush that failed may leave a TX buffer that is used by nothing.      *)
LEMMA OneMore ==
  ASSUME NEW T \in Nat, NEW f \in Nat
  PROVE  T * f \in Nat /\ T * (f + 1) = T * f + T
OBVIOUS

(* Live bytes before and after, of which only the TX buffer's differ.      *)
SameButTx(lb, ll, T, btx, ltx, rx, n, m) ==
  /\ T \in Nat /\ rx \in Nat /\ n \in Nat /\ m \in Nat /\ btx \in {0, T} /\ ltx \in {0, T}
  /\ lb = btx + rx + 39 * n + 23 * m /\ ll = ltx + rx + 39 * n + 23 * m

LEMMA OneLess ==
  ASSUME NEW lb, NEW ll, NEW T, NEW btx, NEW ltx, NEW rx, NEW n, NEW m,
         SameButTx(lb, ll, T, btx, ltx, rx, n, m)
  PROVE  lb \in Nat /\ ll \in Nat /\ lb <= ll + T
BY DEF SameButTx

LEMMA FailedArena ==
  ASSUME scenario \in Scenarios, NEW b \in Buffers, NEW f \in Nat, Arena(b, f),
         NEW left, left = b \/ left = [b EXCEPT !.tx = <<>>, !.txNumBytes = 0, !.txBuffer = NULL]
  PROVE  Arena(left, f + 1)
<1> PICK T, k, lb, ll : T = maxTxBufferBytes /\ k = T * f /\ lb = LiveBytes(b) /\ ll = LiveBytes(left)
  OBVIOUS
<1>1. T \in Nat /\ k \in Nat /\ T * (f + 1) = k + T
  BY ScenarioFacts, OneMore
<1>2. /\ left.head = b.head /\ left.observers = b.observers /\ left.rxBuffer = b.rxBuffer
      /\ left.rxNumBytes = b.rxNumBytes /\ left.txBuffer \in {b.txBuffer, NULL}
  BY DEF Buffers
<1>3. Simple(left) = Simple(b) /\ Objects(left) = Objects(b)
  BY Zenon, <1>2 DEF Simple, Objects
<1>4. Fit(LiveBlocks(left), left.head)
  <2>1. LiveBlocks(left) \subseteq LiveBlocks(b)
    BY <1>2, <1>3 DEF LiveBlocks
  <2> QED BY Zenon, <1>2, <2>1, FewerFit DEF Arena
<1>5. left.head <= T * (f + 1) + ll
  <2> PICK btx, ltx, rx, n, m :
           /\ btx = IF b.txBuffer = NULL THEN 0 ELSE T
           /\ ltx = IF left.txBuffer = NULL THEN 0 ELSE T
           /\ rx = IF b.rxBuffer = NULL THEN 0 ELSE maxRxBufferBytes
           /\ n = Len(b.observers) /\ m = Cardinality(Simple(b))
    OBVIOUS
  <2>1. n \in Nat /\ m \in Nat /\ rx \in Nat /\ btx \in {0, T} /\ ltx \in {0, T}
    BY ScenarioFacts, SimpleFinite
  <2>2. lb = btx + rx + 39 * n + 23 * m
    BY <2>1 DEF LiveBytes, NodeSz, ByteExtraSz, Align
  <2>3. ll = ltx + rx + 39 * n + 23 * m
    BY <1>2, <1>3, <2>1 DEF LiveBytes, NodeSz, ByteExtraSz, Align
  <2>4. b.head \in Nat /\ b.head <= k + lb
    BY Zenon DEF Arena, Fit
  <2>5. b.head <= k + T + ll
    <3>1. T \in Nat /\ k \in Nat
      BY Zenon, <1>1
    <3>2. lb \in Nat /\ ll \in Nat /\ lb <= ll + T
      <4>1. SameButTx(lb, ll, T, btx, ltx, rx, n, m)
        BY Zenon, <2>1, <2>2, <2>3, <3>1 DEF SameButTx
      <4> QED BY <4>1, OneLess
    <3> QED BY SMTT(30), <2>4, <3>1, <3>2
  <2> QED BY Zenon, <1>1, <1>2, <2>5
<1> QED BY Zenon, <1>2, <1>3, <1>4, <1>5 DEF Arena

(* How a step changes the buffer: not at all, by an append to it or to an  *)
(* empty one, to the empty one, or by a failed flush.                      *)
Left(b, left) == left = b \/ left = [b EXCEPT !.tx = <<>>, !.txNumBytes = 0, !.txBuffer = NULL]

Appends ==
  /\ failures' = failures
  /\ \E b \in {buf, EmptyBuffer}, w \in WriteCommands : (w.simple => w.rx > 0) /\ buf' = ft_buffer_append(b, w)

Moves ==
  \/ buf' = buf /\ failures' = failures
  \/ Appends
  \/ buf' = EmptyBuffer /\ failures' = failures
  \/ Left(buf, buf') /\ failures' = failures + 1

LEMMA FlushMoves ==
  ASSUME IndInv, NEW o \in ft_buffer_flush, Flush(o), buf' = o.buf
  PROVE  Moves
<1>0. chip \in Chips /\ buf \in Buffers /\ extras \in Seq(Extras)
  BY DEF IndInv, TypeOK
<1>1. CASE o.ok
  <2>1. ObserversFit
    BY DEF IndInv, BufferHolds, ObserverHolds, ObserversFit
  <2>2. o.buf = EmptyBuffer
    BY Zenon, <1>0, <1>1, <2>1, FlushWorked
  <2> QED BY Zenon, <1>1, <2>2 DEF Moves, Flush
<1>2. CASE ~o.ok
  <2>1. o \in WriteFails \/ o \in ReadFails
    <3>1. ~(o \in Exchanged)
      BY <1>2 DEF Exchanged
    <3> QED BY Zenon, <3>1 DEF ft_buffer_flush
  <2>2. Left(buf, o.buf)
    <3>1. CASE o \in WriteFails
      BY <3>1 DEF WriteFails, Left
    <3>2. CASE o \in ReadFails
      <4> DEFINE left == [buf EXCEPT !.tx = <<>>, !.txNumBytes = 0, !.txBuffer = NULL]
      <4>1. PICK c : o = [ok |-> FALSE, buf |-> left, copies |-> <<>>, chip |-> c]
        BY <3>2 DEF ReadFails
      <4> HIDE DEF left
      <4>2. o.buf = left
        BY <4>1
      <4> QED BY Zenon, <4>2 DEF Left, left
    <3> QED BY <2>1, <3>1, <3>2
  <2> QED BY Zenon, <1>2, <2>2 DEF Moves, Flush
<1> QED BY <1>1, <1>2

LEMMA AddMoves ==
  ASSUME IndInv, IndInv', NEW w, w.simple => w.rx > 0, Appended(w) \/ FlushFails
  PROVE  Moves
<1>0. buf' \in Buffers /\ buf \in Buffers /\ chip \in Chips /\ extras \in Seq(Extras)
  BY DEF IndInv, TypeOK
<1>1. CASE FlushFails
  <2>1. PICK o \in ft_buffer_flush : Flush(o) /\ buf' = o.buf
    BY Zenon, <1>1 DEF FlushFails
  <2> QED BY Zenon, <2>1, FlushMoves
<1>2. CASE Appended(w)
  <2>1. failures' = failures /\ \E b \in {buf, EmptyBuffer} : buf' = ft_buffer_append(b, w)
    <3>1. CASE ~shouldFlush(w)
      BY Zenon, <1>2, <3>1 DEF Appended
    <3>2. CASE shouldFlush(w)
      <4>1. PICK o \in ft_buffer_flush : o.ok /\ Flush(o) /\ buf' = ft_buffer_append(o.buf, w)
        BY Zenon, <1>2, <3>2 DEF Appended
      <4>2. ObserversFit
        BY DEF IndInv, BufferHolds, ObserverHolds, ObserversFit
      <4>3. o.buf = EmptyBuffer
        BY Zenon, <1>0, <4>1, <4>2, FlushWorked
      <4> QED BY Zenon, <4>1, <4>3 DEF Flush
    <3> QED BY <3>1, <3>2
  <2>2. PICK b \in {buf, EmptyBuffer} : buf' = ft_buffer_append(b, w)
    BY Zenon, <2>1
  <2>3. w \in WriteCommands
    <3>1. b.tx \in Seq(WriteCommands) /\ buf'.tx \in Seq(WriteCommands)
      BY <1>0, EmptyTyped DEF Buffers
    <3>2. buf'.tx = Append(b.tx, w)
      <4> DEFINE h == ExtraHead(b, w)
      <4> HIDE DEF h
      <4>1. buf' = AppendWith(b, w, h)
        BY Zenon, <2>2 DEF ft_buffer_append, h
      <4> QED BY <4>1 DEF AppendWith
    <3>3. Len(b.tx) + 1 \in 1..Len(buf'.tx) /\ buf'.tx[Len(b.tx) + 1] = w
      BY <3>1, <3>2
    <3> QED BY <3>1, <3>3
  <2> QED BY Zenon, <2>1, <2>2, <2>3 DEF Moves, Appends
<1> QED BY <1>1, <1>2

(* Commands that are not _simple.                                          *)
LEMMA PlainWrites ==
  /\ tmsWrite.simple = FALSE /\ innerWrite.simple = FALSE /\ divisorWrite.simple = FALSE
  /\ \A n : bitsWrite(n).simple = FALSE
  /\ syncWrite.rx = 2
  /\ payloadWrite.rx = innerOctetsToSend
BY DEF tmsWrite, innerWrite, divisorWrite, bitsWrite, syncWrite, payloadWrite, Command

LEMMA BitsMove ==
  ASSUME IndInv, IndInv', NEW n, NEW tdi, append_bits(n, tdi)
  PROVE  Moves
<1> PICK w : w = bitsWrite(n)
  OBVIOUS
<1>1. w.simple => w.rx > 0
  BY Zenon, PlainWrites
<1>2. AddWrite(w, HandedOver(curIdx + n, tdi))
  BY Zenon DEF append_bits
<1>3. Appended(w) \/ FlushFails
  BY Zenon, <1>2 DEF AddWrite, Appended, FlushFails
<1> QED BY Zenon, <1>1, <1>3, AddMoves

LEMMA CallMoves ==
  ASSUME IndInv, IndInv', CallStep
  PROVE  Moves
<1>1. CASE append_tms
  <2> PICK w : w = tmsWrite
    OBVIOUS
  <2>1. w.simple => w.rx > 0
    BY Zenon, PlainWrites
  <2>2. AddWrite(w, HandedOver(curIdx + bitsToTransfer, lastTdi))
    BY Zenon, <1>1 DEF append_tms
  <2>3. Appended(w) \/ FlushFails
    BY Zenon, <2>2 DEF AddWrite, Appended, FlushFails
  <2> QED BY Zenon, <2>1, <2>3, AddMoves
<1>2. CASE append_tdi_leading \/ append_tdi_trailing \/ append_tdi_last
  BY Zenon, <1>2, BitsMove DEF append_tdi_leading, append_tdi_trailing, append_tdi_last
<1>3. CASE append_tdi_inner
  <2> PICK w : w = innerWrite
    OBVIOUS
  <2>1. w.simple => w.rx > 0
    BY Zenon, PlainWrites
  <2>2. AddWrite(w, pc' = "payload" /\ UNCHANGED <<events, curIdx, lastTdi>>)
    BY Zenon, <1>3 DEF append_tdi_inner
  <2>3. Appended(w) \/ FlushFails
    BY Zenon, <2>2 DEF AddWrite, Appended, FlushFails
  <2> QED BY Zenon, <2>1, <2>3, AddMoves
<1>4. CASE append_tdi_payload
  <2> PICK w : w = payloadWrite
    OBVIOUS
  <2>1. w.rx > 0
    <3>1. TypeOK /\ Progress /\ pc = "payload"
      BY Zenon, <1>4 DEF IndInv, append_tdi_payload
    <3>2. innerOctetsToSend \in Nat \ {0}
      BY Zenon, <3>1, PayloadOctets
    <3> QED BY <3>2, PlainWrites
  <2>2. AddWrite(w, HandedOver(curIdx + 8 * innerOctetsToSend, lastTdi))
    BY Zenon, <1>4 DEF append_tdi_payload
  <2>3. Appended(w) \/ FlushFails
    BY Zenon, <2>2 DEF AddWrite, Appended, FlushFails
  <2> QED BY Zenon, <2>1, <2>3, AddMoves
<1>5. CASE add_divisor
  <2> PICK w : w = divisorWrite
    OBVIOUS
  <2>1. w.simple => w.rx > 0
    BY Zenon, PlainWrites
  <2>2. AddWrite(w, HandedOver(event.to, lastTdi))
    BY Zenon, <1>5 DEF add_divisor
  <2>3. Appended(w) \/ FlushFails
    BY Zenon, <2>2 DEF AddWrite, Appended, FlushFails
  <2> QED BY Zenon, <2>1, <2>3, AddMoves
<1>6. CASE add_sync
  <2> PICK w : w = syncWrite
    OBVIOUS
  <2>1. w.rx > 0
    BY PlainWrites
  <2>2. AddWrite(w, HandedOver(event.to, lastTdi))
    BY Zenon, <1>6 DEF add_sync
  <2>3. Appended(w) \/ FlushFails
    BY Zenon, <2>2 DEF AddWrite, Appended, FlushFails
  <2> QED BY Zenon, <2>1, <2>3, AddMoves
<1>7. CASE flush_all \/ check_device_in_sync \/ ft_buffer_deinit
  <2>1. PICK o \in ft_buffer_flush : Flush(o) /\ buf' = o.buf
    BY Zenon, <1>7 DEF flush_all, check_device_in_sync, ft_buffer_deinit
  <2> QED BY Zenon, <2>1, FlushMoves
<1>8. CASE fatal_oom
  BY Zenon, <1>8 DEF fatal_oom, Moves
<1> QED BY Zenon, <1>1, <1>2, <1>3, <1>4, <1>5, <1>6, <1>7, <1>8 DEF CallStep

(* The scenario stays, and the buffer moves so in every step.              *)
LEMMA NextMoves ==
  ASSUME IndInv, IndInv', [Next]_vars
  PROVE  scenario' = scenario /\ Moves
<1>1. CASE CallStep
  <2>1. scenario' = scenario
    BY Zenon, <1>1 DEF CallStep, append_tms, append_tdi_leading, append_tdi_inner, append_tdi_payload,
       append_tdi_trailing, append_tdi_last, append_bits, flush_all, add_divisor, add_sync, check_device_in_sync,
       ft_buffer_deinit, fatal_oom, AddWrite, callVars
  <2> QED BY Zenon, <1>1, <2>1, CallMoves
<1>2. CASE DriverCall
  BY Zenon, <1>2 DEF DriverCall, shift_bits, set_tck_period, deactivate, Begin, Moves
<1>3. CASE UNCHANGED vars
  BY Zenon, <1>3 DEF vars, callVars, Moves
<1> QED BY Zenon, <1>1, <1>2, <1>3 DEF Next

(* The pool is part of the inductive invariant.                            *)
PoolInv == IndInv /\ Arena(buf, failures)

LEMMA PoolKept ==
  ASSUME PoolInv, IndInv', [Next]_vars
  PROVE  PoolInv'
<1>0. IndInv /\ scenario \in Scenarios /\ extrasHead \in Nat /\ buf \in Buffers /\ failures \in Nat
      /\ Arena(buf, failures)
  BY DEF PoolInv, IndInv, TypeOK
<1>1. scenario' = scenario /\ Moves
  BY Zenon, <1>0, NextMoves
<1>2. ASSUME NEW b, NEW f, Arena(b, f) PROVE Arena(b, f)'
  <2>1. maxTxBufferBytes' = maxTxBufferBytes /\ maxRxBufferBytes' = maxRxBufferBytes
    BY Zenon, <1>1 DEF maxTxBufferBytes, maxRxBufferBytes, chipBufferBytes
  <2>2. LiveBlocks(b)' = LiveBlocks(b)
    BY Zenon, <2>1 DEF LiveBlocks
  <2>3. LiveBytes(b)' = LiveBytes(b)
    BY Zenon, <2>1 DEF LiveBytes
  <2> QED BY Zenon, <1>2, <2>1, <2>2, <2>3 DEF Arena
<1>3. PICK b, f : b = buf' /\ f = failures'
  OBVIOUS
<1>4. Arena(b, f)
  <2>1. CASE buf' = buf /\ failures' = failures
    BY Zenon, <1>0, <1>3, <2>1
  <2>2. CASE Appends
    <3>1. PICK d \in {buf, EmptyBuffer}, w \in WriteCommands :
            (w.simple => w.rx > 0) /\ buf' = ft_buffer_append(d, w)
      BY Zenon, <2>2 DEF Appends
    <3>2. PICK e : e = failures
      OBVIOUS
    <3>3. d \in Buffers /\ e \in Nat /\ Arena(d, e)
      BY Zenon, <1>0, <3>2, EmptyTyped, EmptyArena
    <3>4. Arena(ft_buffer_append(d, w), e)
      BY Zenon, <1>0, <3>1, <3>3, AppendArena
    <3> QED BY Zenon, <1>3, <2>2, <3>1, <3>2, <3>4 DEF Appends
  <2>3. CASE buf' = EmptyBuffer /\ failures' = failures
    BY Zenon, <1>0, <1>3, <2>3, EmptyArena
  <2>4. CASE Left(buf, buf') /\ failures' = failures + 1
    <3>1. PICK d, e : d = buf /\ e = failures
      OBVIOUS
    <3>2. d \in Buffers /\ e \in Nat /\ Arena(d, e) /\ Left(d, b) /\ f = e + 1
      BY Zenon, <1>0, <1>3, <2>4, <3>1
    <3> QED BY Zenon, <1>0, <3>2, FailedArena DEF Left
  <2> QED BY Zenon, <1>1, <2>1, <2>2, <2>3, <2>4 DEF Moves
<1>5. Arena(buf, failures)'
  BY Zenon, <1>2, <1>3, <1>4
<1> QED BY Zenon, <1>5 DEF PoolInv

LEMMA PoolAlways == Spec => []PoolInv
<1>1. Init => PoolInv
  <2> SUFFICES ASSUME Init PROVE PoolInv
    OBVIOUS
  <2>1. IndInv
    BY Zenon, InitHolds
  <2>2. scenario \in Scenarios /\ buf = EmptyBuffer /\ failures \in Nat
    BY DEF Init
  <2> QED BY Zenon, <2>1, <2>2, EmptyArena DEF PoolInv
<1>2. PoolInv /\ IndInv' /\ [Next]_vars => PoolInv'
  BY Zenon, PoolKept
<1> QED BY <1>1, <1>2, Invariance, PTL DEF Spec

(***************************************************************************)
(* Whatever was appended, flushed, reclaimed or left over by a failed      *)
(* flush, what the command buffer points to in its pool lies apart,        *)
(* aligned and below the head, and no more than one TX buffer per failure  *)
(* is lost (ftdi_generic.c:301, mempool.c:53), for every chip and request. *)
(***************************************************************************)
THEOREM BlocksLieApart == Spec => []LiveBlocksApart
<1>1. ASSUME PoolInv PROVE LiveBlocksApart
  <2>1. Arena(buf, failures) /\ BufferHolds
    BY Zenon, <1>1 DEF PoolInv, IndInv
  <2>2. \A live \in {LiveBlocks(buf)} : Packed(live, buf.head)
    BY Zenon, <2>1 DEF Arena, Fit
  <2> QED BY Zenon, <2>1, <2>2 DEF LiveBlocksApart, Arena, BufferHolds
<1> QED BY <1>1, PoolAlways, PTL

-----------------------------------------------------------------------------
(* How large the pool has to be.                                           *)

(* The command that is added next, whichever it is.                        *)
LEMMA NextWrites ==
  ASSUME Writing
  PROVE  \/ Handling({"tms", "reset"}) /\ nextWrite = tmsWrite
         \/ nextWrite = bitsWrite(1)
         \/ AtInner /\ nextWrite = innerWrite
         \/ pc = "payload" /\ nextWrite = payloadWrite
         \/ nextWrite = divisorWrite
         \/ nextWrite = syncWrite
BY DEF nextWrite

LEMMA NextWriteSized ==
  ASSUME IndInv, Writing, NEW w, w = nextWrite
  PROVE  w \in WriteCommands /\ (w.simple => w.rx > 0) /\ w.rx <= maxRxBufferBytes
<1>0. TypeOK /\ Progress /\ FailureKept
  BY Zenon DEF IndInv
<1>1. /\ curIdx \in Nat /\ lastTdi \in Nat \X Nat /\ req \in Nat
      /\ chipBufferBytes \in Nat /\ chipBufferBytes >= 4 /\ maxRxBufferBytes = chipBufferBytes
  BY Zenon, <1>0, NumbersTyped
<1> PICK at, tdi, r, C : at = curIdx /\ tdi = lastTdi /\ r = req /\ C = chipBufferBytes
  OBVIOUS
<1>2. at \in Nat /\ tdi \in Nat \X Nat /\ r \in Nat /\ C \in Nat /\ C >= 4 /\ maxRxBufferBytes = C
  BY Zenon, <1>1
<1>3. ASSUME NEW kind, NEW n \in Nat, NEW tx \in Nat, NEW rx \in Nat, NEW simple \in BOOLEAN,
             w = Command(kind, n, tx, rx, simple), rx <= C, simple => rx > 0,
             kind \in {"tms", "bits", "octets", "payload", "reset", "divisor", "sync"},
             kind = "bits" => n \in 1..8
      PROVE  w \in WriteCommands /\ (w.simple => w.rx > 0) /\ w.rx <= maxRxBufferBytes
  <2>1. w = [kind |-> kind, req |-> r, from |-> at, n |-> n, tdi |-> tdi, tx |-> tx, rx |-> rx, simple |-> simple]
    BY Zenon, <1>3 DEF Command
  <2>2. w \in WriteCommands
    BY <1>2, <1>3, <2>1 DEF WriteCommands
  <2>3. w.rx = rx /\ w.simple = simple
    BY <2>1
  <2> QED BY Zenon, <1>2, <1>3, <2>2, <2>3
<1>4. CASE Handling({"tms", "reset"}) /\ w = tmsWrite
  <2>1. InCall /\ events # <<>> /\ pc = "event" /\ event.kind \in {"tms", "reset"}
    BY <1>4 DEF Handling, InCall
  <2>2. event.to \in Nat /\ curIdx < event.to
    BY <1>0, <2>1, Kinds DEF Progress
  <2>3. bitsToTransfer \in Nat
    BY <1>1, <2>2 DEF bitsToTransfer, min, maxTmsBitsPerCommand
  <2>4. w = Command(event.kind, bitsToTransfer, 3, 0, FALSE)
    BY Zenon, <1>4 DEF tmsWrite
  <2>5. 3 \in Nat /\ 0 \in Nat /\ 0 <= C /\ event.kind # "bits"
        /\ event.kind \in {"tms", "bits", "octets", "payload", "reset", "divisor", "sync"}
    BY <1>2, <2>1
  <2> QED BY Zenon, <1>3, <2>3, <2>4, <2>5
<1>5. CASE w = bitsWrite(1)
  <2>1. w = Command("bits", 1, 3, 1, FALSE)
    BY Zenon, <1>5 DEF bitsWrite
  <2>2. 3 \in Nat /\ 1 \in Nat /\ 1 <= C /\ 1 \in 1..8
        /\ "bits" \in {"tms", "bits", "octets", "payload", "reset", "divisor", "sync"}
    BY <1>2
  <2> QED BY Zenon, <1>3, <2>1, <2>2
<1>6. CASE AtInner /\ w = innerWrite
  <2>1. innerOctetsToSend \in Nat
    BY Zenon, <1>0, <1>6, InnerCut
  <2>2. w = Command("octets", innerOctetsToSend, 3, 0, FALSE)
    BY Zenon, <1>6 DEF innerWrite
  <2>3. 3 \in Nat /\ 0 \in Nat /\ 0 <= C /\ "octets" # "bits"
        /\ "octets" \in {"tms", "bits", "octets", "payload", "reset", "divisor", "sync"}
    BY <1>2
  <2> QED BY Zenon, <1>3, <2>1, <2>2, <2>3
<1>7. CASE pc = "payload" /\ w = payloadWrite
  <2>1. innerOctetsToSend \in Nat \ {0} /\ innerOctetsToSend <= C
    BY Zenon, <1>0, <1>7, PayloadOctets
  <2>2. innerOctetsToSend \in Nat /\ innerOctetsToSend > 0
    BY <2>1
  <2>3. w = Command("payload", innerOctetsToSend, innerOctetsToSend, innerOctetsToSend, TRUE)
    BY Zenon, <1>7 DEF payloadWrite
  <2>4. "payload" # "bits" /\ "payload" \in {"tms", "bits", "octets", "payload", "reset", "divisor", "sync"}
    OBVIOUS
  <2> QED BY Zenon, <1>3, <2>1, <2>2, <2>3, <2>4
<1>8. CASE w = divisorWrite
  <2>1. w = Command("divisor", 0, 4, 0, FALSE)
    BY Zenon, <1>8 DEF divisorWrite
  <2>2. 4 \in Nat /\ 0 \in Nat /\ 0 <= C /\ "divisor" # "bits"
        /\ "divisor" \in {"tms", "bits", "octets", "payload", "reset", "divisor", "sync"}
    BY <1>2
  <2> QED BY Zenon, <1>3, <2>1, <2>2
<1>9. CASE w = syncWrite
  <2>1. w = Command("sync", 0, 1, 2, TRUE)
    BY Zenon, <1>9 DEF syncWrite
  <2>2. 0 \in Nat /\ 1 \in Nat /\ 2 \in Nat /\ 2 > 0 /\ 2 <= C /\ "sync" # "bits"
        /\ "sync" \in {"tms", "bits", "octets", "payload", "reset", "divisor", "sync"}
    BY <1>2
  <2> QED BY Zenon, <1>3, <2>1, <2>2
<1> QED BY Zenon, <1>4, <1>5, <1>6, <1>7, <1>8, <1>9, NextWrites

(* A full buffer takes no more than 66 times the chip's.                   *)
Holding(c, tx, rx, n, m) == c \in Nat /\ tx \in {0, 3 * c} /\ rx \in {0, c} /\ n \in 0..c /\ m \in 0..n

LEMMA HoldingBound ==
  ASSUME NEW c, NEW tx, NEW rx, NEW n, NEW m, Holding(c, tx, rx, n, m)
  PROVE  tx + rx + 39 * n + 23 * m \in Nat /\ tx + rx + 39 * n + 23 * m <= 66 * c
BY DEF Holding

LEMMA LiveBytesBound ==
  ASSUME scenario \in Scenarios, NEW b \in Buffers, Len(b.observers) <= b.rxNumBytes,
         b.rxNumBytes <= maxRxBufferBytes
  PROVE  LiveBytes(b) \in Nat /\ LiveBytes(b) <= 66 * chipBufferBytes
<1> PICK C, tx, rx, n, m :
         /\ C = chipBufferBytes /\ n = Len(b.observers) /\ m = Cardinality(Simple(b))
         /\ tx = IF b.txBuffer = NULL THEN 0 ELSE maxTxBufferBytes
         /\ rx = IF b.rxBuffer = NULL THEN 0 ELSE maxRxBufferBytes
  OBVIOUS
<1>1. C \in Nat /\ maxTxBufferBytes = 3 * C /\ maxRxBufferBytes = C
  BY ScenarioFacts
<1>2. n \in Nat /\ m \in Nat /\ m <= n
  BY SimpleFinite
<1>3. b.rxNumBytes \in Nat
  BY DEF Buffers
<1>4. n <= C
  BY <1>1, <1>2, <1>3
<1>5. tx \in {0, 3 * C} /\ rx \in {0, C}
  BY Zenon, <1>1
<1>6. LiveBytes(b) = tx + rx + 39 * n + 23 * m
  BY <1>1, <1>2, <1>5 DEF LiveBytes, NodeSz, ByteExtraSz, Align
<1>7. n \in 0..C /\ m \in 0..n
  BY <1>1, <1>2, <1>4
<1>8. Holding(C, tx, rx, n, m)
  BY Zenon, <1>1, <1>5, <1>7 DEF Holding
<1>9. tx + rx + 39 * n + 23 * m \in Nat /\ tx + rx + 39 * n + 23 * m <= 66 * C
  BY <1>8, HoldingBound
<1> QED BY Zenon, <1>6, <1>9

(* Room for a full buffer, and for a TX buffer lost with every failure.    *)
PoolIsLarge == 66 * chipBufferBytes + maxTxBufferBytes * failures <= scenario.poolBytes

(***************************************************************************)
(* A pool of 66 times the chip's buffer never runs out as long as it also  *)
(* holds a TX buffer for every D2XX call that failed: 128 KiB are enough   *)
(* for the 1 KiB of an FT232H and twenty failures (ftdi_generic.c:237).    *)
(***************************************************************************)
THEOREM LargePoolSuffices == Spec => [](PoolIsLarge => CommandPoolSuffices)
<1>1. ASSUME PoolInv, PoolIsLarge PROVE CommandPoolSuffices
  <2> SUFFICES ASSUME Writing PROVE PoolFits(nextWrite)
    BY Zenon DEF CommandPoolSuffices, CommandPoolExhausted
  <2>0. IndInv /\ scenario \in Scenarios /\ extrasHead \in Nat /\ buf \in Buffers /\ failures \in Nat
        /\ Arena(buf, failures)
    BY <1>1 DEF PoolInv, IndInv, TypeOK
  <2> PICK w, f : w = nextWrite /\ f = failures
    OBVIOUS
  <2>1. w \in WriteCommands /\ (w.simple => w.rx > 0) /\ w.rx <= maxRxBufferBytes /\ f \in Nat
    BY Zenon, <2>0, NextWriteSized
  <2> SUFFICES ASSUME NEW b, b = IF shouldFlush(w) THEN Reclaimed ELSE buf
               PROVE  NodeHead(b, w, ExtraHead(b, w)) <= scenario.poolBytes
    BY Zenon DEF PoolFits
  <2>2. maxRxBufferBytes \in Nat /\ maxTxBufferBytes \in Nat /\ chipBufferBytes \in Nat /\ scenario.poolBytes \in Nat
    BY <2>0, ScenarioFacts
  <2>3. b \in Buffers /\ Arena(b, f)
    BY Zenon, <2>0, EmptyTyped, EmptyArena DEF Reclaimed
  <2>4. b.rxNumBytes + w.rx <= maxRxBufferBytes
    <3>1. w.rx \in Nat /\ w.tx \in Nat /\ buf.rxNumBytes \in Nat /\ buf.txNumBytes \in Nat
      BY <2>0, <2>1 DEF WriteCommands, Buffers
    <3>2. CASE shouldFlush(w)
      <4>1. b = EmptyBuffer
        BY Zenon, <3>2 DEF Reclaimed
      <4>2. b.rxNumBytes = 0
        BY <4>1 DEF EmptyBuffer
      <4> QED BY <2>1, <2>2, <3>1, <4>2
    <3>3. CASE ~shouldFlush(w)
      <4>1. b = buf
        BY Zenon, <3>3
      <4> QED BY <2>2, <3>1, <3>3, <4>1 DEF shouldFlush
    <3> QED BY <3>2, <3>3
  <2> PICK a : a = ft_buffer_append(b, w)
    OBVIOUS
  <2>5. a \in Buffers /\ a.head = NodeHead(b, w, ExtraHead(b, w)) /\ a.rxNumBytes = b.rxNumBytes + w.rx
    BY Zenon, <2>0, <2>1, <2>3, AppendFields
  <2>6. Arena(a, f)
    BY Zenon, <2>0, <2>1, <2>3, AppendArena
  <2>7. a.head \in Nat /\ a.head <= maxTxBufferBytes * f + LiveBytes(a) /\ Len(a.observers) <= a.rxNumBytes
    BY Zenon, <2>6 DEF Arena, Fit
  <2>8. LiveBytes(a) \in Nat /\ LiveBytes(a) <= 66 * chipBufferBytes
    <3>1. a.rxNumBytes <= maxRxBufferBytes
      BY Zenon, <2>4, <2>5
    <3> QED BY Zenon, <2>0, <2>5, <2>7, <3>1, LiveBytesBound
  <2>9. a.head <= scenario.poolBytes
    <3> PICK h, k, l, c, p : /\ h = a.head /\ k = maxTxBufferBytes * f /\ l = LiveBytes(a) /\ c = 66 * chipBufferBytes
                             /\ p = scenario.poolBytes
      OBVIOUS
    <3>1. k \in Nat /\ c \in Nat
      BY <2>1, <2>2
    <3>2. h \in Nat /\ l \in Nat /\ p \in Nat /\ h <= k + l /\ l <= c /\ c + k <= p
      BY Zenon, <1>1, <2>2, <2>7, <2>8 DEF PoolIsLarge
    <3>3. h <= p
      BY <3>1, <3>2
    <3> QED BY Zenon, <3>3
  <2> QED BY Zenon, <2>5, <2>9
<1> QED BY <1>1, PoolAlways, PTL
=============================================================================
