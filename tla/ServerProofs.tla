---------------------------- MODULE ServerProofs ----------------------------
(***************************************************************************)
(* Proofs about Server, for whatever clients send, cut up however it is,   *)
(* and any number of connections: server, client and signal handler keep   *)
(* IndInv, hence responses answer commands in order, the driver is given   *)
(* whole vectors that fit their blocks and is released, and SIGPIPE needs  *)
(* a client that leaves two commands unanswered.                           *)
(***************************************************************************)
EXTENDS Server, Induction

-----------------------------------------------------------------------------
(* The bytes of a command.                                                 *)

Byte == (Commands \cup {"int", "tms", "tdi", "junk"}) \X Int

(* sizeof("getinfo:") - 1 and so on.                                       *)
LEMMA PrefixSizes ==
  PrefixSz["getinfo"] = 8 /\ PrefixSz["settck"] = 7 /\ PrefixSz["shift"] = 6
BY DEF PrefixSz

(* A prefix is made of its own bytes only.                                 *)
LEMMA PrefixBytes ==
  ASSUME NEW cmd \in Commands
  PROVE  /\ PrefixSz[cmd] \in Nat /\ PrefixSz[cmd] > 0
         /\ Prefix(cmd) \in Seq(Byte) /\ Len(Prefix(cmd)) = PrefixSz[cmd]
         /\ Prefix(cmd)[1] = <<cmd, 1>>
<1>1. PrefixSz[cmd] \in Nat /\ PrefixSz[cmd] > 0
  BY PrefixSizes DEF Commands
<1> DEFINE n == PrefixSz[cmd]
           p == [i \in 1..n |-> <<cmd, i>>]
<1>2. \A i \in 1..n : <<cmd, i>> \in Byte
  BY <1>1 DEF Byte, Commands
<1> HIDE DEF n
<1>3. p \in Seq(Byte) /\ Len(p) = n /\ (n \in Nat /\ n > 0 => p[1] = <<cmd, 1>>)
  BY <1>1, <1>2 DEF n
<1> QED BY <1>1, <1>3 DEF Prefix, n

(* bytesPerVector is the quotient rounded up.                              *)
LEMMA VectorSize ==
  ASSUME NEW n \in Int
  PROVE  bytesPerVector(n) \in Int /\ (n > 0 => bytesPerVector(n) > 0)
BY DEF bytesPerVector

(* Copies of one byte.                                                     *)
LEMMA CopiesType ==
  ASSUME NEW n \in Nat, NEW b \in Byte
  PROVE  /\ [i \in 1..n |-> b] \in Seq(Byte) /\ Len([i \in 1..n |-> b]) = n
         /\ \A i \in 1..n : [j \in 1..n |-> b][i] = b
OBVIOUS

(* One more byte.                                                          *)
LEMMA AppendByte ==
  ASSUME NEW a \in Seq(Byte), NEW b \in Byte
  PROVE  Append(a, b) \in Seq(Byte) /\ Joins(Append(a, b), a, <<b>>)
BY DEF Joins

(* "getinfo:" is a command of its own.                                     *)
LEMMA GetinfoBytes ==
  ASSUME NEW c \in Request, NEW k \in Nat, c.cmd = "getinfo"
  PROVE  /\ Encode(c, k) \in Seq(Byte) /\ Len(Encode(c, k)) = 8
         /\ Encode(c, k)[1] = <<"getinfo", 1>>
<1>1. Encode(c, k) = Prefix("getinfo")
  BY DEF Encode
<1> QED BY <1>1, PrefixBytes, PrefixSizes DEF Commands

(* "settck:" is followed by the period.                                    *)
LEMMA SettckBytes ==
  ASSUME NEW c \in Request, NEW k \in Nat, c.cmd = "settck"
  PROVE  /\ Encode(c, k) \in Seq(Byte) /\ Len(Encode(c, k)) = 8
         /\ Encode(c, k)[1] = <<"settck", 1>> /\ Encode(c, k)[8] = <<"int", c.val>>
<1> DEFINE p == Prefix("settck")
<1>1. Encode(c, k) = Append(p, <<"int", c.val>>)
  BY DEF Encode
<1>2. p \in Seq(Byte) /\ Len(p) = 7 /\ p[1] = <<"settck", 1>>
  BY PrefixBytes, PrefixSizes DEF Commands
<1>3. <<"int", c.val>> \in Byte
  BY DEF Byte, Request
<1> HIDE DEF p
<1> DEFINE b == <<"int", c.val>>
           e == Append(p, b)
<1> HIDE DEF b
<1>4. e \in Seq(Byte) /\ Joins(e, p, <<b>>)
  BY <1>2, <1>3, AppendByte, Zenon DEF b
<1> HIDE DEF e
<1>5. Len(e) = 8 /\ e[1] = p[1] /\ e[8] = b
  BY <1>2, <1>4 DEF Joins
<1> QED BY <1>1, <1>2, <1>4, <1>5, Zenon DEF b, e

(* "shift:" is followed by the number of bits and two vectors of as many   *)
(* bytes as hold them.                                                     *)
IsShiftCommand(e, val, k, n) ==
  /\ e \in Seq(Byte) /\ Len(e) = 7 + 2 * n
  /\ e[1] = <<"shift", 1>> /\ e[7] = <<"int", val>>
  /\ \A i \in 1..n : e[7 + i] = <<"tms", k>> /\ e[7 + n + i] = <<"tdi", k>>

(* This is what Encode makes of it.                                        *)
LEMMA ShiftBytes ==
  ASSUME NEW c \in Request, NEW k \in Nat, c.cmd = "shift",
         NEW n, n = IF c.val > 0 THEN bytesPerVector(c.val) ELSE 0
  PROVE  n \in Nat /\ IsShiftCommand(Encode(c, k), c.val, k, n)
<1> DEFINE p   == Prefix("shift")
           q   == Append(p, <<"int", c.val>>)
           tms == [i \in 1..n |-> <<"tms", k>>]
           tdi == [i \in 1..n |-> <<"tdi", k>>]
<1>1. Encode(c, k) = q \o tms \o tdi
  BY DEF Encode
<1>2. p \in Seq(Byte) /\ Len(p) = 6 /\ p[1] = <<"shift", 1>>
  BY PrefixBytes, PrefixSizes DEF Commands
<1>3. <<"int", c.val>> \in Byte /\ <<"tms", k>> \in Byte /\ <<"tdi", k>> \in Byte
  BY DEF Byte, Request
<1>4. n \in Nat
  BY VectorSize DEF Request
<1> HIDE DEF p
<1>5. q \in Seq(Byte) /\ Len(q) = 7 /\ q[1] = <<"shift", 1>> /\ q[7] = <<"int", c.val>>
  <2> DEFINE b == <<"int", c.val>>
  <2> HIDE DEF b
  <2>1. q \in Seq(Byte) /\ Joins(q, p, <<b>>)
    BY <1>2, <1>3, AppendByte, Zenon DEF b
  <2> HIDE DEF q
  <2>2. Len(q) = 7 /\ q[1] = p[1] /\ q[7] = b
    BY <1>2, <2>1 DEF Joins
  <2> QED BY <1>2, <2>1, <2>2, Zenon DEF b
<1>6. /\ tms \in Seq(Byte) /\ Len(tms) = n /\ \A i \in 1..n : tms[i] = <<"tms", k>>
      /\ tdi \in Seq(Byte) /\ Len(tdi) = n /\ \A i \in 1..n : tdi[i] = <<"tdi", k>>
  BY <1>3, <1>4, CopiesType
<1> HIDE DEF q, tms, tdi
<1>7. q \o tms \in Seq(Byte) /\ Joins(q \o tms, q, tms)
  BY <1>5, <1>6, ConcatJoins
<1>8. q \o tms \o tdi \in Seq(Byte) /\ Joins(q \o tms \o tdi, q \o tms, tdi)
  BY <1>6, <1>7, ConcatJoins
<1>9. /\ Len(q \o tms) = 7 + n /\ (q \o tms)[1] = q[1] /\ (q \o tms)[7] = q[7]
      /\ \A i \in 1..n : (q \o tms)[7 + i] = tms[i]
  BY SMTT(30), <1>4, <1>5, <1>6, <1>7 DEF Joins
<1> DEFINE r == q \o tms
           e == r \o tdi
<1> HIDE DEF r
<1>10. /\ Len(e) = Len(r) + Len(tdi)
       /\ \A i \in 1..Len(r) : e[i] = r[i]
       /\ \A i \in 1..Len(tdi) : e[Len(r) + i] = tdi[i]
  BY <1>8 DEF Joins, r
<1> HIDE DEF e
<1>11. /\ Len(r) = 7 + n /\ r[1] = q[1] /\ r[7] = q[7]
       /\ \A i \in 1..n : r[7 + i] = tms[i]
  BY <1>9 DEF r
<1>15. Len(tdi) = n /\ Len(tms) = n
  BY <1>6
<1>13. Len(e) = 7 + 2 * n /\ e[1] = q[1] /\ e[7] = q[7]
  BY <1>4, <1>10, <1>11, <1>15
<1>14. ASSUME NEW i \in 1..n PROVE e[7 + i] = tms[i] /\ e[7 + n + i] = tdi[i]
  BY SMTT(30), <1>4, <1>10, <1>11, <1>15
<1>12. e = Encode(c, k)
  BY <1>1 DEF e, r
<1>16. e \in Seq(Byte) /\ \A i \in 1..n : e[7 + i] = <<"tms", k>> /\ e[7 + n + i] = <<"tdi", k>>
  BY <1>6, <1>8, <1>14 DEF e, r
<1>17. IsShiftCommand(e, c.val, k, n)
  BY <1>5, <1>13, <1>16 DEF IsShiftCommand
<1> QED BY <1>4, <1>12, <1>17

(* Garbage looks like no prefix.                                           *)
LEMMA JunkBytes ==
  ASSUME NEW c \in Request, NEW k \in Nat, c.cmd = "junk", c.val > 0
  PROVE  /\ Encode(c, k) \in Seq(Byte) /\ Len(Encode(c, k)) \in Nat /\ Len(Encode(c, k)) > 0
         /\ Encode(c, k)[1] = <<"junk", k>>
<1>1. Encode(c, k) = [i \in 1..c.val |-> <<"junk", k>>]
  BY DEF Encode
<1>2. c.val \in Nat /\ <<"junk", k>> \in Byte
  BY DEF Request, Byte
<1> DEFINE b == <<"junk", k>>
<1> HIDE DEF b
<1> DEFINE n == c.val
           e == [i \in 1..n |-> b]
<1>3. n \in Nat /\ b \in Byte
  BY <1>2 DEF b
<1> HIDE DEF n
<1>4. e \in Seq(Byte) /\ Len(e) = n /\ \A i \in 1..n : e[i] = b
  BY <1>3, CopiesType, Zenon
<1> HIDE DEF e
<1>5. n > 0
  BY DEF n
<1>6. Len(e) \in Nat /\ Len(e) > 0 /\ e[1] = b
  BY <1>3, <1>4, <1>5
<1> QED BY <1>1, <1>4, <1>6, Zenon DEF b, e, n

(* Whatever a client sends, its first byte tells what it is.               *)
LEMMA FirstByte ==
  ASSUME NEW c \in Request, NEW k \in Nat, c.cmd = "junk" => c.val > 0
  PROVE  /\ Encode(c, k) \in Seq(Byte) /\ Len(Encode(c, k)) \in Nat /\ Len(Encode(c, k)) > 0
         /\ \A cmd \in Commands : Encode(c, k)[1] = <<cmd, 1>> => c.cmd = cmd
<1>1. c.cmd \in {"getinfo", "settck", "shift", "junk"}
  BY DEF Request, Commands
<1>2. CASE c.cmd = "getinfo"
  BY <1>2, GetinfoBytes
<1>3. CASE c.cmd = "settck"
  BY <1>3, SettckBytes
<1>4. CASE c.cmd = "shift"
  <2> DEFINE n == IF c.val > 0 THEN bytesPerVector(c.val) ELSE 0
             e == Encode(c, k)
  <2>1. n \in Nat /\ IsShiftCommand(e, c.val, k, n)
    BY <1>4, ShiftBytes
  <2> HIDE DEF n, e
  <2> QED BY <1>4, <2>1 DEF IsShiftCommand, e
<1>5. CASE c.cmd = "junk"
  BY <1>5, JunkBytes DEF Commands
<1> QED BY <1>1, <1>2, <1>3, <1>4, <1>5

-----------------------------------------------------------------------------
(* The bytes of a session.                                                 *)

(* What a client may send.                                                 *)
LEMMA SessionType ==
  ASSUME NEW s \in Sessions \cup {<<>>}
  PROVE  /\ s \in Seq(Request) /\ Len(s) \in Nat
         /\ \A k \in 1..Len(s) : s[k] \in Request /\ (s[k].cmd = "junk" => s[k].val > 0)
<1>1. s \in Seq(Request)
  <2> <<>> \in Seq(Request)  OBVIOUS
  <2> QED BY SessionsAssumption, Zenon
<1>2. \A k \in 1..Len(s) : s[k].cmd = "junk" => s[k].val > 0
  BY SessionsAssumption
<1> QED BY <1>1, <1>2

(* The recursive definition of Streams defines the concatenations of the   *)
(* bytes of the commands.                                                  *)
LEMMA StreamPieces ==
  ASSUME NEW s \in Sessions \cup {<<>>}
  PROVE  Pieces(Streams[s], Len(s), [k \in 1..Len(s) |-> Encode(s[k], k)], Byte)
<1> DEFINE n == Len(s)
           e == [k \in 1..n |-> Encode(s[k], k)]
           Defines(f) == f = [k \in 0..n |-> IF k = 0 THEN <<>> ELSE f[k - 1] \o Encode(s[k], k)]
<1>1. n \in Nat
  BY SessionType
<1>2. \A k \in 1..n : e[k] \in Seq(Byte)
  BY SessionType, FirstByte
<1>3. \A f : Concatenates(f, n, e) <=> Defines(f)
  <2> SUFFICES ASSUME NEW f
               PROVE  [k \in 0..n |-> IF k = 0 THEN <<>> ELSE f[k - 1] \o e[k]] =
                      [k \in 0..n |-> IF k = 0 THEN <<>> ELSE f[k - 1] \o Encode(s[k], k)]
    BY Zenon DEF Concatenates
  <2>1. \A k \in 0..n : k # 0 => e[k] = Encode(s[k], k)
    BY <1>1
  <2> HIDE DEF e
  <2>2. ASSUME NEW k \in 0..n
        PROVE  (IF k = 0 THEN <<>> ELSE f[k - 1] \o e[k]) =
               (IF k = 0 THEN <<>> ELSE f[k - 1] \o Encode(s[k], k))
    BY <2>1, Zenon
  <2> QED BY <2>2, Zenon
<1>4. \E f : Defines(f)
  <2> HIDE DEF e, n, Defines
  <2> QED BY <1>1, <1>3, ConcatenationExists
<1>5. StreamOf(s) = CHOOSE f : Defines(f)
  BY DEF StreamOf
<1>6. Defines(StreamOf(s))
  <2> HIDE DEF Defines
  <2> QED BY <1>4, <1>5
<1>7. Streams[s] = StreamOf(s)
  BY DEF Streams
<1> HIDE DEF e, n, Defines
<1>8. Pieces(Streams[s], n, e, Byte)
  BY <1>1, <1>2, <1>3, <1>6, <1>7 DEF Pieces
<1> QED BY <1>8 DEF e, n

(* Start counts bytes: from nothing to all of them, each command adding    *)
(* its own, which are found in the stream where it starts.                 *)
LEMMA Positions ==
  ASSUME session \in Sessions \cup {<<>>}
  PROVE  /\ Len(session) \in Nat
         /\ Start(0) = 0 /\ Len(bytes) = Start(Len(session))
         /\ \A k \in 0..Len(session) : Start(k) \in Nat
         /\ \A j, k \in 0..Len(session) : j <= k => Start(j) <= Start(k)
<1> DEFINE f == Streams[session]
           n == Len(session)
           e == [k \in 1..n |-> Encode(session[k], k)]
<1>1. Pieces(f, n, e, Byte) /\ n \in Nat
  BY StreamPieces, SessionType
<1> HIDE DEF e, f, n
<1>2. f[0] = <<>> /\ \A k \in 0..n : f[k] \in Seq(Byte)
  BY <1>1, PiecesJoin
<1>3. \A j, k \in 0..n : j <= k => Len(f[j]) <= Len(f[k])
  BY <1>1, PiecesGrow DEF Starts
<1>4. Len(f[0]) = 0 /\ \A k \in 0..n : Len(f[k]) \in Nat
  BY <1>2
<1> QED BY <1>1, <1>3, <1>4 DEF f, n, Start, bytes

(* ... in particular those of the command at hand.                         *)
LEMMA CurrentBytes ==
  ASSUME session \in Sessions \cup {<<>>}, answered \in Nat, answered < Len(session),
         NEW e, e = Encode(current, answered + 1)
  PROVE  /\ current \in Request /\ (current.cmd = "junk" => current.val > 0)
         /\ e \in Seq(Byte) /\ Len(e) \in Nat /\ Len(e) > 0
         /\ Start(answered) \in Nat /\ Start(answered + 1) = Start(answered) + Len(e)
         /\ Start(answered + 1) <= Len(bytes)
         /\ \A i \in 1..Len(e) : bytes[Start(answered) + i] = e[i]
<1> DEFINE f == Streams[session]
           n == Len(session)
           p == [k \in 1..n |-> Encode(session[k], k)]
           k == answered + 1
<1>1. Pieces(f, n, p, Byte) /\ n \in Nat
  BY StreamPieces, SessionType
<1>2. k \in 1..n /\ k \in 0..n /\ n \in 0..n /\ k <= n /\ k - 1 = answered /\ k \in Nat
  BY <1>1
<1>3. current \in Request /\ (current.cmd = "junk" => current.val > 0)
  BY <1>2, SessionType DEF current
<1>4. p[k] = e
  BY <1>2 DEF current
<1>5. e \in Seq(Byte) /\ Len(e) \in Nat /\ Len(e) > 0
  BY <1>2, <1>3, FirstByte
<1> HIDE DEF f, n, p, k
<1>6. Joins(f[k], f[k - 1], e)
  BY <1>1, <1>2, <1>4, PiecesJoin
<1>7. Starts(f[k], f[n])
  BY <1>1, <1>2, PiecesGrow
<1>8. /\ Len(f[k - 1]) \in Nat /\ Len(f[k]) = Len(f[k - 1]) + Len(e)
      /\ Len(f[k]) <= Len(f[n])
      /\ \A i \in 1..Len(e) : f[n][Len(f[k - 1]) + i] = e[i]
  <2>1. /\ Len(f[k - 1]) \in Nat /\ Len(f[k]) = Len(f[k - 1]) + Len(e)
        /\ \A i \in 1..Len(e) : f[k][Len(f[k - 1]) + i] = e[i]
    BY <1>6 DEF Joins
  <2>2. Len(f[k]) <= Len(f[n]) /\ \A i \in 1..Len(f[k]) : f[n][i] = f[k][i]
    BY <1>7 DEF Starts
  <2>3. ASSUME NEW i \in 1..Len(e) PROVE f[n][Len(f[k - 1]) + i] = e[i]
    <3> DEFINE a == Len(f[k - 1])
               b == Len(e)
               c == Len(f[k])
    <3>1. a \in Nat /\ b \in Nat /\ c = a + b
      BY <1>5, <2>1
    <3>2. i \in 1..b
      OBVIOUS
    <3> HIDE DEF a, b, c
    <3>3. a + i \in 1..c
      BY <3>1, <3>2
    <3> QED BY <2>1, <2>2, <3>3 DEF a, c
  <2> QED BY <2>1, <2>2, <2>3
<1>9. Start(answered) = Len(f[k - 1]) /\ Start(answered + 1) = Len(f[k]) /\ bytes = f[n]
  BY <1>2 DEF Start, f, k, n, bytes
<1> QED BY <1>3, <1>5, <1>8, <1>9

-----------------------------------------------------------------------------
(* What the server takes from the stream, where the invariant holds.       *)

(* The types those proofs need.                                            *)
LEMMA Counts ==
  ASSUME IndInv
  PROVE  /\ session \in Sessions \cup {<<>>} /\ Len(session) \in Nat
         /\ replies \in Seq(Responses) /\ answered \in Nat
         /\ arrived \in Nat /\ arrived <= Len(bytes)
         /\ Serving => answered <= Len(session) /\ consumed \in Nat /\ consumed <= arrived
<1>1. session \in Sessions \cup {<<>>} /\ replies \in Seq(Responses) /\ arrived \in 0..Len(bytes)
  BY DEF IndInv, TypeOK
<1>2. Serving => answered <= Len(session) /\ consumed \in 0..arrived
  BY DEF IndInv, TypeOK, InStep
<1>3. Len(session) \in Nat /\ Len(bytes) \in Nat
  BY <1>1, Positions
<1>4. answered \in Nat
  BY <1>1 DEF answered
<1> HIDE DEF Serving
<1> QED BY <1>1, <1>2, <1>3, <1>4

(* A receiving call takes the bytes that come next.                        *)
LEMMA NextBytes ==
  ASSUME NEW b, NEW a \in Nat, NEW n \in Nat
  PROVE  SubSeq(b, a + 1, a + n) = [i \in 1..n |-> b[a + i]]
<1>1. SubSeq(b, a + 1, a + n) = [i \in 1..(1 + (a + n) - (a + 1)) |-> b[(a + 1) + i - 1]]
  OBVIOUS
<1>2. (1 + (a + n) - (a + 1)) = n /\ \A i \in 1..n : (a + 1) + i - 1 = a + i
  OBVIOUS
<1> QED BY <1>1, <1>2

(* A prefix that is recognized is that of the command at hand, and it is   *)
(* there in full.                                                          *)
LEMMA PrefixTaken ==
  ASSUME IndInv, pc = "peek", available > 0, NEW cmd \in Commands, matches(cmd)
  PROVE  /\ answered < Len(session) /\ current.cmd = cmd /\ consumed = Start(answered)
         /\ consumed + PrefixSz[cmd] \in Nat /\ consumed + PrefixSz[cmd] <= arrived
<1>0. Serving
  BY DEF Serving, Recvs
<1>1. /\ consumed = Start(answered) /\ consumed \in Nat /\ consumed < arrived
      /\ answered \in Nat /\ answered <= Len(session)
  BY <1>0, Counts DEF available, IndInv, InStep
<1>2. answered < Len(session)
  <2>1. answered = Len(session) => consumed = Len(bytes)
    BY <1>1, Counts, Positions
  <2> QED BY <1>1, <2>1, Counts
<1> DEFINE e == Encode(current, answered + 1)
<1>3. /\ current \in Request /\ (current.cmd = "junk" => current.val > 0)
      /\ Len(e) \in Nat /\ Len(e) > 0 /\ \A i \in 1..Len(e) : bytes[Start(answered) + i] = e[i]
  BY <1>1, <1>2, Counts, CurrentBytes
<1>4. bytes[consumed + 1] = e[1]
  BY <1>1, <1>3
<1>5. sockRead \in Nat /\ sockRead <= arrived - consumed /\ sockRead >= PrefixSz[cmd]
  BY <1>1, Counts DEF sockRead, available, PeekSz, matches
<1>6. PrefixSz[cmd] \in Nat /\ PrefixSz[cmd] > 0 /\ Prefix(cmd)[1] = <<cmd, 1>>
  BY PrefixBytes
<1>7. bytes[consumed + 1] = <<cmd, 1>>
  <2> DEFINE n == PrefixSz[cmd]
  <2>1. SubSeq(command, 1, n)[1] = <<cmd, 1>>
    BY <1>6 DEF matches
  <2>2. command[1] = bytes[consumed + 1]
    <3>0. consumed \in Nat /\ sockRead \in Nat
      BY <1>1, <1>5
    <3>1. command = [i \in 1..sockRead |-> bytes[consumed + i]]
      BY <3>0, NextBytes, SMT DEF command
    <3> QED BY <1>5, <1>6, <3>1
  <2> n \in Nat /\ n > 0
    BY <1>6
  <2> HIDE DEF n
  <2>3. SubSeq(command, 1, n)[1] = command[1]
    OBVIOUS
  <2> QED BY <2>1, <2>2, <2>3
<1>8. current.cmd = cmd
  BY SMTT(30), <1>1, <1>3, <1>4, <1>7, FirstByte
<1> QED BY SMTT(30), <1>1, <1>2, <1>5, <1>6, <1>8, Counts

(* The int that follows a prefix is the one the client sent.               *)
LEMMA IntTaken ==
  ASSUME IndInv, pc \in {"settck", "shift"}
  PROVE  /\ answered < Len(session) /\ current \in Request /\ current.cmd = pc
         /\ nextInt = current.val /\ nextInt \in Int
         /\ pc = "settck" => consumed + 1 = Start(answered + 1)
         /\ pc = "shift" => consumed + 1 = Start(answered) + 7
<1> DEFINE e == Encode(current, answered + 1)
<1>0. Serving
  BY DEF Serving, Recvs
<1>1. /\ answered \in Nat /\ answered < Len(session) /\ current.cmd = pc
      /\ consumed = Start(answered) + PrefixSz[pc]
  BY <1>0, Counts DEF IndInv, InStep, Amid, Commands
<1>2. /\ current \in Request /\ Start(answered) \in Nat
      /\ Start(answered + 1) = Start(answered) + Len(e)
      /\ \A i \in 1..Len(e) : bytes[Start(answered) + i] = e[i]
  BY <1>1, Counts, CurrentBytes
<1>3. CASE pc = "settck"
  <2>1. Len(e) = 8 /\ e[8] = <<"int", current.val>>
    BY <1>1, <1>2, <1>3, SettckBytes
  <2> HIDE DEF e
  <2>2. consumed + 1 = Start(answered) + 8
    BY <1>1, <1>2, <1>3, PrefixSizes
  <2>3. bytes[consumed + 1] = e[8]
    BY <1>2, <2>1, <2>2
  <2> QED BY <1>1, <1>2, <1>3, <2>1, <2>2, <2>3 DEF nextInt, Request
<1>4. CASE pc = "shift"
  <2>1. Len(e) \in Nat /\ Len(e) >= 7 /\ e[7] = <<"int", current.val>>
    <3> DEFINE n == IF current.val > 0 THEN bytesPerVector(current.val) ELSE 0
    <3>1. n \in Nat /\ IsShiftCommand(e, current.val, answered + 1, n)
      BY <1>1, <1>2, <1>4, ShiftBytes
    <3> HIDE DEF n, e
    <3> QED BY <3>1 DEF IsShiftCommand
  <2> HIDE DEF e
  <2>2. consumed + 1 = Start(answered) + 7
    BY <1>1, <1>2, <1>4, PrefixSizes
  <2>3. bytes[consumed + 1] = e[7]
    BY <1>2, <2>1, <2>2
  <2> QED BY <1>1, <1>2, <1>4, <2>1, <2>2, <2>3 DEF nextInt, Request
<1> QED BY <1>3, <1>4

(* Where the vectors of the shift at hand are.                             *)
LEMMA ShiftAtHand ==
  ASSUME IndInv, pc \in {"recv_tms", "recv_tdi", "shift_bits"},
         NEW n, n = bytesPerVector(numBits)
  PROVE  /\ n \in Nat /\ n > 0 /\ numBits \in Int /\ numBits > 0
         /\ answered \in Nat /\ answered < Len(session)
         /\ current \in Request /\ current.cmd = "shift" /\ current.val = numBits
         /\ Start(answered) \in Nat /\ Start(answered + 1) = Start(answered) + 7 + 2 * n
         /\ \A i \in 1..n : /\ bytes[Start(answered) + 7 + i] = <<"tms", answered + 1>>
                            /\ bytes[Start(answered) + 7 + n + i] = <<"tdi", answered + 1>>
<1> DEFINE e == Encode(current, answered + 1)
<1>0. Serving
  BY DEF Serving, Recvs
<1>1. /\ answered \in Nat /\ answered < Len(session) /\ current.cmd = "shift"
      /\ numBits > 0 /\ current.val = numBits
  BY <1>0, Counts DEF IndInv, InStep, Amid
<1>2. numBits \in Int
  BY DEF IndInv, TypeOK
<1>3. n \in Nat /\ n > 0
  BY <1>1, <1>2, VectorSize
<1>4. /\ current \in Request /\ Start(answered) \in Nat
      /\ Start(answered + 1) = Start(answered) + Len(e)
      /\ \A i \in 1..Len(e) : bytes[Start(answered) + i] = e[i]
  BY <1>1, Counts, CurrentBytes
<1>5. /\ Len(e) = 7 + 2 * n
      /\ \A i \in 1..n : e[7 + i] = <<"tms", answered + 1>> /\ e[7 + n + i] = <<"tdi", answered + 1>>
  <2>1. IsShiftCommand(e, current.val, answered + 1, n)
    BY <1>1, <1>4, ShiftBytes
  <2> HIDE DEF e
  <2> QED BY <2>1 DEF IsShiftCommand
<1> HIDE DEF e
<1>6. ASSUME NEW i \in 1..n
      PROVE  /\ bytes[Start(answered) + 7 + i] = e[7 + i]
             /\ bytes[Start(answered) + 7 + n + i] = e[7 + n + i]
  <2> DEFINE a == 7 + i
             b == 7 + n + i
  <2>1. a \in 1..Len(e) /\ b \in 1..Len(e)
    BY <1>3, <1>5
  <2>2. bytes[Start(answered) + a] = e[a] /\ bytes[Start(answered) + b] = e[b]
    BY <1>4, <2>1
  <2>3. Start(answered) + a = Start(answered) + 7 + i /\ Start(answered) + b = Start(answered) + 7 + n + i
    BY <1>3, <1>4
  <2> QED BY <2>2, <2>3
<1>7. Start(answered + 1) = Start(answered) + 7 + 2 * n
  BY <1>3, <1>4, <1>5
<1> QED BY ZenonT(60), <1>1, <1>2, <1>3, <1>4, <1>5, <1>6, <1>7

(* A vector that is received in full is the one the client sent.           *)
LEMMA VectorTaken ==
  ASSUME IndInv, pc \in {"recv_tms", "recv_tdi"}
  PROVE  /\ Wanted = bytesPerVector(numBits)
         /\ pc = "recv_tms" => Received = VectorOf("tms")
         /\ pc = "recv_tdi" => Received = VectorOf("tdi")
<1> DEFINE n == bytesPerVector(numBits)
           a == Start(answered)
<1>1. Wanted = n
  BY DEF Wanted
<1>2. /\ n \in Nat /\ answered \in Nat /\ a \in Nat
      /\ \A i \in 1..n : /\ bytes[a + 7 + i] = <<"tms", answered + 1>>
                         /\ bytes[a + 7 + n + i] = <<"tdi", answered + 1>>
  BY ShiftAtHand
<1>3. Serving
  BY DEF Serving, Recvs
<1>4. /\ pc = "recv_tms" => consumed = a + 7
      /\ pc = "recv_tdi" => consumed = a + (7 + n)
  BY <1>3 DEF IndInv, InStep, Amid
<1> HIDE DEF n, a
<1>5. consumed \in Nat
  BY <1>2, <1>4
<1>6. Received = [i \in 1..n |-> bytes[consumed + i]]
  BY <1>1, <1>2, <1>5, NextBytes DEF Received
<1>7. ASSUME pc = "recv_tms" PROVE Received = [i \in 1..n |-> <<"tms", answered + 1>>]
  <2> \A i \in 1..n : bytes[consumed + i] = <<"tms", answered + 1>>
    BY <1>2, <1>4, <1>7
  <2> QED BY <1>6
<1>8. ASSUME pc = "recv_tdi" PROVE Received = [i \in 1..n |-> <<"tdi", answered + 1>>]
  <2> \A i \in 1..n : bytes[consumed + i] = <<"tdi", answered + 1>>
    <3> \A i \in 1..n : a + (7 + n) + i = a + 7 + n + i
      BY <1>2
    <3> QED BY <1>2, <1>4, <1>8
  <2> QED BY <1>6
<1> QED BY <1>1, <1>7, <1>8 DEF VectorOf, n

-----------------------------------------------------------------------------
(* Each part of the invariant is kept by each action.                      *)

(* InControl: thread, driver and client.                                   *)
LEMMA InControlStep ==
  ASSUME IndInv, [Next]_vars
  PROVE  InControl'
<1> USE DEF InControl, Serving, Recvs, Ended, Commands
<1>0. TypeOK /\ InControl
  BY DEF IndInv
<1>1. CASE activate
  BY <1>0, <1>1 DEF activate, Goto, wireVars, connVars
<1>2. CASE listen
  BY <1>0, <1>2 DEF listen, Goto, wireVars, connVars
<1>3. CASE accept_loop
  BY <1>0, <1>3 DEF accept_loop, Goto, wireVars, connVars
<1>4. CASE accept
  BY <1>0, <1>4 DEF accept, Goto, CanReturn, wireVars, connVars
<1>5. CASE accept_fails
  BY <1>0, <1>5 DEF accept_fails, Goto, CanReturn, wireVars, connVars
<1>6. CASE end_connection
  BY <1>0, <1>6 DEF end_connection, Goto, wireVars, connVars
<1>7. CASE deactivate
  BY <1>0, <1>7 DEF deactivate, Goto, wireVars, connVars
<1>8. CASE command_loop
  BY <1>0, <1>8 DEF command_loop, Goto, wireVars, connVars
<1>9. CASE peek_end_of_stream
  BY <1>0, <1>9 DEF peek_end_of_stream, Goto, wireVars, connVars
<1>10. CASE peek_no_command
  BY <1>0, <1>10 DEF peek_no_command, Goto, wireVars, connVars
<1>11. CASE recv_short
  BY <1>0, <1>11 DEF recv_short, Goto, wireVars, connVars
<1>12. CASE cmd_getinfo
  BY <1>0, <1>12 DEF cmd_getinfo, Respond, Goto, wireVars, connVars
<1>13. CASE cmd_settck
  BY <1>0, <1>13 DEF cmd_settck, Respond, Goto, wireVars, connVars
<1>14. CASE cmd_shift
  BY <1>0, <1>14 DEF cmd_shift, Goto, wireVars, connVars
<1>15. CASE cmd_shift_recv_tms
  BY <1>0, <1>15 DEF cmd_shift_recv_tms, Goto, wireVars, connVars
<1>16. CASE cmd_shift_recv_tdi
  BY <1>0, <1>16 DEF cmd_shift_recv_tdi, Goto, wireVars, connVars
<1>17. CASE cmd_shift_shift_bits
  BY <1>0, <1>17 DEF cmd_shift_shift_bits, Respond, Goto, wireVars, connVars
<1>18. CASE send_data
  BY <1>0, <1>18 DEF send_data, Sent, Sigpipe, Goto, wireVars, connVars
<1>19. CASE Block
  BY <1>0, <1>19 DEF Block, CanReturn, connVars
<1>20. CASE Connect
  BY <1>0, <1>20 DEF Connect, wireVars, connVars
<1>21. CASE Deliver
  BY <1>0, <1>21 DEF Deliver, wireVars, connVars
<1>22. CASE Close
  BY <1>0, <1>22 DEF Close, wireVars, connVars
<1>23. CASE sigint_handler
  BY <1>0, <1>23 DEF sigint_handler, connVars
<1>24. CASE \E cmd \in Commands : peek_command(cmd)
  BY <1>0, <1>24 DEF peek_command, Goto, wireVars
<1>25. CASE UNCHANGED vars
  BY <1>0, <1>25 DEF vars, wireVars, connVars
<1>26. CASE wrapper_setup
  BY <1>0, <1>26 DEF wrapper_setup, Goto, wireVars, connVars
<1>27. CASE Read
  BY <1>0, <1>27 DEF Read, connVars
<1> QED
  BY <1>1, <1>2, <1>3, <1>4, <1>5, <1>6, <1>7, <1>8, <1>9, <1>10, <1>11, <1>12, <1>13, <1>14, <1>15, <1>16, <1>17, <1>18, <1>19, <1>20, <1>21, <1>22, <1>23, <1>24, <1>25, <1>26, <1>27
  DEF Next, ServerStep, Handlers, Client, Done

(* VectorsHeld: what allocate_vectors() and deallocate_vectors() leave.      *)
LEMMA VectorsHeldStep ==
  ASSUME IndInv, [Next]_vars
  PROVE  VectorsHeld'
<1> USE DEF VectorsHeld, Serving, Recvs, Ended, Commands
<1>0. /\ vectors \in {0, 3} /\ vectorNumBytes \in Nat
      /\ VectorsHeld /\ (blocked => pc \in Recvs \cup {"accept", "send"})
  BY DEF IndInv, TypeOK, InControl
<1>1. CASE activate
  BY <1>0, <1>1 DEF activate, Goto, wireVars, connVars
<1>2. CASE listen
  BY <1>0, <1>2 DEF listen, Goto, wireVars, connVars
<1>3. CASE accept_loop
  BY <1>0, <1>3 DEF accept_loop, Goto, wireVars, connVars
<1>4. CASE accept
  BY <1>0, <1>4 DEF accept, Goto, wireVars, connVars
<1>5. CASE accept_fails
  BY <1>0, <1>5 DEF accept_fails, Goto, wireVars, connVars
<1>6. CASE end_connection
  BY <1>0, <1>6 DEF end_connection, Goto, wireVars, connVars
<1>7. CASE deactivate
  BY <1>0, <1>7 DEF deactivate, Goto, wireVars, connVars
<1>8. CASE command_loop
  BY <1>0, <1>8 DEF command_loop, Goto, wireVars, connVars
<1>9. CASE peek_end_of_stream
  BY <1>0, <1>9 DEF peek_end_of_stream, Goto, wireVars, connVars
<1>10. CASE peek_no_command
  BY <1>0, <1>10 DEF peek_no_command, Goto, wireVars, connVars
<1>11. CASE recv_short
  BY <1>0, <1>11 DEF recv_short, Goto, wireVars, connVars
<1>12. CASE cmd_getinfo
  <2>1. vectorNumBytes' = vectorNumBytes /\ vectors' = vectors /\ pc = "getinfo"
    BY <1>12 DEF cmd_getinfo
  <2>2. pc' = "dealloc" \/ (pc' = "send" /\ response' = <<"info", 0>>)
    BY <1>12 DEF cmd_getinfo, Respond, Goto
  <2> QED BY <1>0, <2>1, <2>2
<1>13. CASE cmd_settck
  <2>1. vectorNumBytes' = vectorNumBytes /\ vectors' = vectors /\ pc = "settck"
    BY <1>13 DEF cmd_settck
  <2>2. pc' \in {"dealloc", "aborted"} \/ (pc' = "send" /\ response' = <<"period", nextInt>>)
    BY <1>13 DEF cmd_settck, Respond, Goto
  <2> QED BY <1>0, <2>1, <2>2
<1>14. CASE cmd_shift
  <2> DEFINE n == bytesPerVector(nextInt)
  <2>1. nextInt > 0 => n \in Int /\ n > 0
    BY <1>14, IntTaken, VectorSize DEF cmd_shift
  <2>2. numBits' = nextInt /\ pc = "shift"
    BY <1>14 DEF cmd_shift
  <2>3. \/ pc' \in {"dealloc", "aborted"} /\ vectorNumBytes' = vectorNumBytes /\ vectors' = vectors
        \/ /\ pc' = "recv_tms" /\ nextInt > 0
           /\ IF n > vectorNumBytes THEN vectorNumBytes' = n /\ vectors' = 3
                                    ELSE vectorNumBytes' = vectorNumBytes /\ vectors' = vectors
    BY <1>14 DEF cmd_shift, Goto, allocate_vectors
  <2>4. bytesPerVector(numBits)' = n
    BY <2>2 DEF bytesPerVector
  <2> HIDE DEF n
  <2> QED BY <1>0, <2>1, <2>2, <2>3, <2>4
<1>15. CASE cmd_shift_recv_tms
  <2>1. UNCHANGED <<vectorNumBytes, vectors, numBits>> /\ pc = "recv_tms" /\ pc' = "recv_tdi"
    BY <1>15 DEF cmd_shift_recv_tms, Goto
  <2>2. bytesPerVector(numBits)' = bytesPerVector(numBits)
    BY <2>1 DEF bytesPerVector
  <2> QED BY <1>0, <2>1, <2>2
<1>16. CASE cmd_shift_recv_tdi
  <2>1. UNCHANGED <<vectorNumBytes, vectors, numBits>> /\ pc = "recv_tdi" /\ pc' = "shift_bits"
    BY <1>16 DEF cmd_shift_recv_tdi, Goto
  <2>2. bytesPerVector(numBits)' = bytesPerVector(numBits)
    BY <2>1 DEF bytesPerVector
  <2> QED BY <1>0, <2>1, <2>2
<1>17. CASE cmd_shift_shift_bits
  <2>1. UNCHANGED <<vectorNumBytes, vectors>> /\ pc = "shift_bits"
    BY <1>17 DEF cmd_shift_shift_bits
  <2>2. pc' \in {"dealloc", "aborted"} \/ (pc' = "send" /\ response' = <<"tdo", bytesPerVector(numBits)>>)
    BY <1>17 DEF cmd_shift_shift_bits, Respond, Goto
  <2>3. bytesPerVector(numBits) > 0
    BY <2>1, ShiftAtHand
  <2> QED BY <1>0, <2>1, <2>2, <2>3
<1>18. CASE send_data
  BY <1>0, <1>18 DEF send_data, Sent, Sigpipe, Goto, wireVars, connVars
<1>19. CASE Block
  BY <1>0, <1>19 DEF Block, connVars
<1>20. CASE Connect
  BY <1>0, <1>20 DEF Connect, wireVars, connVars
<1>21. CASE Deliver
  BY <1>0, <1>21 DEF Deliver, wireVars, connVars
<1>22. CASE Close
  BY <1>0, <1>22 DEF Close, wireVars, connVars
<1>23. CASE sigint_handler
  BY <1>0, <1>23 DEF sigint_handler, connVars
<1>24. CASE \E cmd \in Commands : peek_command(cmd)
  BY <1>0, <1>24 DEF peek_command, Goto, wireVars
<1>25. CASE UNCHANGED vars
  BY <1>0, <1>25 DEF vars, wireVars, connVars
<1>26. CASE wrapper_setup
  BY <1>0, <1>26 DEF wrapper_setup, Goto, wireVars, connVars
<1>27. CASE Read
  BY <1>0, <1>27 DEF Read, connVars
<1> QED
  BY <1>1, <1>2, <1>3, <1>4, <1>5, <1>6, <1>7, <1>8, <1>9, <1>10, <1>11, <1>12,
     <1>13, <1>14, <1>15, <1>16, <1>17, <1>18, <1>19, <1>20, <1>21, <1>22, <1>23, <1>24, <1>25, <1>26, <1>27
  DEF Next, ServerStep, Handlers, Client, Done

(* InStep: nothing that leaves the session and the responses alone changes *)
(* what is answered, which command is at hand and where it starts.         *)
LEMMA AnsweredFrame ==
  ASSUME UNCHANGED <<session, replies>>
  PROVE  /\ answered' = answered /\ current' = current
         /\ Start(answered)' = Start(answered) /\ Start(answered + 1)' = Start(answered + 1)
BY DEF answered, current, Start

(* A connection that is given up needs no place in the stream ...          *)
LEMMA InStepLetGo ==
  ASSUME IndInv, Serving, pc' = "dealloc", UNCHANGED <<session, replies>>
  PROVE  InStep'
<1>1. /\ answered <= Len(session)
      /\ \A i \in 1..answered : replies[i] = Answer(session[i])
  BY DEF IndInv, InStep
<1>2. answered' = answered
  BY AnsweredFrame
<1> HIDE DEF answered
<1>3. /\ answered' <= Len(session')
      /\ \A i \in 1..(answered') : replies'[i] = Answer(session'[i])
  BY <1>1, <1>2
<1> QED BY <1>3 DEF InStep, Recvs, Commands

(* ... and steps of others do not move the server.                         *)
LEMMA InStepSame ==
  ASSUME InStep,
         UNCHANGED <<pc, session, replies, consumed, numBits, tmsVector, tdiVector, response>>
  PROVE  InStep'
<1>1. /\ answered' = answered /\ current' = current
      /\ Start(answered)' = Start(answered) /\ Start(answered + 1)' = Start(answered + 1)
  BY AnsweredFrame
<1>2. /\ bytesPerVector(numBits)' = bytesPerVector(numBits)
      /\ VectorOf("tms")' = VectorOf("tms") /\ VectorOf("tdi")' = VectorOf("tdi")
  BY DEF bytesPerVector, VectorOf, answered
<1>3. Serving' = Serving
  BY DEF Serving
<1> QED BY <1>1, <1>2, <1>3 DEF InStep, Amid

(* As long as it sends no response, what it answered is answered.          *)
LEMMA AnsweredKept ==
  ASSUME IndInv, Serving, UNCHANGED <<session, replies>>
  PROVE  answered' <= Len(session') /\ \A i \in 1..answered' : replies'[i] = Answer(session'[i])
<1>1. answered <= Len(session) /\ \A i \in 1..answered : replies[i] = Answer(session[i])
  BY DEF IndInv, InStep
<1>2. answered' = answered
  BY AnsweredFrame
<1> HIDE DEF answered
<1> QED BY <1>1, <1>2

(* A "getinfo:" that is being handled was taken in full.                   *)
LEMMA GetinfoTaken ==
  ASSUME IndInv, pc = "getinfo"
  PROVE  /\ answered < Len(session) /\ consumed = Start(answered + 1)
         /\ Answer(current) = <<"info", 0>>
<1> DEFINE e == Encode(current, answered + 1)
<1>1. Serving
  BY DEF Serving, Recvs
<1>2. /\ answered \in Nat /\ answered < Len(session) /\ current.cmd = "getinfo"
      /\ consumed = Start(answered) + 8
  BY <1>1, Counts, PrefixSizes DEF IndInv, InStep, Amid, Commands
<1>3. current \in Request /\ Start(answered + 1) = Start(answered) + Len(e)
  BY <1>2, Counts, CurrentBytes
<1>4. Len(e) = 8
  BY <1>2, <1>3, GetinfoBytes
<1> HIDE DEF e
<1> QED BY <1>2, <1>3, <1>4 DEF Answer

(* The step lemma of InStep.                                               *)
LEMMA InStepStep ==
  ASSUME IndInv, [Next]_vars
  PROVE  InStep'
<1>0. InStep
  BY DEF IndInv
<1>1. CASE activate
  BY <1>1 DEF activate, Goto, InStep, Serving, Recvs
<1>2. CASE listen
  BY <1>2 DEF listen, Goto, InStep, Serving, Recvs
<1>3. CASE accept_loop
  BY <1>3 DEF accept_loop, Goto, InStep, Serving, Recvs
<1>4. CASE accept
  <2>1. /\ pc' = "command_loop" /\ session' = session
        /\ consumed' = 0 /\ replies' = <<>>
    BY <1>4 DEF accept, Goto, wireVars
  <2>2. answered' = 0
    BY <2>1 DEF answered
  <2>3. Start(answered)' = 0
    BY <2>1, <2>2, Counts, Positions DEF Start
  <2>4. 0 <= Len(session')
    BY <2>1, Counts
  <2> QED BY <2>1, <2>2, <2>3, <2>4 DEF InStep, Serving, Recvs, Commands
<1>5. CASE accept_fails
  BY <1>5 DEF accept_fails, Goto, InStep, Serving, Recvs
<1>6. CASE end_connection
  BY <1>6 DEF end_connection, Goto, InStep, Serving, Recvs
<1>7. CASE deactivate
  BY <1>7 DEF deactivate, Goto, InStep, Serving, Recvs
<1>8. CASE command_loop
  <2>1. Serving /\ UNCHANGED <<session, replies>>
    BY <1>8 DEF command_loop, Serving, Recvs, wireVars, connVars
  <2>2. CASE pc' = "dealloc"
    BY <2>1, <2>2, InStepLetGo
  <2>3. CASE pc' # "dealloc"
    <3>1. /\ answered' = answered /\ current' = current
          /\ Start(answered)' = Start(answered) /\ Start(answered + 1)' = Start(answered + 1)
      BY <2>1, AnsweredFrame
    <3>2. answered' <= Len(session') /\ \A i \in 1..answered' : replies'[i] = Answer(session'[i])
      BY <2>1, AnsweredKept
    <3>3. pc = "command_loop" /\ pc' = "peek" /\ consumed' = consumed
      BY <1>8, <2>3 DEF command_loop, Goto, connVars
    <3>4. consumed' = Start(answered)'
      BY <2>1, <3>1, <3>3 DEF IndInv, InStep
    <3> QED BY <3>2, <3>3, <3>4 DEF InStep, Commands
  <2> QED BY <2>2, <2>3
<1>9. CASE peek_end_of_stream
  <2>1. Serving /\ UNCHANGED <<session, replies>>
    BY <1>9 DEF peek_end_of_stream, Serving, Recvs, wireVars, connVars
  <2> QED BY <1>9, <2>1, InStepLetGo DEF peek_end_of_stream, Goto
<1>10. CASE peek_no_command
  <2>1. Serving /\ UNCHANGED <<session, replies>>
    BY <1>10 DEF peek_no_command, Serving, Recvs, wireVars, connVars
  <2>2. CASE pc' = "dealloc"
    BY <2>1, <2>2, InStepLetGo
  <2>3. CASE pc' # "dealloc"
    <3>1. /\ answered' = answered /\ current' = current
          /\ Start(answered)' = Start(answered) /\ Start(answered + 1)' = Start(answered + 1)
      BY <2>1, AnsweredFrame
    <3>2. answered' <= Len(session') /\ \A i \in 1..answered' : replies'[i] = Answer(session'[i])
      BY <2>1, AnsweredKept
    <3>3. pc = "peek" /\ pc' = "command_loop" /\ consumed' = consumed
      BY <1>10, <2>3 DEF peek_no_command, Goto, connVars
    <3>4. consumed' = Start(answered)'
      BY <2>1, <3>1, <3>3 DEF IndInv, InStep
    <3> QED BY <3>2, <3>3, <3>4 DEF InStep, Commands
  <2> QED BY <2>2, <2>3
<1>11. CASE recv_short
  <2>1. Serving /\ UNCHANGED <<session, replies>>
    BY <1>11 DEF recv_short, Serving, Recvs, wireVars, connVars
  <2> QED BY <1>11, <2>1, InStepLetGo DEF recv_short, Goto
<1>12. CASE cmd_getinfo
  <2>1. Serving /\ UNCHANGED <<session, replies>>
    BY <1>12 DEF cmd_getinfo, Serving, Recvs, wireVars, connVars
  <2>2. CASE pc' = "dealloc"
    BY <2>1, <2>2, InStepLetGo
  <2>3. CASE pc' # "dealloc"
    <3>1. /\ answered' = answered /\ current' = current
          /\ Start(answered)' = Start(answered) /\ Start(answered + 1)' = Start(answered + 1)
      BY <2>1, AnsweredFrame
    <3>2. answered' <= Len(session') /\ \A i \in 1..answered' : replies'[i] = Answer(session'[i])
      BY <2>1, AnsweredKept
    <3>3. pc' = "send" /\ response' = <<"info", 0>> /\ consumed' = consumed
      BY <1>12, <2>3 DEF cmd_getinfo, Respond, Goto
    <3>4. /\ answered < Len(session) /\ consumed = Start(answered + 1)
          /\ Answer(current) = <<"info", 0>>
      BY <1>12, GetinfoTaken DEF cmd_getinfo
    <3> QED BY <2>1, <3>1, <3>2, <3>3, <3>4 DEF InStep, Commands
  <2> QED BY <2>2, <2>3
<1>13. CASE cmd_settck
  <2>0. CASE pc' = "aborted"
    BY <2>0 DEF InStep, Serving, Recvs
  <2>1. Serving /\ UNCHANGED <<session, replies>>
    BY <1>13 DEF cmd_settck, Serving, Recvs, wireVars, connVars
  <2>2. CASE pc' = "dealloc"
    BY <2>1, <2>2, InStepLetGo
  <2>3. CASE pc' \notin {"dealloc", "aborted"}
    <3>1. /\ answered' = answered /\ current' = current
          /\ Start(answered)' = Start(answered) /\ Start(answered + 1)' = Start(answered + 1)
      BY <2>1, AnsweredFrame
    <3>2. answered' <= Len(session') /\ \A i \in 1..answered' : replies'[i] = Answer(session'[i])
      BY <2>1, AnsweredKept
    <3>3. pc = "settck" /\ pc' = "send" /\ response' = <<"period", nextInt>> /\ consumed' = consumed + 1
      BY <1>13, <2>3 DEF cmd_settck, Respond, Goto
    <3>4. answered < Len(session) /\ consumed + 1 = Start(answered + 1)
      BY <3>3, IntTaken
    <3>5. Answer(current) = <<"period", nextInt>>
      BY <3>3, IntTaken DEF Answer
    <3> QED BY <2>1, <3>1, <3>2, <3>3, <3>4, <3>5 DEF InStep, Commands
  <2> QED BY <2>0, <2>2, <2>3
<1>14. CASE cmd_shift
  <2>0. CASE pc' = "aborted"
    BY <2>0 DEF InStep, Serving, Recvs
  <2>1. Serving /\ UNCHANGED <<session, replies>>
    BY <1>14 DEF cmd_shift, Serving, Recvs, wireVars, connVars
  <2>2. CASE pc' = "dealloc"
    BY <2>1, <2>2, InStepLetGo
  <2>3. CASE pc' # "dealloc"
    <3>1. /\ answered' = answered /\ current' = current
          /\ Start(answered)' = Start(answered) /\ Start(answered + 1)' = Start(answered + 1)
      BY <2>1, AnsweredFrame
    <3>2. answered' <= Len(session') /\ \A i \in 1..answered' : replies'[i] = Answer(session'[i])
      BY <2>1, AnsweredKept
    <3>3. CASE pc' = "recv_tms"
      <4>1. pc = "shift" /\ nextInt > 0 /\ consumed' = consumed + 1 /\ numBits' = nextInt
        BY <1>14, <3>3 DEF cmd_shift, Goto
      <4>2. /\ answered < Len(session) /\ current.cmd = "shift" /\ current.val = nextInt
            /\ consumed + 1 = Start(answered) + 7
        BY <4>1, IntTaken
      <4>3. numBits' > 0 /\ current'.val = numBits' /\ Amid("shift", 7)'
        BY <2>1, <3>1, <4>1, <4>2 DEF Amid
      <4> QED BY <3>2, <3>3, <4>3 DEF InStep, Commands
    <3> QED BY <1>14, <2>0, <2>3, <3>3 DEF cmd_shift, Goto
  <2> QED BY <2>2, <2>3
<1>15. CASE cmd_shift_recv_tms
  <2>1. Serving /\ UNCHANGED <<session, replies>>
    BY <1>15 DEF cmd_shift_recv_tms, Serving, Recvs, wireVars, connVars
  <2>2. CASE pc' = "dealloc"
    BY <2>1, <2>2, InStepLetGo
  <2>3. CASE pc' # "dealloc"
    <3>1. /\ answered' = answered /\ current' = current
          /\ Start(answered)' = Start(answered) /\ Start(answered + 1)' = Start(answered + 1)
      BY <2>1, AnsweredFrame
    <3>2. answered' <= Len(session') /\ \A i \in 1..answered' : replies'[i] = Answer(session'[i])
      BY <2>1, AnsweredKept
    <3>3. /\ pc = "recv_tms" /\ pc' = "recv_tdi" /\ numBits' = numBits
          /\ tmsVector' = Received /\ consumed' = consumed + Wanted
      BY <1>15, <2>3 DEF cmd_shift_recv_tms, Goto
    <3>4. /\ consumed = Start(answered) + 7
          /\ Wanted = bytesPerVector(numBits) /\ Received = VectorOf("tms")
      BY <2>1, <3>3, VectorTaken DEF IndInv, InStep, Amid
    <3>5. /\ numBits > 0 /\ current.val = numBits /\ current.cmd = "shift"
          /\ answered < Len(session) /\ Start(answered) \in Nat /\ bytesPerVector(numBits) \in Nat
      BY <3>3, ShiftAtHand
    <3>6. /\ bytesPerVector(numBits)' = bytesPerVector(numBits)
          /\ VectorOf("tms")' = VectorOf("tms") /\ VectorOf("tdi")' = VectorOf("tdi")
      BY <3>1, <3>3 DEF VectorOf, bytesPerVector
    <3>7. consumed' = Start(answered)' + (7 + bytesPerVector(numBits)')
      BY <3>1, <3>3, <3>4, <3>5, <3>6
    <3>8. Amid("shift", 7 + bytesPerVector(numBits))'
      BY <2>1, <3>1, <3>5, <3>7 DEF Amid
    <3> QED BY <3>1, <3>2, <3>3, <3>4, <3>5, <3>6, <3>8 DEF InStep, Commands
  <2> QED BY <2>2, <2>3
<1>16. CASE cmd_shift_recv_tdi
  <2>1. Serving /\ UNCHANGED <<session, replies>>
    BY <1>16 DEF cmd_shift_recv_tdi, Serving, Recvs, wireVars, connVars
  <2>2. CASE pc' = "dealloc"
    BY <2>1, <2>2, InStepLetGo
  <2>3. CASE pc' # "dealloc"
    <3>1. /\ answered' = answered /\ current' = current
          /\ Start(answered)' = Start(answered) /\ Start(answered + 1)' = Start(answered + 1)
      BY <2>1, AnsweredFrame
    <3>2. answered' <= Len(session') /\ \A i \in 1..answered' : replies'[i] = Answer(session'[i])
      BY <2>1, AnsweredKept
    <3>3. /\ pc = "recv_tdi" /\ pc' = "shift_bits" /\ numBits' = numBits /\ tmsVector' = tmsVector
          /\ tdiVector' = Received /\ consumed' = consumed + Wanted
      BY <1>16, <2>3 DEF cmd_shift_recv_tdi, Goto
    <3>4. /\ consumed = Start(answered) + (7 + bytesPerVector(numBits))
          /\ Wanted = bytesPerVector(numBits) /\ Received = VectorOf("tdi")
          /\ tmsVector = VectorOf("tms")
      BY <2>1, <3>3, VectorTaken DEF IndInv, InStep, Amid
    <3>5. /\ numBits > 0 /\ current.val = numBits /\ current.cmd = "shift"
          /\ answered < Len(session) /\ Start(answered) \in Nat /\ bytesPerVector(numBits) \in Nat
      BY <3>3, ShiftAtHand
    <3>6. /\ bytesPerVector(numBits)' = bytesPerVector(numBits)
          /\ VectorOf("tms")' = VectorOf("tms") /\ VectorOf("tdi")' = VectorOf("tdi")
      BY <3>1, <3>3 DEF VectorOf, bytesPerVector
    <3>7. consumed' = Start(answered)' + (7 + 2 * bytesPerVector(numBits)')
      BY <3>1, <3>3, <3>4, <3>5, <3>6
    <3>8. Amid("shift", 7 + 2 * bytesPerVector(numBits))'
      BY <2>1, <3>1, <3>5, <3>7 DEF Amid
    <3> QED BY <3>1, <3>2, <3>3, <3>4, <3>5, <3>6, <3>8 DEF InStep, Commands
  <2> QED BY <2>2, <2>3
<1>17. CASE cmd_shift_shift_bits
  <2>0. CASE pc' = "aborted"
    BY <2>0 DEF InStep, Serving, Recvs
  <2>1. Serving /\ UNCHANGED <<session, replies>>
    BY <1>17 DEF cmd_shift_shift_bits, Serving, Recvs, wireVars, connVars
  <2>2. CASE pc' = "dealloc"
    BY <2>1, <2>2, InStepLetGo
  <2>3. CASE pc' \notin {"dealloc", "aborted"}
    <3>1. /\ answered' = answered /\ current' = current
          /\ Start(answered)' = Start(answered) /\ Start(answered + 1)' = Start(answered + 1)
      BY <2>1, AnsweredFrame
    <3>2. answered' <= Len(session') /\ \A i \in 1..answered' : replies'[i] = Answer(session'[i])
      BY <2>1, AnsweredKept
    <3>3. /\ pc = "shift_bits" /\ pc' = "send" /\ consumed' = consumed
          /\ response' = <<"tdo", bytesPerVector(numBits)>>
      BY <1>17, <2>3 DEF cmd_shift_shift_bits, Respond, Goto
    <3>4. consumed = Start(answered) + (7 + 2 * bytesPerVector(numBits))
      BY <2>1, <3>3 DEF IndInv, InStep, Amid
    <3>5. /\ current.val = numBits /\ current.cmd = "shift" /\ answered < Len(session)
          /\ Start(answered) \in Nat /\ bytesPerVector(numBits) \in Nat
          /\ Start(answered + 1) = Start(answered) + 7 + 2 * bytesPerVector(numBits)
      BY <3>3, ShiftAtHand
    <3>6. consumed' = Start(answered + 1)'
      BY <3>1, <3>3, <3>4, <3>5
    <3>7. response' = Answer(current)'
      BY <3>1, <3>3, <3>5 DEF Answer
    <3> QED BY <2>1, <3>1, <3>2, <3>3, <3>5, <3>6, <3>7 DEF InStep, Commands
  <2> QED BY <2>0, <2>2, <2>3
<1>18. CASE send_data
  <2>0. Serving /\ pc = "send"
    BY <1>18 DEF send_data, Serving
  <2>1. CASE pc' = "killed"
    BY <2>1 DEF InStep, Serving, Recvs
  <2>2. CASE pc' = "dealloc"
    <3> UNCHANGED <<session, replies>>
      BY <1>18, <2>2 DEF send_data, Sent, Sigpipe, Goto
    <3> QED BY <2>0, <2>2, InStepLetGo
  <2>3. CASE pc' = "command_loop"
    <3>1. replies' = Append(replies, response) /\ session' = session /\ consumed' = consumed
      BY <1>18, <2>3 DEF send_data, Sent, Sigpipe, Goto
    <3>2. /\ answered < Len(session) /\ consumed = Start(answered + 1) /\ response = Answer(current)
          /\ \A i \in 1..answered : replies[i] = Answer(session[i])
      BY <2>0 DEF IndInv, InStep
    <3>3. answered' = answered + 1 /\ \A i \in 1..answered : replies'[i] = replies[i]
      BY <3>1, Counts DEF answered
    <3>4. replies'[answered + 1] = response
      BY <3>1, Counts DEF answered
    <3>5. Start(answered)' = Start(answered + 1)
      BY <3>1, <3>3 DEF Start
    <3>6. answered' <= Len(session')
      BY <3>1, <3>2, <3>3, Counts
    <3>7. \A i \in 1..answered' : replies'[i] = Answer(session'[i])
      <4> HIDE DEF answered
      <4>1. ASSUME NEW i \in 1..(answered + 1) PROVE replies'[i] = Answer(session[i])
        BY <3>2, <3>3, <3>4, Counts DEF current
      <4> QED BY <3>1, <3>3, <4>1
    <3> QED BY <2>3, <3>1, <3>2, <3>5, <3>6, <3>7 DEF InStep, Commands
  <2> QED BY <1>18, <2>1, <2>2, <2>3 DEF send_data, Sent, Sigpipe, Goto
<1>19. CASE Block
  BY <1>19, <1>0, InStepSame DEF Block, connVars
<1>20. CASE Connect
  <2>1. ~Serving
    BY <1>20 DEF Connect, IndInv, InControl
  <2>2. ~Serving'
    BY <1>20, <2>1 DEF Connect, Serving
  <2> QED BY <2>2 DEF InStep
<1>21. CASE Deliver
  BY <1>21, <1>0, InStepSame DEF Deliver, wireVars, connVars
<1>22. CASE Close
  BY <1>22, <1>0, InStepSame DEF Close, wireVars, connVars
<1>23. CASE sigint_handler
  <2>1. CASE blocked /\ ~CanReturn /\ pc = "accept"
    BY <1>23, <2>1 DEF sigint_handler, InStep, Serving, Recvs
  <2>2. CASE blocked /\ ~CanReturn /\ pc # "accept"
    <3>1. Serving
      BY <2>2 DEF IndInv, InControl, Serving
    <3>2. pc' = "dealloc" /\ UNCHANGED <<session, replies>>
      BY <1>23, <2>2 DEF sigint_handler, connVars
    <3> QED BY <3>1, <3>2, InStepLetGo
  <2>3. CASE ~(blocked /\ ~CanReturn)
    <3>1. UNCHANGED <<pc, session, replies, consumed, numBits, tmsVector, tdiVector, response>>
      BY <1>23, <2>3 DEF sigint_handler, connVars
    <3> QED BY <1>0, <3>1, InStepSame
  <2> QED BY <2>1, <2>2, <2>3
<1>24. CASE \E cmd \in Commands : peek_command(cmd)
  <2> PICK cmd \in Commands : peek_command(cmd)
    BY <1>24
  <2>1. Serving /\ UNCHANGED <<session, replies>>
    BY DEF peek_command, Serving, Recvs, wireVars, connVars
  <2>2. /\ pc = "peek" /\ pc' = cmd /\ consumed' = consumed + PrefixSz[cmd]
        /\ answered < Len(session) /\ current.cmd = cmd /\ consumed = Start(answered)
    BY PrefixTaken DEF peek_command, Goto
  <2>3. answered' = answered /\ current' = current /\ Start(answered)' = Start(answered)
    BY <2>1, AnsweredFrame
  <2>4. answered' <= Len(session') /\ \A i \in 1..answered' : replies'[i] = Answer(session'[i])
    BY <2>1, AnsweredKept
  <2>5. Amid(pc, PrefixSz[pc])'
    BY <2>1, <2>2, <2>3 DEF Amid
  <2> QED BY <2>2, <2>4, <2>5 DEF InStep, Commands
<1>25. CASE UNCHANGED vars
  BY <1>25, <1>0, InStepSame DEF vars, wireVars, connVars
<1>26. CASE wrapper_setup
  BY <1>26 DEF wrapper_setup, Goto, InStep, Serving, Recvs
<1>27. CASE Read
  BY <1>27, <1>0, InStepSame DEF Read, connVars
<1> QED
  BY <1>1, <1>2, <1>3, <1>4, <1>5, <1>6, <1>7, <1>8, <1>9, <1>10, <1>11, <1>12,
     <1>13, <1>14, <1>15, <1>16, <1>17, <1>18, <1>19, <1>20, <1>21, <1>22, <1>23, <1>24, <1>25, <1>26, <1>27
  DEF Next, ServerStep, Handlers, Client, Done

(* TypeOK: the bytes of a session can be counted.                          *)
LEMMA StreamLength ==
  ASSUME NEW s \in Sessions \cup {<<>>}
  PROVE  Len(Streams[s][Len(s)]) \in Nat
<1> DEFINE f == Streams[s]
           n == Len(s)
           e == [k \in 1..n |-> Encode(s[k], k)]
<1>1. Pieces(f, n, e, Byte) /\ n \in 0..n
  BY StreamPieces, SessionType
<1> HIDE DEF e, f, n
<1>2. f[n] \in Seq(Byte)
  BY <1>1, PiecesJoin
<1> QED BY <1>2 DEF f, n

(* The step lemma of TypeOK.                                               *)
LEMMA TypeOKStep ==
  ASSUME IndInv, [Next]_vars
  PROVE  TypeOK'
<1> USE DEF TypeOK, Labels, Serving, Recvs, Ended, Commands
<1>0. TypeOK /\ (session' = session => bytes' = bytes)
  BY DEF IndInv, bytes
<1>1. CASE activate
  BY ZenonT(60), <1>1, <1>0 DEF activate, Goto, wireVars, connVars
<1>2. CASE listen
  BY ZenonT(60), <1>2, <1>0 DEF listen, Goto, wireVars, connVars
<1>3. CASE accept_loop
  BY <1>3, <1>0 DEF accept_loop, Goto, wireVars, connVars
<1>4. CASE accept
  <2>1. 0 \in 0..arrived
    BY Counts
  <2>2. replies' \in Seq(Responses)
    BY <1>4 DEF accept
  <2> QED BY <1>4, <1>0, <2>1, <2>2 DEF accept, Goto, wireVars
<1>5. CASE accept_fails
  BY <1>5, <1>0 DEF accept_fails, Goto, wireVars, connVars
<1>6. CASE end_connection
  BY <1>6, <1>0 DEF end_connection, Goto, wireVars, connVars
<1>7. CASE deactivate
  BY <1>7, <1>0 DEF deactivate, Goto, wireVars, connVars
<1>8. CASE command_loop
  BY <1>8, <1>0 DEF command_loop, Goto, wireVars, connVars
<1>9. CASE peek_end_of_stream
  BY <1>9, <1>0 DEF peek_end_of_stream, Goto, wireVars, connVars
<1>10. CASE peek_no_command
  BY <1>10, <1>0 DEF peek_no_command, Goto, wireVars, connVars
<1>11. CASE recv_short
  <2>1. arrived \in 0..arrived
    BY Counts
  <2> QED BY <1>11, <1>0, <2>1 DEF recv_short, Goto, wireVars
<1>12. CASE cmd_getinfo
  BY ZenonT(60), <1>12, <1>0 DEF cmd_getinfo, Respond, Goto, wireVars, connVars
<1>13. CASE cmd_settck
  <2>1. consumed + 1 \in 0..arrived
    BY <1>13, Counts DEF cmd_settck, available, Wanted
  <2> QED BY ZenonT(60), <1>13, <1>0, <2>1 DEF cmd_settck, Respond, Goto, wireVars
<1>14. CASE cmd_shift
  <2>1. consumed + 1 \in 0..arrived
    BY <1>14, Counts DEF cmd_shift, available, Wanted
  <2>2. nextInt \in Int /\ (nextInt > 0 => bytesPerVector(nextInt) \in Nat)
    BY SMTT(30), <1>14, IntTaken, VectorSize DEF cmd_shift
  <2>3. numBits' \in Int /\ vectorNumBytes' \in Nat /\ vectors' \in {0, 3}
    BY <1>14, <1>0, <2>2 DEF cmd_shift, allocate_vectors, Goto
  <2> QED BY ZenonT(60), <1>14, <1>0, <2>1, <2>3 DEF cmd_shift, Goto, wireVars
<1>15. CASE cmd_shift_recv_tms
  <2>1. Wanted = bytesPerVector(numBits) /\ Wanted \in Nat
    BY <1>15, VectorTaken, ShiftAtHand DEF cmd_shift_recv_tms
  <2>2. consumed + Wanted \in 0..arrived
    BY <1>15, <2>1, Counts DEF cmd_shift_recv_tms, available
  <2> QED BY <1>15, <1>0, <2>2 DEF cmd_shift_recv_tms, Goto, wireVars
<1>16. CASE cmd_shift_recv_tdi
  <2>1. Wanted = bytesPerVector(numBits) /\ Wanted \in Nat
    BY <1>16, VectorTaken, ShiftAtHand DEF cmd_shift_recv_tdi
  <2>2. consumed + Wanted \in 0..arrived
    BY <1>16, <2>1, Counts DEF cmd_shift_recv_tdi, available
  <2> QED BY <1>16, <1>0, <2>2 DEF cmd_shift_recv_tdi, Goto, wireVars
<1>17. CASE cmd_shift_shift_bits
  BY ZenonT(60), <1>17, <1>0 DEF cmd_shift_shift_bits, Respond, Goto, wireVars, connVars
<1>18. CASE send_data
  <2>1. response \in Responses
    <3>1. pc = "send" /\ Serving
      BY <1>18 DEF send_data, Serving
    <3>2. answered \in Nat /\ answered < Len(session) /\ response = Answer(current)
      BY <3>1, Counts DEF IndInv, InStep
    <3>3. current \in Request
      BY <3>2, Counts, CurrentBytes
    <3>4. current.val \in Int /\ bytesPerVector(current.val) \in Int
      BY <3>3, VectorSize DEF Request
    <3> QED BY <3>2, <3>4 DEF Answer, Responses
  <2>2. replies' \in Seq(Responses)
    <3>1. replies' = replies \/ replies' = Append(replies, response)
      BY <1>18 DEF send_data, Sent, Sigpipe
    <3> QED BY SMTT(30), <1>0, <2>1, <3>1
  <2> QED BY <1>18, <1>0, <2>2 DEF send_data, Sent, Sigpipe, Goto, wireVars
<1>19. CASE Block
  BY <1>19, <1>0 DEF Block, connVars
<1>20. CASE Connect
  <2>1. ~Serving
    BY <1>20 DEF Connect, IndInv, InControl
  <2>2. 0 \in 0..Len(bytes')
    BY <1>20, StreamLength DEF Connect, bytes
  <2>3. conns' \in 0..MaxConns
    BY <1>20, <1>0, MaxConnsAssumption DEF Connect
  <2> QED BY <1>20, <1>0, <2>1, <2>2, <2>3 DEF Connect, connVars
<1>21. CASE Deliver
  <2>1. arrived' \in 0..Len(bytes) /\ session' = session
    BY <1>21, Counts, Positions DEF Deliver
  <2>2. bytes' = bytes
    BY <2>1 DEF bytes
  <2>3. Serving => consumed \in 0..arrived'
    BY <1>21, Counts DEF Deliver
  <2> QED BY <1>21, <1>0, <2>1, <2>2, <2>3 DEF Deliver, connVars
<1>22. CASE Close
  BY <1>22, <1>0 DEF Close, wireVars, connVars
<1>23. CASE sigint_handler
  <2>1. blocked => pc \in Recvs \cup {"accept", "send"}
    BY DEF IndInv, InControl
  <2> HIDE DEF CanReturn
  <2>2. /\ UNCHANGED <<driver, peer, pipelined, conns, session, arrived, consumed, numBits, vectorNumBytes, vectors,
                        replies>>
        /\ shouldTerminate' = TRUE /\ room' \in {room, "all"}
    BY <1>23 DEF sigint_handler, connVars
  <2>3. \/ UNCHANGED <<pc, blocked>>
        \/ blocked /\ blocked' = FALSE /\ pc' = (IF pc = "accept" THEN "accept_loop" ELSE "dealloc")
    BY Zenon, <1>23 DEF sigint_handler
  <2>4. pc' \in Labels /\ blocked' \in BOOLEAN /\ (Serving' => Serving)
    BY <1>0, <2>1, <2>3
  <2> HIDE DEF Serving, Labels
  <2> QED BY <1>0, <2>2, <2>4
<1>24. CASE \E cmd \in Commands : peek_command(cmd)
  <2> PICK cmd \in Commands : peek_command(cmd)
    BY <1>24
  <2>1. consumed + PrefixSz[cmd] \in 0..arrived
    BY PrefixTaken DEF peek_command
  <2> QED BY ZenonT(60), <1>0, <2>1 DEF peek_command, Goto, wireVars
<1>25. CASE UNCHANGED vars
  BY <1>25, <1>0 DEF vars, wireVars, connVars
<1>26. CASE wrapper_setup
  BY ZenonT(60), <1>26, <1>0 DEF wrapper_setup, Goto, wireVars, connVars
<1>27. CASE Read
  BY <1>27, <1>0 DEF Read, connVars
<1> QED
  BY <1>1, <1>2, <1>3, <1>4, <1>5, <1>6, <1>7, <1>8, <1>9, <1>10, <1>11, <1>12,
     <1>13, <1>14, <1>15, <1>16, <1>17, <1>18, <1>19, <1>20, <1>21, <1>22, <1>23, <1>24, <1>25, <1>26, <1>27
  DEF Next, ServerStep, Handlers, Client, Done

(* OneUnanswered: as long as nothing arrives, what arrived is the same.    *)
LEMMA ArrivedFrame ==
  ASSUME UNCHANGED <<session, arrived>>
  PROVE  ArrivedCommands' = ArrivedCommands
BY DEF ArrivedCommands

(* Steps that leave client and responses alone, and go on with the         *)
(* connection or end the process, leave as much unanswered as before.      *)
LEMMA UnansweredFrame ==
  ASSUME OneUnanswered, UNCHANGED <<peer, pipelined, session, arrived, replies>>,
         room' \in {room, "all"}, pc \notin Ended, pc' # "killed", Serving' => Serving,
         Serving /\ ~Serving' => pc' \in Ended
  PROVE  OneUnanswered'
<1>1. ArrivedCommands' = ArrivedCommands /\ answered' = answered
  BY ArrivedFrame, AnsweredFrame
<1> HIDE DEF ArrivedCommands, answered
<1>3. peer' = peer /\ pipelined' = pipelined /\ Serving' \in BOOLEAN /\ Serving \in BOOLEAN
  BY DEF Serving
<1> HIDE DEF Serving
<1>4. gone' = gone
  BY DEF gone
<1> QED BY <1>1, <1>3, <1>4 DEF OneUnanswered

(* The step lemma of OneUnanswered.                                        *)
LEMMA OneUnansweredStep ==
  ASSUME IndInv, [Next]_vars
  PROVE  OneUnanswered'
<1>0. InControl /\ InStep /\ OneUnanswered
  BY DEF IndInv
<1>1. CASE activate
  BY <1>1, <1>0, UnansweredFrame
  DEF activate, Goto, Serving, Recvs, Ended, wireVars, connVars
<1>2. CASE listen
  BY <1>2, <1>0, UnansweredFrame
  DEF listen, Goto, Serving, Recvs, Ended, wireVars, connVars
<1>3. CASE accept_loop
  BY <1>3, <1>0, UnansweredFrame
  DEF accept_loop, Goto, Serving, Recvs, Ended, wireVars, connVars
<1>4. CASE accept
  <2>1. /\ UNCHANGED <<peer, pipelined, session, arrived>> /\ replies' = <<>>
        /\ pc = "accept" /\ pc' = "command_loop"
    BY <1>4 DEF accept, Goto, wireVars
  <2>2. ArrivedCommands' = ArrivedCommands /\ answered' = 0
    BY <2>1, ArrivedFrame DEF answered
  <2>3. peer # "reset" /\ ~Serving /\ Serving'
    BY <1>0, <2>1 DEF InControl, Serving, Recvs, Ended
  <2>4. room' = "all" /\ pc' # "killed"
    BY <1>0, <1>4 DEF accept, Goto, wireVars, InControl
  <2> QED BY <1>0, <2>1, <2>2, <2>3, <2>4 DEF OneUnanswered, Ended
<1>5. CASE accept_fails
  BY <1>5 DEF accept_fails, Goto, OneUnanswered, gone
<1>6. CASE end_connection
  BY <1>6 DEF end_connection, Goto, OneUnanswered, gone
<1>7. CASE deactivate
  BY <1>7, <1>0, UnansweredFrame
  DEF deactivate, Goto, Serving, Recvs, Ended, wireVars, connVars
<1>8. CASE command_loop
  BY <1>8, <1>0, UnansweredFrame
  DEF command_loop, Goto, Serving, Recvs, Ended, wireVars, connVars
<1>9. CASE peek_end_of_stream
  BY <1>9, <1>0, UnansweredFrame
  DEF peek_end_of_stream, Goto, Serving, Recvs, Ended, wireVars, connVars
<1>10. CASE peek_no_command
  BY <1>10, <1>0, UnansweredFrame
  DEF peek_no_command, Goto, Serving, Recvs, Ended, wireVars, connVars
<1>11. CASE recv_short
  BY <1>11, <1>0, UnansweredFrame
  DEF recv_short, Goto, Serving, Recvs, Ended, wireVars, connVars
<1>12. CASE cmd_getinfo
  BY <1>12, <1>0, UnansweredFrame
  DEF cmd_getinfo, Respond, Goto, Serving, Recvs, Ended, wireVars, connVars
<1>13. CASE cmd_settck
  BY <1>13, <1>0, UnansweredFrame
  DEF cmd_settck, Respond, Goto, Serving, Recvs, Ended, wireVars, connVars
<1>14. CASE cmd_shift
  BY <1>14, <1>0, UnansweredFrame
  DEF cmd_shift, Goto, Serving, Recvs, Ended, wireVars, connVars
<1>15. CASE cmd_shift_recv_tms
  BY <1>15, <1>0, UnansweredFrame
  DEF cmd_shift_recv_tms, Goto, Serving, Recvs, Ended, wireVars, connVars
<1>16. CASE cmd_shift_recv_tdi
  BY <1>16, <1>0, UnansweredFrame
  DEF cmd_shift_recv_tdi, Goto, Serving, Recvs, Ended, wireVars, connVars
<1>17. CASE cmd_shift_shift_bits
  BY <1>17, <1>0, UnansweredFrame
  DEF cmd_shift_shift_bits, Respond, Goto, Serving, Recvs, Ended, wireVars, connVars
<1>18. CASE send_data
  <2>0. /\ pc = "send" /\ Serving /\ UNCHANGED <<pipelined, session, arrived>>
        /\ answered \in Nat /\ answered < Len(session)
    BY <1>18, <1>0, Counts DEF send_data, Serving, InStep
  <2>a. ArrivedCommands' = ArrivedCommands /\ \A k \in ArrivedCommands : k \in Nat
    BY <2>0, ArrivedFrame, Counts DEF ArrivedCommands
  <2>b. answered + 1 \in ArrivedCommands
    <3>1. consumed = Start(answered + 1) /\ consumed <= arrived /\ consumed \in Nat /\ arrived \in Nat
      BY <1>0, <2>0, Counts DEF InStep
    <3>2. answered + 1 \in 1..Len(session)
      BY <2>0, Counts
    <3> QED BY <3>1, <3>2 DEF ArrivedCommands, Start
  <2>1. CASE pc' = "killed"
    <3>1. peer = "reset" \/ (room = "none" /\ gone)
      BY <1>18, <2>1 DEF send_data, Sent, Sigpipe, Goto, CanReturn
    <3>2. pipelined \in BOOLEAN /\ peer' = peer /\ room' = "all"
      BY <1>18, <2>1 DEF send_data, Sent, Sigpipe, Goto, IndInv, TypeOK
    <3>3. pipelined
      BY <1>0, <2>0, <2>a, <2>b, <3>1, <3>2 DEF OneUnanswered
    <3>4. gone'
      BY <3>1, <3>2 DEF gone
    <3> QED BY <2>0, <2>1, <3>2, <3>3, <3>4 DEF OneUnanswered, Ended, Serving, Recvs
  <2>2. CASE pc' = "dealloc"
    <3>1. UNCHANGED <<peer, replies>> /\ room' = "all"
      BY <1>18, <2>2 DEF send_data, Sent, Sigpipe, Goto
    <3> QED BY <1>0, <2>0, <2>2, <3>1, UnansweredFrame DEF Ended, Serving
  <2>3. CASE pc' = "command_loop"
    <3>1. replies' = Append(replies, response) /\ peer # "reset" /\ room' = "all"
      BY <1>18, <2>3 DEF send_data, Sent, Sigpipe, Goto
    <3>2. peer' = peer \/ (peer = "closed" /\ peer' = "reset")
      BY <1>18, <2>3 DEF send_data, Sent, Sigpipe, Goto
    <3>3. answered' = answered + 1
      BY <3>1, Counts DEF answered
    <3>4. Serving'
      BY <2>3 DEF Serving
    <3>5. peer = "closed" /\ ~pipelined => \A k \in ArrivedCommands : k <= answered + 1
      BY <1>0, <2>0 DEF OneUnanswered, Ended
    <3> HIDE DEF ArrivedCommands, answered, Serving
    <3>6. peer = "closed" /\ ~pipelined' => \A k \in ArrivedCommands' : k <= answered'
      BY <2>0, <2>a, <3>3, <3>5
    <3>7. peer = "closed" /\ ~pipelined' => \A k \in ArrivedCommands' : k <= answered' + 1
      BY <2>0, <2>a, <3>3, <3>6
    <3>8. peer' \in {"closed", "reset"} => peer = "closed"
      BY <3>1, <3>2
    <3> QED BY <2>3, <3>1, <3>4, <3>6, <3>7, <3>8 DEF OneUnanswered
  <2> QED BY <1>18, <2>1, <2>2, <2>3 DEF send_data, Sent, Sigpipe, Goto
<1>19. CASE Block
  <2>1. UNCHANGED <<pc, peer, pipelined, session, arrived, replies>>
    BY <1>19 DEF Block, connVars
  <2>2. ArrivedCommands' = ArrivedCommands /\ answered' = answered /\ Serving' = Serving
    BY <2>1, ArrivedFrame, AnsweredFrame DEF Serving
  <2>3. gone /\ room' = "none" => pipelined
    BY <1>19, <1>0 DEF Block, OneUnanswered, gone
  <2> QED BY <1>0, <2>1, <2>2, <2>3 DEF OneUnanswered, gone
<1>20. CASE Connect
  BY <1>20, <1>0 DEF Connect, OneUnanswered, Ended, gone
<1>21. CASE Deliver
  BY <1>21, <1>0 DEF Deliver, OneUnanswered, gone, Ended
<1>22. CASE Close
  <2>1. /\ UNCHANGED <<pc, session, arrived, replies>> /\ peer = "connected" /\ peer' = "closed"
        /\ pipelined' = \/ room = "none"
                         \/ \E k \in ArrivedCommands : k > (IF Serving THEN answered ELSE 0) + 1
        /\ room' = room
    BY <1>22 DEF Close, connVars, answered
  <2>2. ArrivedCommands' = ArrivedCommands /\ answered' = answered /\ (Serving' <=> Serving)
    BY <2>1, ArrivedFrame, AnsweredFrame DEF Serving
  <2>3. \A k \in ArrivedCommands : k \in Nat
    BY Counts DEF ArrivedCommands
  <2>4. answered \in Nat
    BY Counts
  <2> HIDE DEF ArrivedCommands, answered, Serving
  <2>5. ~pipelined' => \A k \in ArrivedCommands : k <= (IF Serving THEN answered ELSE 0) + 1
    BY <2>1, <2>3, <2>4
  <2>6. pc' # "killed"
    BY <1>0, <2>1 DEF OneUnanswered, gone
  <2> QED BY <2>1, <2>2, <2>5, <2>6 DEF OneUnanswered
<1>23. CASE sigint_handler
  <2>1. /\ UNCHANGED <<peer, pipelined, session, arrived, replies>> /\ pc \notin Ended
        /\ room' \in {room, "all"}
    BY <1>23 DEF sigint_handler, connVars
  <2>2. \/ pc' = pc
        \/ pc = "accept" /\ pc' = "accept_loop"
        \/ pc \in Recvs \cup {"send"} /\ pc' = "dealloc"
    BY <1>23, <1>0 DEF sigint_handler, InControl
  <2>3. pc' # "killed" /\ (Serving' <=> Serving)
    BY <2>1, <2>2 DEF Serving, Recvs, Ended
  <2> QED BY <1>0, <2>1, <2>3, UnansweredFrame
<1>24. CASE \E cmd \in Commands : peek_command(cmd)
  <2> PICK cmd \in Commands : peek_command(cmd)
    BY <1>24
  <2> QED BY <1>0, UnansweredFrame DEF peek_command, Goto, Commands, Serving, Recvs, Ended, wireVars
<1>25. CASE UNCHANGED vars
  <2>1. UNCHANGED <<pc, peer, room, pipelined, session, arrived, replies>>
    BY <1>25 DEF vars, wireVars, connVars
  <2>2. ArrivedCommands' = ArrivedCommands /\ answered' = answered /\ Serving' = Serving
    BY <2>1, ArrivedFrame, AnsweredFrame DEF Serving
  <2> QED BY <1>0, <2>1, <2>2 DEF OneUnanswered, gone
<1>26. CASE wrapper_setup
  BY <1>26, <1>0, UnansweredFrame
  DEF wrapper_setup, Goto, Serving, Recvs, Ended, wireVars, connVars
<1>27. CASE Read
  <2>1. /\ UNCHANGED <<pc, peer, pipelined, session, arrived, replies>>
        /\ peer = "connected" /\ room' = "all"
    BY <1>27 DEF Read, connVars
  <2>2. pc' # "killed"
    BY <1>0, <2>1 DEF OneUnanswered, gone
  <2> QED BY <2>1, <2>2 DEF OneUnanswered, gone
<1> QED
  BY <1>1, <1>2, <1>3, <1>4, <1>5, <1>6, <1>7, <1>8, <1>9, <1>10, <1>11, <1>12,
     <1>13, <1>14, <1>15, <1>16, <1>17, <1>18, <1>19, <1>20, <1>21, <1>22, <1>23, <1>24, <1>25, <1>26, <1>27
  DEF Next, ServerStep, Handlers, Client, Done

-----------------------------------------------------------------------------
(* The theorems.                                                           *)

(* The process starts with nothing allocated and nobody connected.         *)
LEMMA IndInvInit == Init => IndInv
<1> SUFFICES ASSUME Init PROVE IndInv
  OBVIOUS
<1>1. TypeOK
  <2>1. 0 \in 0..Len(bytes)
    <3> session \in Sessions \cup {<<>>}  BY DEF Init
    <3> QED BY StreamLength DEF bytes
  <2>2. replies \in Seq(Responses) /\ 0 \in 0..MaxConns
    BY MaxConnsAssumption DEF Init
  <2>3. arrived = 0 /\ arrived \in 0..Len(bytes)
    BY <2>1 DEF Init
  <2>4. conns \in 0..MaxConns /\ session \in Sessions \cup {<<>>} /\ ~Serving
    BY <2>2 DEF Init, Serving, Recvs
  <2>5. pc \in Labels
    BY DEF Init, Labels
  <2> HIDE DEF Serving
  <2>6. /\ blocked \in BOOLEAN /\ shouldTerminate \in BOOLEAN /\ pipelined \in BOOLEAN
        /\ room \in {"all", "part", "none"}
    BY Zenon DEF Init
  <2>7. driver \in {"inactive", "active"} /\ peer \in {"none", "connected", "closed", "reset"}
    BY Zenon DEF Init
  <2>8. numBits \in Int /\ vectorNumBytes \in Nat /\ vectors \in {0, 3}
    BY DEF Init
  <2> QED BY <2>2, <2>3, <2>4, <2>5, <2>6, <2>7, <2>8, Zenon DEF TypeOK
<1>2. InControl /\ VectorsHeld /\ InStep /\ OneUnanswered
  BY DEF Init, InControl, VectorsHeld, InStep, OneUnanswered, Serving, Recvs, Ended
<1> QED BY <1>1, <1>2 DEF IndInv

(* Every step of the server, its clients and the signal handler keeps the  *)
(* place in the byte stream, the vectors and the driver in agreement.      *)
THEOREM Invariance == Spec => []IndInv
<1>1. IndInv /\ [Next]_vars => IndInv'
  BY TypeOKStep, InControlStep, VectorsHeldStep, InStepStep, OneUnansweredStep DEF IndInv
<1> QED BY IndInvInit, <1>1, PTL DEF Spec

(* The server is never ahead of the wire, for clients that send anything.  *)
THEOREM TypeCorrect == Spec => []TypeOK
<1>1. IndInv => TypeOK
  BY DEF IndInv
<1> QED BY Invariance, <1>1, PTL

(* However the bytes are cut up, the n-th response answers the client's    *)
(* n-th command (run_connectin() and the handlers).                        *)
THEOREM Ordered == Spec => []RepliesInOrder
<1>1. IndInv => RepliesInOrder
  BY DEF IndInv, InStep, RepliesInOrder, answered
<1> QED BY Invariance, <1>1, PTL

(* The driver shifts only vectors that arrived in full, TMS and TDI of one *)
(* command, for the number of bits it announced (cmd_shift()).             *)
THEOREM WholeVectors == Spec => []ShiftsWholeVectors
<1>1. IndInv => ShiftsWholeVectors
  <2> SUFFICES ASSUME IndInv, pc = "shift_bits"
               PROVE  LET k == Len(replies) + 1
                          n == bytesPerVector(numBits)
                      IN  /\ k <= Len(session) /\ session[k] = [cmd |-> "shift", val |-> numBits]
                          /\ tmsVector = [i \in 1..n |-> <<"tms", k>>]
                          /\ tdiVector = [i \in 1..n |-> <<"tdi", k>>]
    BY DEF ShiftsWholeVectors
  <2>1. answered < Len(session) /\ answered \in Nat /\ current = [cmd |-> "shift", val |-> numBits]
    BY ShiftAtHand DEF Request
  <2>2. answered + 1 <= Len(session)
    BY <2>1, Counts
  <2>3. tmsVector = VectorOf("tms") /\ tdiVector = VectorOf("tdi")
    BY DEF IndInv, InStep, Serving
  <2> QED BY <2>1, <2>2, <2>3 DEF VectorOf, answered, current
<1> QED BY Invariance, <1>1, PTL

(* Vectors are allocated and large enough whenever something is received   *)
(* into them, shifted or sent, and released with the connection.           *)
THEOREM VectorsSuffice == Spec => []VectorsFit
<1>1. IndInv => VectorsFit
  <2> SUFFICES ASSUME IndInv PROVE VectorsFit
    OBVIOUS
  <2>1. VectorsHeld /\ vectorNumBytes \in Nat /\ vectors \in {0, 3}
    BY DEF IndInv, TypeOK
  <2>2. pc \in {"recv_tms", "recv_tdi", "shift_bits"} =>
          bytesPerVector(numBits) \in Nat /\ bytesPerVector(numBits) > 0
    BY ShiftAtHand
  <2>3. ASSUME pc = "send", response[1] = "tdo" PROVE response[2] \in Int
    <3>1. answered \in Nat /\ answered < Len(session) /\ response = Answer(current)
      BY <2>3, Counts DEF IndInv, InStep, Serving
    <3>2. current \in Request
      BY <3>1, Counts, CurrentBytes
    <3> QED BY <3>1, <3>2, VectorSize DEF Answer, Request
  <2>4. Serving /\ vectorNumBytes > 0 => vectors = 3
    BY <2>1 DEF VectorsHeld
  <2>5. pc \in {"recv_tms", "recv_tdi", "shift_bits"} => vectors = 3
    BY <2>1, <2>2, <2>4 DEF VectorsHeld, Serving, Recvs
  <2>6. pc = "send" /\ response[1] = "tdo" => vectors = 3
    BY <2>1, <2>3, <2>4 DEF VectorsHeld, Serving
  <2> QED BY <2>1, <2>5, <2>6 DEF VectorsFit, VectorsHeld
<1> QED BY Invariance, <1>1, PTL

(* The driver is active while it may be called, and inactive once main()   *)
(* returns.                                                                *)
THEOREM Released == Spec => []DriverReleased
<1>1. IndInv => DriverReleased
  BY DEF IndInv, InControl, DriverReleased, Serving, Recvs
<1> QED BY Invariance, <1>1, PTL

(* A client that reads each answer before it sends the next command can    *)
(* not kill the server by leaving (send_data(): one send() per response).  *)
THEOREM SigpipeOnlyPipelined == Spec => []SigpipeNeedsPipelining
<1>1. IndInv => SigpipeNeedsPipelining
  BY DEF IndInv, OneUnanswered, SigpipeNeedsPipelining
<1> QED BY Invariance, <1>1, PTL
=============================================================================
