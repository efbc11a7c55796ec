------------------------------ MODULE Induction ------------------------------
(***************************************************************************)
(* Induction over the naturals as a statement about sets, and what it says *)
(* of sequences that are concatenated piece by piece, as the bytes of a    *)
(* client's commands are (server.c:195) and the bytes of MPSSE commands    *)
(* (ftdi_generic.c).  It is derived from the well-foundedness of < .       *)
(***************************************************************************)
EXTENDS Integers, Sequences, WellFoundedInduction, TLAPS

(* A set of naturals has a least element.                                  *)
LEMMA NatMinimum ==
  ASSUME NEW T \in SUBSET Nat, T # {}
  PROVE  \E n \in T : \A m \in T : n <= m
<1>1. IsWellFoundedOn(OpToRel(<, Nat), Nat)
  BY NatLessThanWellFounded
<1>2. PICK n \in T : \A m \in T : ~(<<m, n>> \in OpToRel(<, Nat))
  <2> HIDE DEF OpToRel
  <2> QED BY <1>1, WFMin
<1>3. \A m \in T : ~(m < n)
  BY <1>2 DEF OpToRel
<1> QED BY <1>3

(* A set that holds 0 and the successor of each of its naturals holds all. *)
LEMMA SetInduction ==
  ASSUME NEW S, 0 \in S, \A n \in Nat : n \in S => n + 1 \in S
  PROVE  \A n \in Nat : n \in S
<1> SUFFICES ASSUME Nat \ S # {} PROVE FALSE
  OBVIOUS
<1>1. PICK n \in Nat \ S : \A m \in Nat \ S : n <= m
  <2> Nat \ S \in SUBSET Nat OBVIOUS
  <2> QED BY NatMinimum
<1>2. n - 1 \in Nat /\ n - 1 \in S
  BY <1>1
<1> QED BY <1>1, <1>2

(* A set of naturals that is bounded has a greatest element.               *)
LEMMA NatMaximum ==
  ASSUME NEW T \in SUBSET Nat, T # {}, NEW b \in Nat, \A m \in T : m <= b
  PROVE  \E n \in T : \A m \in T : n >= m
<1> DEFINE D == {d \in Nat : b - d \in T}
<1>1. D \in SUBSET Nat /\ D # {}
  <2>1. PICK m \in T : TRUE
    OBVIOUS
  <2>2. b - m \in Nat /\ b - (b - m) = m
    BY <2>1
  <2>3. b - m \in D
    BY <2>1, <2>2
  <2> QED BY <2>3
<1>2. PICK d \in D : \A e \in D : d <= e
  <2> HIDE DEF D
  <2> QED BY <1>1, NatMinimum
<1>3. b - d \in T
  BY <1>2
<1>4. ASSUME NEW m \in T PROVE b - d >= m
  <2>1. b - m \in Nat /\ b - (b - m) = m
    OBVIOUS
  <2>2. b - m \in D
    BY <2>1
  <2>3. d \in Nat /\ d <= b - m
    BY <1>2, <2>2
  <2> QED BY <2>3
<1> QED BY <1>3, <1>4

-----------------------------------------------------------------------------
(* f[k] is the concatenation of the first k of the n pieces e[1], e[2] ... *)
Concatenates(f, n, e) == f = [k \in 0..n |-> IF k = 0 THEN <<>> ELSE f[k - 1] \o e[k]]

(* There is such a function, so that a recursive definition of it defines  *)
(* one.                                                                    *)
LEMMA ConcatenationExists ==
  ASSUME NEW N \in Nat, NEW e
  PROVE  \E f : Concatenates(f, N, e)
<1> DEFINE S == {n \in Nat : \E f : Concatenates(f, n, e)}
<1>1. 0 \in S
  <2> DEFINE f == [k \in 0..0 |-> <<>>]
  <2>1. Concatenates(f, 0, e)
    BY DEF Concatenates
  <2> QED BY <2>1
<1>2. ASSUME NEW n \in Nat, n \in S PROVE n + 1 \in S
  <2>1. PICK f : Concatenates(f, n, e)
    BY <1>2
  <2> DEFINE g == [k \in 0..(n + 1) |-> IF k = n + 1 THEN f[n] \o e[n + 1] ELSE f[k]]
  <2>2. f = [k \in 0..n |-> IF k = 0 THEN <<>> ELSE f[k - 1] \o e[k]]
    BY <2>1 DEF Concatenates
  <2>3. \A k \in 0..(n + 1) : g[k] = IF k = 0 THEN <<>> ELSE g[k - 1] \o e[k]
    BY <2>2
  <2>4. g = [k \in 0..(n + 1) |-> g[k]]
    OBVIOUS
  <2> HIDE DEF g
  <2>5. g = [k \in 0..(n + 1) |-> IF k = 0 THEN <<>> ELSE g[k - 1] \o e[k]]
    BY <2>3, <2>4
  <2>6. Concatenates(g, n + 1, e)
    BY <2>5 DEF Concatenates
  <2> QED BY <2>6
<1> HIDE DEF S
<1>3. \A n \in Nat : n \in S
  BY <1>1, <1>2, SetInduction
<1> QED BY <1>3 DEF S

(* ... of sequences over T.                                                *)
Pieces(f, n, e, T) == n \in Nat /\ (\A k \in 1..n : e[k] \in Seq(T)) /\ Concatenates(f, n, e)

(* c is a followed by b; a is what c starts with.                          *)
Joins(c, a, b) ==
  /\ Len(a) \in Nat /\ Len(b) \in Nat /\ Len(c) = Len(a) + Len(b)
  /\ \A i \in 1..Len(a) : c[i] = a[i]
  /\ \A i \in 1..Len(b) : c[Len(a) + i] = b[i]
Starts(a, c) == Len(a) <= Len(c) /\ \A i \in 1..Len(a) : c[i] = a[i]

(* Concatenation joins.                                                    *)
LEMMA ConcatJoins ==
  ASSUME NEW T, NEW a \in Seq(T), NEW b \in Seq(T)
  PROVE  a \o b \in Seq(T) /\ Joins(a \o b, a, b)
BY DEF Joins

(* A start of the first part is a start of the whole.                      *)
LEMMA StartsOfJoin ==
  ASSUME NEW x, NEW a, NEW b, NEW c, Len(x) \in Nat, Starts(x, a), Joins(c, a, b)
  PROVE  Starts(x, c)
BY DEF Starts, Joins

(* The concatenations start empty, each is the one before and its piece.   *)
LEMMA PiecesJoin ==
  ASSUME NEW f, NEW N, NEW e, NEW T, Pieces(f, N, e, T)
  PROVE  /\ f[0] = <<>>
         /\ \A k \in 0..N : f[k] \in Seq(T)
         /\ \A k \in 1..N : Joins(f[k], f[k - 1], e[k])
<1> DEFINE S == {n \in Nat : n <= N => f[n] \in Seq(T)}
<1>0. N \in Nat /\ \A k \in 1..N : e[k] \in Seq(T)
  BY DEF Pieces
<1> DEFINE h == [k \in 0..N |-> IF k = 0 THEN <<>> ELSE f[k - 1] \o e[k]]
<1>h. f = h /\ N \in Nat
  BY ZenonT(60) DEF Pieces, Concatenates
<1>u. h[0] = <<>> /\ \A k \in 1..N : h[k] = f[k - 1] \o e[k]
  BY <1>h
<1> HIDE DEF h
<1>1. f[0] = <<>>
  BY <1>h, <1>u
<1>2. ASSUME NEW k \in 1..N, f[k - 1] \in Seq(T)
      PROVE  f[k] \in Seq(T) /\ Joins(f[k], f[k - 1], e[k])
  <2>1. f[k] = f[k - 1] \o e[k]
    BY <1>h, <1>u
  <2> QED BY <1>0, <1>2, <2>1, ConcatJoins
<1>3. 0 \in S
  <2> f[0] \in Seq(T)  BY <1>1
  <2> QED OBVIOUS
<1>4. ASSUME NEW n \in Nat, n \in S PROVE n + 1 \in S
  <2> SUFFICES ASSUME n + 1 <= N PROVE f[n + 1] \in Seq(T)
    OBVIOUS
  <2>1. n + 1 \in 1..N /\ (n + 1) - 1 = n
    BY <1>0
  <2>2. f[(n + 1) - 1] \in Seq(T)
    BY <1>0, <1>4, <2>1
  <2> QED BY <1>2, <2>1, <2>2
<1> HIDE DEF S
<1>5. \A n \in Nat : n \in S
  BY <1>3, <1>4, SetInduction
<1>6. \A k \in 0..N : f[k] \in Seq(T)
  BY <1>0, <1>5 DEF S
<1> QED BY <1>0, <1>1, <1>2, <1>6

(* They grow, and what they are made of stays in place.                    *)
LEMMA PiecesGrow ==
  ASSUME NEW f, NEW N, NEW e, NEW T, Pieces(f, N, e, T),
         NEW j \in 0..N, NEW k \in 0..N, j <= k
  PROVE  Starts(f[j], f[k])
<1> DEFINE S == {n \in Nat : j + n <= N => Starts(f[j], f[j + n])}
<1>0. N \in Nat /\ \A n \in 0..N : Len(f[n]) \in Nat
  <2> \A n \in 0..N : f[n] \in Seq(T)  BY PiecesJoin
  <2> QED BY DEF Pieces
<1>1. 0 \in S
  <2> Starts(f[j], f[j])  BY <1>0 DEF Starts
  <2> QED BY <1>0
<1>2. ASSUME NEW n \in Nat, n \in S PROVE n + 1 \in S
  <2> DEFINE m == j + (n + 1)
  <2> SUFFICES ASSUME m <= N PROVE Starts(f[j], f[m])
    OBVIOUS
  <2>1. m \in 1..N /\ m - 1 = j + n /\ m - 1 \in 0..N
    BY <1>0
  <2>2. Starts(f[j], f[m - 1])
    BY <1>2, <2>1, <1>0
  <2> HIDE DEF m
  <2>3. Joins(f[m], f[m - 1], e[m])
    BY <2>1, PiecesJoin
  <2> QED BY <1>0, <2>2, <2>3, StartsOfJoin
<1> HIDE DEF S
<1>3. \A n \in Nat : n \in S
  BY <1>1, <1>2, SetInduction
<1>4. k - j \in S /\ j + (k - j) = k /\ k <= N
  BY <1>0, <1>3
<1> QED BY <1>4 DEF S
=============================================================================
