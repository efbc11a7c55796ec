----------------------------- MODULE TxvcProofs -----------------------------
(***************************************************************************)
(* The life of the txvc process: what main() (txvc/txvc.c) and the FTDI    *)
(* driver's activate() (libdrivers/ftdi_generic.c) make of any profile,    *)
(* with any devices connected and whatever call fails.                     *)
(***************************************************************************)
EXTENDS LogProofs

-----------------------------------------------------------------------------
(* The text of a profile, as its grammar has it.                           *)

(* The words of a text.  Those of the aliases are strings, too, which the  *)
(* provers do not know of a literal.                                       *)
AliasWords ==
  { "ftdi-generic", ":", "=", ",", "device", "vid", "pid", "channel", "read_latency_millis", "1",
    "d4", "d5", "d6", "d7", "ft232h", "ft2232h", "0403", "6014", "2a19", "1009", "100E", "100D", "A", "B",
    "ignored", "driver_low" }

Words == STRING \cup AliasWords

COLON == ":"
COMMA == ","
EQUALS == "="

Colon(t) == strchr(t, 1, COLON)

(* The places at which arguments begin. *)
ArgStarts(t) ==
  {i \in 1..Len(t) : Colon(t) # 0 /\ i > Colon(t) /\ (i = Colon(t) + 1 \/ t[i - 1] = COMMA)}

(* One argument: its last token, its "=", its key and its value; what the  *)
(* parser looks at next.                                                   *)
EndOf(t, i)   == IF strchr(t, i, COMMA) = 0 THEN Len(t) ELSE strchr(t, i, COMMA) - 1
EqOf(t, i)    == strchr(SubSeq(t, 1, EndOf(t, i)), i, EQUALS)
KeyOf(t, i)   == SubSeq(t, i, IF EqOf(t, i) = 0 THEN EndOf(t, i) ELSE EqOf(t, i) - 1)
ValueOf(t, i) == IF EqOf(t, i) = 0 THEN <<>> ELSE SubSeq(t, EqOf(t, i) + 1, EndOf(t, i))
NextOf(t, i)  == IF strchr(t, i, COMMA) = 0 THEN 0 ELSE strchr(t, i, COMMA) + 1

(* An argument is the parameter p.                                         *)
IsFor(t, i, p) == t[i] = p /\ (i = Len(t) \/ t[i + 1] \in {EQUALS, COMMA})

-----------------------------------------------------------------------------
(* strchr() finds the first c at or behind i.                              *)
LEMMA StrchrFinds ==
  ASSUME NEW s \in Seq(Words), NEW i \in Nat, NEW c
  PROVE  /\ strchr(s, i, c) \in Nat
         /\ \/ strchr(s, i, c) = 0 /\ \A j \in i..Len(s) : s[j] # c
            \/ /\ strchr(s, i, c) \in i..Len(s) /\ s[strchr(s, i, c)] = c
               /\ \A j \in i..(strchr(s, i, c) - 1) : s[j] # c
<1> DEFINE at == {j \in i..Len(s) : s[j] = c}
<1>1. CASE at = {}
  BY <1>1 DEF strchr
<1>2. CASE at # {}
  <2>1. at \in SUBSET Nat
    OBVIOUS
  <2>2. PICK n \in at : \A m \in at : n <= m
    BY <1>2, <2>1, NatMinimum
  <2>3. Min(at) \in at /\ \A m \in at : Min(at) <= m
    BY <2>2 DEF Min
  <2>4. strchr(s, i, c) = Min(at)
    BY <1>2 DEF strchr
  <2>5. \A j \in i..(Min(at) - 1) : s[j] # c
    <3> SUFFICES ASSUME NEW j \in i..(Min(at) - 1), s[j] = c PROVE FALSE
      OBVIOUS
    <3>1. Min(at) \in Nat /\ Min(at) <= Len(s)
      BY <2>3
    <3>2. j \in i..Len(s) /\ j < Min(at)
      BY <3>1
    <3>3. j \in at /\ j \in Nat
      BY <3>2
    <3> QED BY <2>3, <3>1, <3>2, <3>3
  <2> QED BY <2>3, <2>4, <2>5
<1> QED BY <1>1, <1>2

LEMMA ColonFound ==
  ASSUME NEW t \in Seq(Words)
  PROVE  Colon(t) \in Nat
<1>1. strchr(t, 1, COLON) = 0 \/ strchr(t, 1, COLON) \in 1..Len(t)
  BY StrchrFinds
<1> QED BY <1>1 DEF Colon

LEMMA StartOfArg ==
  ASSUME NEW t, NEW i
  PROVE  i \in ArgStarts(t) <=> /\ i \in 1..Len(t) /\ Colon(t) # 0 /\ i > Colon(t)
                                /\ i = Colon(t) + 1 \/ t[i - 1] = COMMA
BY Zenon DEF ArgStarts

LEMMA StartsAreNat ==
  ASSUME NEW t \in Seq(Words)
  PROVE  \A i \in ArgStarts(t) : i \in Nat /\ i \in 1..Len(t)
<1> SUFFICES ASSUME NEW i, i \in 1..Len(t) PROVE i \in Nat
  BY StartOfArg
<1> QED OBVIOUS

(* From one argument to the next: none is skipped, none is met twice.      *)
LEMMA NextArgument ==
  ASSUME NEW t \in Seq(Words), NEW i \in Nat, i \in ArgStarts(t)
  PROVE  /\ NextOf(t, i) # 0 =>
              /\ NextOf(t, i) \in ArgStarts(t) \cup {Len(t) + 1} /\ NextOf(t, i) > i
              /\ \A j \in ArgStarts(t) : j > i => j >= NextOf(t, i)
         /\ NextOf(t, i) = 0 => \A j \in ArgStarts(t) : j <= i
<1>0. PICK n \in Nat, colon \in Nat : n = Len(t) /\ colon = Colon(t)
  BY ColonFound
<1>1. i <= n /\ colon # 0 /\ i > colon
  BY <1>0, StartOfArg
<1>2. PICK comma \in Nat :
        /\ comma = strchr(t, i, COMMA)
        /\ \/ comma = 0 /\ \A j \in i..n : t[j] # COMMA
           \/ comma \in i..n /\ t[comma] = COMMA /\ \A j \in i..(comma - 1) : t[j] # COMMA
  BY <1>0, StrchrFinds
<1>3. NextOf(t, i) = IF comma = 0 THEN 0 ELSE comma + 1
  BY <1>2 DEF NextOf
<1>4. ASSUME NEW j \in Nat, j \in ArgStarts(t), j > i
      PROVE  j - 1 \in i..n /\ t[j - 1] = COMMA
  <2>1. j <= n /\ (j = colon + 1 \/ t[j - 1] = COMMA)
    BY <1>0, <1>4, StartOfArg
  <2>2. j # colon + 1 /\ j - 1 \in i..n
    BY <1>1, <1>4, <2>1
  <2> QED BY <2>1, <2>2
<1>5. CASE comma = 0
  <2>1. ASSUME NEW j \in Nat, j \in ArgStarts(t), j > i PROVE FALSE
    <3>1. j - 1 \in i..n /\ t[j - 1] = COMMA
      BY <1>4, <2>1
    <3>2. ~(comma \in i..n)
      BY <1>1, <1>5
    <3> QED BY <1>2, <3>1, <3>2
  <2>2. \A j \in ArgStarts(t) : j <= i
    BY <2>1, StartsAreNat
  <2> QED BY <1>3, <1>5, <2>2
<1>6. CASE comma # 0
  <2>1. comma \in i..n /\ t[comma] = COMMA /\ \A j \in i..(comma - 1) : t[j] # COMMA
    BY <1>2, <1>6
  <2>2. i <= comma /\ comma <= n
    BY <2>1
  <2>3. ASSUME NEW j \in Nat, j \in ArgStarts(t), j > i PROVE j >= comma + 1
    <3>1. j - 1 \in i..n /\ t[j - 1] = COMMA
      BY <1>4, <2>3
    <3>2. ~(j - 1 \in i..(comma - 1))
      BY <2>1, <3>1
    <3> QED BY <2>2, <2>3, <3>1, <3>2
  <2>4. comma + 1 <= n => comma + 1 \in ArgStarts(t)
    <3>1. (comma + 1) - 1 = comma /\ comma + 1 > colon /\ (comma + 1 <= n => comma + 1 \in 1..n)
      BY <1>1, <2>2
    <3> QED BY <1>0, <1>1, <2>1, <3>1, StartOfArg
  <2>5. comma + 1 \in ArgStarts(t) \/ comma + 1 = Len(t) + 1
    BY <1>0, <2>2, <2>4
  <2>6. comma + 1 > i /\ comma + 1 # 0
    BY <2>2
  <2>7. \A j \in ArgStarts(t) : j > i => j >= comma + 1
    BY <2>3, StartsAreNat
  <2> QED BY <1>3, <1>6, <2>5, <2>6, <2>7
<1> QED BY <1>5, <1>6

(* Sequences of one word.                                                  *)
LEMMA OneWord ==
  ASSUME NEW t \in Seq(Words), NEW a \in 1..Len(t), NEW b \in Nat, b <= Len(t), NEW p
  PROVE  /\ SubSeq(t, a, b) = <<p>> <=> b = a /\ t[a] = p
         /\ SubSeq(t, a, b) \in Seq(Words)
<1>1. SubSeq(t, a, b) \in Seq(Words) /\ Len(SubSeq(t, a, b)) = IF a <= b THEN (b - a) + 1 ELSE 0
  OBVIOUS
<1>2. ASSUME SubSeq(t, a, b) = <<p>> PROVE b = a /\ t[a] = p
  <2>1. Len(SubSeq(t, a, b)) = 1 /\ SubSeq(t, a, b)[1] = p
    BY <1>2
  <2>2. b = a
    BY <1>1, <2>1
  <2>3. SubSeq(t, a, a)[1] = t[a]
    OBVIOUS
  <2> QED BY <2>1, <2>2, <2>3
<1>3. ASSUME b = a, t[a] = p PROVE SubSeq(t, a, b) = <<p>>
  <2>1. Len(SubSeq(t, a, b)) = 1 /\ SubSeq(t, a, b)[1] = p
    BY <1>1, <1>3
  <2> DEFINE w == SubSeq(t, a, b)
  <2>2. w \in Seq(Words) /\ Len(w) = 1 /\ w[1] = p
    BY <1>1, <2>1
  <2> HIDE DEF w
  <2>3. w = <<w[1]>>
    BY <2>2
  <2> QED BY <2>2, <2>3 DEF w
<1> QED BY <1>1, <1>2, <1>3

-----------------------------------------------------------------------------
(* Where an argument ends, and where its value begins.                     *)
LEMMA ArgumentEnd ==
  ASSUME NEW t \in Seq(Words), NEW i \in Nat, i \in 1..Len(t)
  PROVE  /\ EndOf(t, i) \in Nat /\ i - 1 <= EndOf(t, i) /\ EndOf(t, i) <= Len(t)
         /\ \A j \in i..EndOf(t, i) : t[j] # COMMA
         /\ EndOf(t, i) < Len(t) => t[EndOf(t, i) + 1] = COMMA
<1>0. PICK n \in Nat : n = Len(t) /\ i <= n /\ i >= 1
  OBVIOUS
<1>1. PICK comma \in Nat :
        /\ comma = strchr(t, i, COMMA)
        /\ \/ comma = 0 /\ \A j \in i..n : t[j] # COMMA
           \/ comma \in i..n /\ t[comma] = COMMA /\ \A j \in i..(comma - 1) : t[j] # COMMA
  BY <1>0, StrchrFinds
<1>2. EndOf(t, i) = IF comma = 0 THEN n ELSE comma - 1
  BY <1>0, <1>1 DEF EndOf
<1>3. CASE comma = 0
  BY <1>0, <1>1, <1>2, <1>3
<1>4. CASE comma # 0
  <2>1. comma \in i..n /\ t[comma] = COMMA /\ \A j \in i..(comma - 1) : t[j] # COMMA
    BY <1>1, <1>4
  <2>2. EndOf(t, i) = comma - 1 /\ (comma - 1) + 1 = comma /\ comma - 1 \in Nat
    BY <1>0, <1>2, <1>4
  <2> QED BY <1>0, <2>1, <2>2
<1> QED BY <1>3, <1>4

LEMMA SeparatorOf ==
  ASSUME NEW t \in Seq(Words), NEW i \in Nat, i \in 1..Len(t), NEW e \in Nat, e = EndOf(t, i)
  PROVE  /\ EqOf(t, i) \in Nat
         /\ \/ EqOf(t, i) = 0 /\ \A j \in i..e : t[j] # EQUALS
            \/ /\ EqOf(t, i) \in i..e /\ t[EqOf(t, i)] = EQUALS
               /\ \A j \in i..(EqOf(t, i) - 1) : t[j] # EQUALS
<1>0. i >= 1 /\ e <= Len(t)
  BY ArgumentEnd
<1>1. PICK s \in Seq(Words) : s = SubSeq(t, 1, e) /\ Len(s) = e /\ \A j \in 1..e : s[j] = t[j]
  <2>1. /\ SubSeq(t, 1, e) \in Seq(Words) /\ Len(SubSeq(t, 1, e)) = e
        /\ \A j \in 1..e : SubSeq(t, 1, e)[j] = t[j]
    BY <1>0
  <2> QED BY <2>1
<1>2. EqOf(t, i) = strchr(s, i, EQUALS)
  BY <1>1 DEF EqOf
<1>3. PICK eq \in Nat :
        /\ eq = strchr(s, i, EQUALS)
        /\ \/ eq = 0 /\ \A j \in i..e : s[j] # EQUALS
           \/ eq \in i..e /\ s[eq] = EQUALS /\ \A j \in i..(eq - 1) : s[j] # EQUALS
  <2>1. /\ strchr(s, i, EQUALS) \in Nat
        /\ \/ strchr(s, i, EQUALS) = 0 /\ \A j \in i..Len(s) : s[j] # EQUALS
           \/ /\ strchr(s, i, EQUALS) \in i..Len(s) /\ s[strchr(s, i, EQUALS)] = EQUALS
              /\ \A j \in i..(strchr(s, i, EQUALS) - 1) : s[j] # EQUALS
    BY Zenon, StrchrFinds
  <2>2. Len(s) = e
    BY <1>1
  <2> QED BY Zenon, <2>1, <2>2
<1>4. \A j \in i..e : s[j] = t[j]
  BY <1>0, <1>1
<1>5. eq \in i..e => s[eq] = t[eq] /\ \A j \in i..(eq - 1) : s[j] = t[j]
  BY <1>4
<1> QED BY <1>2, <1>3, <1>4, <1>5

(* The key is a parameter's name if and only if the name is all that there *)
(* is of it; the value is what is behind the "=".                          *)
LEMMA KeyIs ==
  ASSUME NEW t \in Seq(Words), NEW i \in Nat, i \in 1..Len(t), NEW p, p # COMMA, p # EQUALS
  PROVE  /\ KeyOf(t, i) = <<p>> <=> IsFor(t, i, p)
         /\ IsFor(t, i, p) => ValueOf(t, i) = SubSeq(t, i + 2, EndOf(t, i))
<1>0. PICK n \in Nat : n = Len(t) /\ i <= n /\ i >= 1
  OBVIOUS
<1>1. PICK e \in Nat : /\ e = EndOf(t, i) /\ i - 1 <= e /\ e <= n
                       /\ \A j \in i..e : t[j] # COMMA
                       /\ e < n => t[e + 1] = COMMA
  BY <1>0, ArgumentEnd
<1>2. PICK eq \in Nat :
        /\ eq = EqOf(t, i)
        /\ \/ eq = 0 /\ \A j \in i..e : t[j] # EQUALS
           \/ eq \in i..e /\ t[eq] = EQUALS /\ \A j \in i..(eq - 1) : t[j] # EQUALS
  BY <1>0, <1>1, SeparatorOf
<1>3. PICK b \in Nat : b = (IF eq = 0 THEN e ELSE eq - 1) /\ b <= n
  BY <1>1, <1>2
<1>4. KeyOf(t, i) = <<p>> <=> b = i /\ t[i] = p
  <2>1. KeyOf(t, i) = SubSeq(t, i, b)
    BY <1>1, <1>2, <1>3 DEF KeyOf
  <2>2. i \in 1..Len(t) /\ b <= Len(t)
    BY <1>0, <1>3
  <2>3. SubSeq(t, i, b) = <<p>> <=> b = i /\ t[i] = p
    BY <2>2, OneWord
  <2> QED BY <2>1, <2>3
<1>d. EQUALS # COMMA
  BY DEF EQUALS, COMMA
<1>5. ASSUME b = i, t[i] = p
      PROVE  IsFor(t, i, p)
  <2>1. CASE eq = 0
    <3>1. e = i
      BY <1>3, <1>5, <2>1
    <3>2. i = n \/ t[i + 1] = COMMA
      BY <1>0, <1>1, <3>1
    <3> QED BY <1>0, <1>5, <3>2 DEF IsFor
  <2>2. CASE eq # 0
    <3>1. eq = i + 1 /\ t[eq] = EQUALS
      BY <1>2, <1>3, <1>5, <2>2
    <3> QED BY <1>5, <3>1 DEF IsFor
  <2> QED BY <2>1, <2>2
<1>6. ASSUME IsFor(t, i, p)
      PROVE  b = i /\ t[i] = p /\ ValueOf(t, i) = SubSeq(t, i + 2, e)
  <2>1. t[i] = p /\ (i = n \/ t[i + 1] = EQUALS \/ t[i + 1] = COMMA)
    BY <1>0, <1>6 DEF IsFor
  <2>2. e >= i
    <3> SUFFICES ASSUME ~(e >= i) PROVE FALSE
      OBVIOUS
    <3>1. e + 1 = i /\ e < n
      BY <1>0, <1>1
    <3> QED BY <1>1, <2>1, <3>1
  <2>3. eq # i
    BY <1>0, <1>2, <2>1
  <2>4. CASE e = i
    <3>1. eq = 0
      BY <1>2, <2>3, <2>4
    <3>2. SubSeq(t, i + 2, i) = <<>>
      OBVIOUS
    <3> QED BY <1>2, <1>3, <2>1, <2>4, <3>1, <3>2 DEF ValueOf
  <2>5. CASE e # i
    <3>1. i + 1 \in i..e
      BY <2>2, <2>5
    <3>2. t[i + 1] = EQUALS
      BY <1>0, <1>1, <2>1, <3>1
    <3>3. eq # 0
      BY <1>0, <1>2, <3>1, <3>2
    <3>4. eq = i + 1
      BY <1>2, <2>3, <3>1, <3>2, <3>3
    <3>5. ValueOf(t, i) = SubSeq(t, eq + 1, e)
      BY <1>1, <1>2, <3>3 DEF ValueOf
    <3>6. eq + 1 = i + 2
      BY <3>4
    <3>7. b = i
      BY <1>3, <3>3, <3>4
    <3> QED BY <2>1, <3>5, <3>6, <3>7
  <2> QED BY <2>4, <2>5
<1> QED BY <1>1, <1>4, <1>5, <1>6

LEMMA LastTokenOf ==
  ASSUME NEW t \in Seq(Words), NEW i \in Nat, i \in 1..Len(t), t[i] # COMMA
  PROVE  Max({j \in i..Len(t) : \A k \in i..j : t[k] # COMMA}) = EndOf(t, i)
<1> DEFINE T == {j \in i..Len(t) : \A k \in i..j : t[k] # COMMA}
<1>0. PICK n \in Nat : n = Len(t) /\ i <= n /\ i >= 1
  OBVIOUS
<1>1. PICK e \in Nat : /\ e = EndOf(t, i) /\ i - 1 <= e /\ e <= n
                       /\ \A j \in i..e : t[j] # COMMA
                       /\ e < n => t[e + 1] = COMMA
  BY <1>0, ArgumentEnd
<1>2. e >= i
  <2> SUFFICES ASSUME ~(e >= i) PROVE FALSE
    OBVIOUS
  <2>1. e + 1 = i /\ e < n
    BY <1>0, <1>1
  <2> QED BY <1>1, <2>1
<1>3. e \in T
  BY <1>0, <1>1, <1>2
<1>4. ASSUME NEW j \in T PROVE e >= j
  <2>1. j \in i..n /\ \A k \in i..j : t[k] # COMMA
    BY <1>0
  <2> SUFFICES ASSUME ~(e >= j) PROVE FALSE
    OBVIOUS
  <2>2. e < n /\ e + 1 \in i..j
    BY <1>0, <1>2, <2>1
  <2> QED BY <1>1, <2>1, <2>2
<1>5. T \subseteq Nat
  BY <1>0
<1> HIDE DEF T
<1>6. Max(T) \in T /\ \A j \in T : Max(T) >= j
  BY <1>3, <1>4 DEF Max
<1>7. Max(T) \in Nat /\ Max(T) >= e /\ e >= Max(T)
  BY <1>3, <1>4, <1>5, <1>6
<1>8. Max(T) = e
  BY <1>7
<1> QED BY <1>1, <1>8 DEF T

-----------------------------------------------------------------------------
(* The parser.                                                             *)

Arguments == [key : Seq(Words), value : Seq(Words)]

(* a holds the arguments that begin before c, all of them if c is 0, each  *)
(* once and in order: f says where each one begins.                        *)
Places(t, a, c, f) ==
  /\ \A k \in 1..Len(a) : /\ f[k] \in ArgStarts(t) /\ (c # 0 => f[k] < c)
                          /\ a[k].key = KeyOf(t, f[k]) /\ a[k].value = ValueOf(t, f[k])
  /\ \A k, l \in 1..Len(a) : k < l => f[k] < f[l]
  /\ \A i \in ArgStarts(t) : c = 0 \/ i < c => \E k \in 1..Len(a) : f[k] = i

ArgsUpTo(t, a, c) ==
  /\ a \in Seq(Arguments)
  /\ c # 0 => c \in ArgStarts(t) \cup {Len(t) + 1}
  /\ \E f \in [1..Len(a) -> Nat] : Places(t, a, c, f)

LEMMA KeyAndValue ==
  ASSUME NEW t \in Seq(Words), NEW i \in Nat, i \in 1..Len(t)
  PROVE  [key |-> KeyOf(t, i), value |-> ValueOf(t, i)] \in Arguments
<1>1. EndOf(t, i) \in Nat /\ i - 1 <= EndOf(t, i) /\ EndOf(t, i) <= Len(t)
  BY ArgumentEnd
<1>2. PICK e \in Nat : e = EndOf(t, i) /\ e <= Len(t)
  BY <1>1
<1>3. PICK eq \in Nat : eq = EqOf(t, i) /\ (eq = 0 \/ eq \in i..e)
  BY <1>2, SeparatorOf
<1>4. PICK b \in Nat : b = (IF eq = 0 THEN e ELSE eq - 1) /\ b <= Len(t)
  BY <1>2, <1>3
<1>5. KeyOf(t, i) \in Seq(Words)
  <2>1. KeyOf(t, i) = SubSeq(t, i, b)
    BY <1>2, <1>3, <1>4 DEF KeyOf
  <2>2. SubSeq(t, i, b) \in Seq(Words)
    BY <1>4
  <2> QED BY <2>1, <2>2
<1>6. ValueOf(t, i) \in Seq(Words)
  <2>1. ValueOf(t, i) = IF eq = 0 THEN <<>> ELSE SubSeq(t, eq + 1, e)
    BY <1>2, <1>3 DEF ValueOf
  <2>2. SubSeq(t, eq + 1, e) \in Seq(Words)
    BY <1>2
  <2>3. <<>> \in Seq(Words)
    OBVIOUS
  <2> QED BY <2>1, <2>2, <2>3
<1> QED BY <1>5, <1>6 DEF Arguments

LEMMA NoArgs ==
  ASSUME NEW t, NEW c, c # 0 => c \in ArgStarts(t) \cup {Len(t) + 1},
         \A i \in ArgStarts(t) : ~(c = 0 \/ i < c)
  PROVE  ArgsUpTo(t, <<>>, c)
<1>1. PICK a : a = <<>> /\ a \in Seq(Arguments) /\ 1..Len(a) = {}
  <2>1. <<>> \in Seq(Arguments)
    OBVIOUS
  <2>2. 1..Len(<<>>) = {}
    OBVIOUS
  <2> QED BY <2>1, <2>2
<1>2. PICK f : f \in [1..Len(a) -> Nat]
  <2>1. [k \in 1..Len(a) |-> 0] \in [1..Len(a) -> Nat]
    OBVIOUS
  <2> QED BY <2>1
<1>3. Places(t, a, c, f)
  BY <1>1 DEF Places
<1>4. ArgsUpTo(t, a, c)
  BY <1>1, <1>2, <1>3 DEF ArgsUpTo
<1> QED BY <1>1, <1>4

LEMMA ArgsBegin ==
  ASSUME NEW t \in Seq(Words)
  PROVE  ArgsUpTo(t, <<>>, IF Colon(t) = 0 THEN 0 ELSE Colon(t) + 1)
<1>1. PICK c \in Nat : c = Colon(t) /\ c <= Len(t)
  <2>1. strchr(t, 1, COLON) = 0 \/ strchr(t, 1, COLON) \in 1..Len(t)
    BY StrchrFinds
  <2> QED BY <2>1 DEF Colon
<1>2. PICK n \in Nat : n = Len(t)
  OBVIOUS
<1>3. CASE c = 0
  <2>1. ArgStarts(t) = {}
    BY <1>1, <1>3, StartOfArg
  <2>2. ArgsUpTo(t, <<>>, 0)
    BY <2>1, NoArgs
  <2> QED BY <1>1, <1>3, <2>2
<1>4. CASE c # 0
  <2>1. c + 1 \in ArgStarts(t) \cup {Len(t) + 1}
    <3>1. CASE c + 1 <= n
      <4>1. c + 1 \in 1..n /\ c + 1 > c
        BY <3>1
      <4> QED BY <1>1, <1>2, <1>4, <4>1, StartOfArg
    <3>2. CASE ~(c + 1 <= n)
      BY <1>1, <1>2, <3>2
    <3> QED BY <3>1, <3>2
  <2>2. \A i \in ArgStarts(t) : ~(i < c + 1)
    <3> SUFFICES ASSUME NEW i \in Nat, i > c PROVE ~(i < c + 1)
      BY <1>1, StartOfArg, StartsAreNat
    <3> QED OBVIOUS
  <2>3. c + 1 # 0
    OBVIOUS
  <2>4. ArgsUpTo(t, <<>>, c + 1)
    BY <2>1, <2>2, <2>3, NoArgs
  <2> QED BY <1>1, <1>4, <2>4
<1> QED BY <1>3, <1>4

LEMMA ArgsEnd ==
  ASSUME NEW t \in Seq(Words), NEW a, NEW c, ArgsUpTo(t, a, c), c = 0 \/ c > Len(t)
  PROVE  ArgsUpTo(t, a, 0)
<1>1. CASE c = 0
  BY <1>1
<1>2. CASE c # 0
  <2>1. PICK n \in Nat : n = Len(t)
    OBVIOUS
  <2>2. c \in ArgStarts(t) => c \in Nat /\ c <= n
    BY <2>1, StartsAreNat
  <2>3. c = n + 1
    BY <1>2, <2>1, <2>2 DEF ArgsUpTo
  <2>4. \A i \in ArgStarts(t) : i < n + 1
    BY <2>1, StartsAreNat
  <2>5. PICK f \in [1..Len(a) -> Nat] : Places(t, a, c, f)
    BY DEF ArgsUpTo
  <2>6. Places(t, a, 0, f)
    BY <2>3, <2>4, <2>5 DEF Places
  <2> QED BY <2>5, <2>6 DEF ArgsUpTo
<1> QED BY <1>1, <1>2

(* One more argument.                                                      *)
LEMMA ArgAppended ==
  ASSUME NEW t \in Seq(Words), NEW a, NEW c, ArgsUpTo(t, a, c), c # 0, ~(c > Len(t))
  PROVE  ArgsUpTo(t, Append(a, [key |-> KeyOf(t, c), value |-> ValueOf(t, c)]), NextOf(t, c))
<1> DEFINE r == [key |-> KeyOf(t, c), value |-> ValueOf(t, c)]
<1>1. c \in ArgStarts(t)
  <2>1. Len(t) + 1 > Len(t)
    OBVIOUS
  <2> QED BY <2>1 DEF ArgsUpTo
<1>2. c \in Nat /\ c \in 1..Len(t)
  BY <1>1, StartsAreNat
<1>3. r \in Arguments /\ r.key = KeyOf(t, c) /\ r.value = ValueOf(t, c)
  BY <1>2, KeyAndValue
<1> HIDE DEF r
<1>4. PICK m \in Nat : m = Len(a)
  BY DEF ArgsUpTo
<1>5. PICK f \in [1..m -> Nat] : Places(t, a, c, f)
  BY <1>4 DEF ArgsUpTo
<1>6. PICK d : d = NextOf(t, c)
  OBVIOUS
<1>7. /\ d # 0 => /\ d \in ArgStarts(t) \cup {Len(t) + 1} /\ d > c
                  /\ \A j \in ArgStarts(t) : j > c => j >= d
      /\ d = 0 => \A j \in ArgStarts(t) : j <= c
  BY <1>1, <1>2, <1>6, NextArgument
<1>8. PICK b : b = Append(a, r)
  OBVIOUS
<1>9. /\ b \in Seq(Arguments) /\ Len(b) = m + 1 /\ b[m + 1] = r
      /\ \A k \in 1..m : b[k] = a[k]
  BY <1>3, <1>4, <1>8 DEF ArgsUpTo
<1>10. PICK g : g = [k \in 1..(m + 1) |-> IF k = m + 1 THEN c ELSE f[k]]
  OBVIOUS
<1>11. /\ g \in [1..(m + 1) -> Nat] /\ g[m + 1] = c
       /\ \A k \in 1..m : g[k] = f[k] /\ f[k] \in Nat
  BY <1>2, <1>10
<1>12. \A k \in 1..(m + 1) : k = m + 1 \/ k \in 1..m
  OBVIOUS
<1>13. /\ \A k \in 1..m : /\ f[k] \in ArgStarts(t) /\ f[k] < c
                          /\ a[k].key = KeyOf(t, f[k]) /\ a[k].value = ValueOf(t, f[k])
       /\ \A k, l \in 1..m : k < l => f[k] < f[l]
       /\ \A i \in ArgStarts(t) : i < c => \E k \in 1..m : f[k] = i
  BY <1>4, <1>5 DEF Places
<1>14. d # 0 => d \in Nat
  BY <1>7, StartsAreNat
<1>15. Places(t, b, d, g)
  <2>1. ASSUME NEW k \in 1..(m + 1)
        PROVE  /\ g[k] \in ArgStarts(t) /\ (d # 0 => g[k] < d)
               /\ b[k].key = KeyOf(t, g[k]) /\ b[k].value = ValueOf(t, g[k])
    <3>1. CASE k = m + 1
      BY <1>1, <1>2, <1>3, <1>7, <1>9, <1>11, <1>14, <3>1
    <3>2. CASE k \in 1..m
      <4>1. f[k] \in Nat /\ f[k] < c /\ g[k] = f[k] /\ b[k] = a[k]
        BY <1>9, <1>11, <1>13, <3>2
      <4>2. d # 0 => f[k] < d
        BY <1>2, <1>7, <1>14, <4>1
      <4> QED BY <1>13, <3>2, <4>1, <4>2
    <3> QED BY <1>12, <3>1, <3>2
  <2>2. ASSUME NEW k \in 1..(m + 1), NEW l \in 1..(m + 1), k < l PROVE g[k] < g[l]
    <3>1. k \in 1..m
      BY <2>2
    <3>2. CASE l = m + 1
      BY <1>11, <1>13, <3>1, <3>2
    <3>3. CASE l \in 1..m
      BY <1>11, <1>13, <2>2, <3>1, <3>3
    <3> QED BY <1>12, <3>2, <3>3
  <2>3. ASSUME NEW i \in ArgStarts(t), d = 0 \/ i < d PROVE \E k \in 1..(m + 1) : g[k] = i
    <3>1. i \in Nat
      BY StartsAreNat
    <3>2. ~(i > c)
      BY <1>2, <1>7, <1>14, <2>3, <3>1
    <3>3. CASE i = c
      <4>1. m + 1 \in 1..(m + 1)
        OBVIOUS
      <4> QED BY <1>11, <3>3, <4>1
    <3>4. CASE i < c
      <4>1. PICK k \in 1..m : f[k] = i
        BY <1>13, <3>4
      <4>2. k \in 1..(m + 1) /\ g[k] = i
        BY <1>11, <4>1
      <4> QED BY <4>2
    <3> QED BY <1>2, <3>1, <3>2, <3>3, <3>4
  <2> QED BY <1>9, <2>1, <2>2, <2>3 DEF Places
<1>16. ArgsUpTo(t, b, d)
  BY <1>7, <1>9, <1>11, <1>15 DEF ArgsUpTo
<1> QED BY <1>6, <1>8, <1>16 DEF r

-----------------------------------------------------------------------------
(* load_config().                                                          *)

(* v is what the first n arguments in a make of the parameter p: the last  *)
(* one of that name counts.                                                *)
LoadedAs(p, v, a, n) ==
  \/ v = Defaults[p] /\ \A k \in 1..n : a[k].key # <<p>>
  \/ \E k \in 1..n : /\ a[k].key = <<p>> /\ v = Converted(p, a[k].value)
                     /\ \A l \in 1..n : a[l].key = <<p>> => l <= k

LEMMA LoadBegins ==
  ASSUME NEW p, NEW a
  PROVE  LoadedAs(p, Defaults[p], a, 0)
BY DEF LoadedAs

LEMMA LoadOther ==
  ASSUME NEW p, NEW v, NEW a, NEW n \in Nat, LoadedAs(p, v, a, n), a[n + 1].key # <<p>>
  PROVE  LoadedAs(p, v, a, n + 1)
<1>1. \A k \in 1..(n + 1) : k \in 1..n \/ k = n + 1
  OBVIOUS
<1>2. 1..n \subseteq 1..(n + 1)
  OBVIOUS
<1>3. CASE v = Defaults[p] /\ \A k \in 1..n : a[k].key # <<p>>
  BY <1>1, <1>3 DEF LoadedAs
<1>4. CASE \E k \in 1..n : /\ a[k].key = <<p>> /\ v = Converted(p, a[k].value)
                           /\ \A l \in 1..n : a[l].key = <<p>> => l <= k
  <2>1. PICK k \in 1..n : /\ a[k].key = <<p>> /\ v = Converted(p, a[k].value)
                          /\ \A l \in 1..n : a[l].key = <<p>> => l <= k
    BY <1>4
  <2>2. \A l \in 1..(n + 1) : a[l].key = <<p>> => l <= k
    BY <1>1, <2>1
  <2> QED BY <1>2, <2>1, <2>2 DEF LoadedAs
<1> QED BY <1>3, <1>4 DEF LoadedAs

LEMMA LoadThis ==
  ASSUME NEW p, NEW a, NEW n \in Nat, a[n + 1].key = <<p>>
  PROVE  LoadedAs(p, Converted(p, a[n + 1].value), a, n + 1)
<1>1. n + 1 \in 1..(n + 1) /\ \A l \in 1..(n + 1) : l <= n + 1
  OBVIOUS
<1> QED BY <1>1 DEF LoadedAs

(* A key of one word.                                                      *)
LEMMA KeyOfOne ==
  ASSUME NEW s \in Seq(Words), NEW p
  PROVE  s = <<p>> <=> Len(s) = 1 /\ s[1] = p
<1>1. ASSUME Len(s) = 1 PROVE s = <<s[1]>>
  BY <1>1
<1>2. ASSUME s = <<p>> PROVE Len(s) = 1 /\ s[1] = p
  BY <1>2
<1> QED BY <1>1, <1>2

-----------------------------------------------------------------------------
(* What the user wrote.                                                    *)

LEMMA NoSeparators == \A p \in ParamNames : p # COMMA /\ p # EQUALS
BY DEF ParamNames, Pins, COMMA, EQUALS

LEMMA WrittenIn ==
  ASSUME NEW t \in Seq(Words), t = text, NEW p, NEW i
  PROVE  i \in WrittenAt(p) <=> i \in ArgStarts(t) /\ IsFor(t, i, p)
<1>1. SelectInSeq(text, LAMBDA c : c = ":") = Colon(t)
  BY DEF SelectInSeq, Colon, COLON, strchr
<1>2. i \in WrittenAt(p) <=>
        /\ i \in (Colon(t) + 1)..Len(t)
        /\ Colon(t) > 0 /\ t[i] = p
        /\ i = Colon(t) + 1 \/ t[i - 1] = COMMA
        /\ i = Len(t) \/ t[i + 1] \in {EQUALS, COMMA}
  BY <1>1, Zenon DEF WrittenAt, COMMA, EQUALS
<1>3. PICK n \in Nat, c \in Nat : n = Len(t) /\ c = Colon(t)
  BY ColonFound
<1>4. i \in (c + 1)..n /\ c > 0 <=> i \in 1..n /\ c # 0 /\ i > c
  OBVIOUS
<1> QED BY <1>2, <1>3, <1>4, StartOfArg DEF IsFor

LEMMA WrittenIsValue ==
  ASSUME NEW t \in Seq(Words), t = text, NEW p \in ParamNames, NEW i \in Nat,
         i \in ArgStarts(t), IsFor(t, i, p),
         \A j \in ArgStarts(t) : IsFor(t, j, p) => j <= i
  PROVE  Written(p) = ValueOf(t, i) /\ WrittenAt(p) # {}
<1> DEFINE W == WrittenAt(p)
<1>1. i \in W /\ \A j \in W : i >= j /\ j \in Nat
  BY WrittenIn, StartsAreNat
<1> HIDE DEF W
<1>2. Max(W) \in W /\ \A j \in W : Max(W) >= j
  BY <1>1 DEF Max
<1>3. Max(W) \in Nat /\ Max(W) >= i /\ i >= Max(W)
  BY <1>1, <1>2
<1>4. Max(W) = i
  BY <1>3
<1>5. i \in 1..Len(t) /\ t[i] = p
  BY StartsAreNat DEF IsFor
<1>6. Max({j \in i..Len(t) : \A k \in i..j : t[k] # COMMA}) = EndOf(t, i)
  BY <1>5, LastTokenOf, NoSeparators
<1>7. Written(p) = SubSeq(t, i + 2, EndOf(t, i))
  BY <1>1, <1>4, <1>6, Zenon DEF Written, W, COMMA
<1>8. ValueOf(t, i) = SubSeq(t, i + 2, EndOf(t, i))
  BY <1>5, KeyIs, NoSeparators
<1> QED BY <1>1, <1>7, <1>8 DEF W

LEMMA NothingWritten ==
  ASSUME NEW t \in Seq(Words), t = text, NEW p \in ParamNames,
         \A j \in ArgStarts(t) : ~IsFor(t, j, p)
  PROVE  Written(p) = <<"nothing">> /\ WrittenAt(p) = {}
<1>1. WrittenAt(p) = {}
  BY WrittenIn
<1> QED BY <1>1 DEF Written

(* All arguments parsed and loaded: a parameter is what was last written,  *)
(* converted, or its default.                                              *)
LEMMA LoadedIsWritten ==
  ASSUME NEW t \in Seq(Words), t = text, NEW a, ArgsUpTo(t, a, 0), NEW p \in ParamNames, NEW v,
         LoadedAs(p, v, a, Len(a))
  PROVE  \/ v = Defaults[p] /\ Written(p) = <<"nothing">>
         \/ v = Converted(p, Written(p)) /\ Written(p) \in Seq(Words)
<1>1. PICK m \in Nat : m = Len(a) /\ a \in Seq(Arguments)
  BY DEF ArgsUpTo
<1>2. PICK f \in [1..m -> Nat] : Places(t, a, 0, f)
  BY <1>1 DEF ArgsUpTo
<1>3. /\ \A k \in 1..m : f[k] \in ArgStarts(t) /\ f[k] \in Nat /\ a[k].key = KeyOf(t, f[k])
                         /\ a[k].value = ValueOf(t, f[k])
      /\ \A k, l \in 1..m : k < l => f[k] < f[l]
      /\ \A i \in ArgStarts(t) : \E k \in 1..m : f[k] = i
  BY <1>1, <1>2 DEF Places
<1>4. ASSUME NEW k \in 1..m PROVE a[k].key = <<p>> <=> IsFor(t, f[k], p)
  <2>1. PICK i \in Nat : i = f[k] /\ i \in 1..Len(t)
    BY <1>3, StartsAreNat
  <2>2. KeyOf(t, i) = <<p>> <=> IsFor(t, i, p)
    BY <2>1, KeyIs, NoSeparators
  <2> QED BY <1>3, <2>1, <2>2
<1>5. CASE v = Defaults[p] /\ \A k \in 1..m : a[k].key # <<p>>
  <2>1. \A j \in ArgStarts(t) : ~IsFor(t, j, p)
    BY <1>3, <1>4, <1>5
  <2> QED BY <1>5, <2>1, NothingWritten
<1>6. CASE \E k \in 1..m : /\ a[k].key = <<p>> /\ v = Converted(p, a[k].value)
                           /\ \A l \in 1..m : a[l].key = <<p>> => l <= k
  <2>1. PICK k \in 1..m : /\ a[k].key = <<p>> /\ v = Converted(p, a[k].value)
                          /\ \A l \in 1..m : a[l].key = <<p>> => l <= k
    BY <1>6
  <2>2. PICK i \in Nat : i = f[k] /\ i \in ArgStarts(t) /\ IsFor(t, i, p)
    BY <1>3, <1>4, <2>1
  <2>3. ASSUME NEW j \in ArgStarts(t), IsFor(t, j, p) PROVE j <= i
    <3>1. PICK l \in 1..m : f[l] = j
      BY <1>3
    <3>2. l <= k
      BY <1>4, <2>1, <2>3, <3>1
    <3>3. CASE l = k
      BY <2>2, <3>1, <3>3
    <3>4. CASE l < k
      <4>1. f[l] < f[k] /\ f[l] \in Nat
        BY <1>3, <3>4
      <4> QED BY <2>2, <3>1, <4>1
    <3> QED BY <3>2, <3>3, <3>4
  <2>4. Written(p) = ValueOf(t, i)
    BY <2>2, <2>3, WrittenIsValue
  <2>5. a[k].value = ValueOf(t, i) /\ a[k].value \in Seq(Words)
    <3>1. a[k] \in Arguments
      BY <1>1
    <3>2. a[k].value \in Seq(Words)
      BY <3>1 DEF Arguments
    <3>3. a[k].value = ValueOf(t, i)
      BY <1>3, <2>2
    <3> QED BY <3>2, <3>3
  <2> QED BY <2>1, <2>4, <2>5
<1> QED BY <1>1, <1>5, <1>6 DEF LoadedAs

-----------------------------------------------------------------------------
(* The validation.                                                         *)

Latency == "read_latency_millis"
OtherNames == ParamNames \ {Latency}

ParamsRight ==
  /\ \A p \in OtherNames : params[p] = WrittenWord(p) /\ params[p] \in Accepted(p)
  /\ params[Latency] = (IF Written(Latency) \in {<<>>, <<"nothing">>} THEN "16" ELSE WrittenWord(Latency))

(* Neither a default nor what a converter makes of a word it does not know *)
(* is a value.                                                             *)
LEMMA RefusedIsNoValue ==
  ASSUME NEW p \in OtherNames
  PROVE  Defaults[p] \notin Accepted(p) /\ Refused(p) \notin Accepted(p)
<1>1. p \in ParamNames /\ p # "read_latency_millis"
  BY DEF OtherNames, Latency
<1>2. CASE p = "device"
  BY <1>2 DEF Defaults, Accepted, Refused, ParamNames, Pins
<1>3. CASE p = "channel"
  BY <1>3 DEF Defaults, Accepted, Refused, ParamNames, Pins
<1>4. CASE p \in {"vid", "pid"}
  <2>1. Defaults[p] = "0" /\ Refused(p) = "-1" /\ Accepted(p) = UsbIds
    BY <1>4 DEF Defaults, Accepted, Refused, ParamNames, Pins
  <2> QED BY <2>1, ProfileAssumption
<1>5. CASE p \in {"d4", "d5", "d6", "d7"}
  <2>1. Defaults[p] = "PIN_ROLE_INVALID" /\ Refused(p) = "PIN_ROLE_INVALID"
        /\ Accepted(p) = {"driver_low", "driver_high", "ignored"}
    BY <1>5 DEF Defaults, Accepted, Refused, ParamNames, Pins
  <2> QED BY <2>1
<1> QED BY <1>1, <1>2, <1>3, <1>4, <1>5 DEF ParamNames, Pins

LEMMA ConvertedIsWord ==
  ASSUME NEW p \in OtherNames, NEW w \in Seq(Words), Converted(p, w) \in Accepted(p)
  PROVE  Len(w) = 1 /\ Converted(p, w) = w[1]
<1>1. p # "read_latency_millis"
  BY DEF OtherNames, Latency
<1>2. CASE Len(w) = 1 /\ w[1] \in Accepted(p)
  BY <1>1, <1>2 DEF Converted
<1>3. CASE ~(Len(w) = 1 /\ w[1] \in Accepted(p))
  <2>1. Converted(p, w) = Refused(p)
    BY <1>1, <1>3 DEF Converted
  <2> QED BY <2>1, RefusedIsNoValue
<1> QED BY <1>2, <1>3

LEMMA ValidIsAccepted ==
  ASSUME AllValid, ChipTakesChannel, NEW p \in OtherNames
  PROVE  params[p] \in Accepted(p)
<1>1. p \in ParamNames /\ p # "read_latency_millis" /\ Valid(p, params[p])
  BY DEF OtherNames, Latency, AllValid
<1>2. CASE p = "device"
  <2>1. Accepted(p) = {"ft2232h", "ft232h"}
    BY <1>2 DEF Accepted, Pins
  <2> QED BY <1>2, <2>1 DEF ChipTakesChannel
<1>3. CASE p # "device"
  BY <1>1, <1>3 DEF Valid
<1> QED BY <1>2, <1>3

LEMMA LatencyRight ==
  ASSUME AllValid,
         \/ params[Latency] = Defaults[Latency] /\ Written(Latency) = <<"nothing">>
         \/ params[Latency] = Converted(Latency, Written(Latency)) /\ Written(Latency) \in Seq(Words)
  PROVE  params[Latency] = (IF Written(Latency) \in {<<>>, <<"nothing">>} THEN "16" ELSE WrittenWord(Latency))
<1>1. /\ Defaults[Latency] = "16" /\ Refused(Latency) = "-1" /\ Accepted(Latency) = Latencies
      /\ Latency \in ParamNames
  BY DEF Defaults, Accepted, Refused, ParamNames, Pins, Latency
<1>2. params[Latency] = "16" \/ params[Latency] \in Latencies
  BY <1>1 DEF AllValid, Valid, Latency
<1>3. "-1" \notin Latencies /\ "nothing" \notin Latencies
  BY ProfileAssumption
<1>4. CASE params[Latency] = Defaults[Latency] /\ Written(Latency) = <<"nothing">>
  BY <1>1, <1>4
<1>5. CASE params[Latency] = Converted(Latency, Written(Latency)) /\ Written(Latency) \in Seq(Words)
  <2>1. PICK w \in Seq(Words) : w = Written(Latency)
    BY <1>5
  <2>2. CASE Len(w) = 1 /\ w[1] \in Latencies
    <3>1. Converted(Latency, w) = w[1]
      BY <1>1, <2>2 DEF Converted
    <3>2. w # <<>> /\ w # <<"nothing">>
      BY SMTT(30), <1>3, <2>2
    <3>3. WrittenWord(Latency) = w[1]
      BY <2>1, <2>2 DEF WrittenWord
    <3> QED BY <1>5, <2>1, <3>1, <3>2, <3>3
  <2>3. CASE ~(Len(w) = 1 /\ w[1] \in Latencies) /\ w = <<>>
    <3>1. Converted(Latency, w) = "16"
      BY <1>1, <2>3 DEF Converted, Latency
    <3> QED BY <1>5, <2>1, <2>3, <3>1
  <2>4. CASE ~(Len(w) = 1 /\ w[1] \in Latencies) /\ w # <<>>
    <3>1. Converted(Latency, w) = "-1"
      BY <1>1, <2>4 DEF Converted, Latency
    <3> QED BY <1>2, <1>3, <1>5, <2>1, <3>1
  <2> QED BY <2>2, <2>3, <2>4
<1> QED BY <1>4, <1>5

LEMMA ValidatedIsRight ==
  ASSUME text \in Seq(Words), ArgsUpTo(text, args, 0), AllValid, ChipTakesChannel,
         \A p \in ParamNames : LoadedAs(p, params[p], args, Len(args))
  PROVE  ParamsRight
<1>1. ASSUME NEW p \in ParamNames
      PROVE  \/ params[p] = Defaults[p] /\ Written(p) = <<"nothing">>
             \/ params[p] = Converted(p, Written(p)) /\ Written(p) \in Seq(Words)
  BY LoadedIsWritten
<1>2. ASSUME NEW p \in OtherNames
      PROVE  params[p] = WrittenWord(p) /\ params[p] \in Accepted(p)
  <2>1. p \in ParamNames /\ params[p] \in Accepted(p) /\ Defaults[p] \notin Accepted(p)
    BY ValidIsAccepted, RefusedIsNoValue DEF OtherNames
  <2>2. params[p] = Converted(p, Written(p)) /\ Written(p) \in Seq(Words)
    BY <1>1, <2>1
  <2>3. Len(Written(p)) = 1 /\ Converted(p, Written(p)) = Written(p)[1]
    BY <2>1, <2>2, ConvertedIsWord
  <2> QED BY <2>1, <2>2, <2>3 DEF WrittenWord
<1>3. Latency \in ParamNames
  BY DEF Latency, ParamNames, Pins
<1> QED BY <1>1, <1>2, <1>3, LatencyRight DEF ParamsRight

-----------------------------------------------------------------------------
(* The inductive invariant: what holds of the process at a label.          *)

TxvcFields ==
  { "config", "parsed", "profile", "driverName", "cur", "args", "params", "loaded", "lastStatus", "overrun",
    "selected", "opened", "handle", "mode", "bitModeFailed", "pools", "setup", "active", "fatal", "status" }

Driver == mem.driverName

(* The labels of main() and load_config(), of the search for a device, of  *)
(* its set-up before it is in MPSSE mode, and in that mode.                *)
Early   == {"main", "getopt", "help", "profile", "tck", "parse", "arg", "find_driver", "load_config"}
Finding == {"FT_GetLibraryVersion", "FT_SetVIDPID", "FT_CreateDeviceInfoList", "FT_GetDeviceInfoList", "select",
            "FT_Open"}
Opening == {"FT_Purge", "FT_SetChars", "FT_SetFlowControl", "FT_SetLatencyTimer", "FT_BITMODE_RESET",
            "FT_BITMODE_MPSSE"}
Setting == {"pools", "setup", "splitter_init"}

ModeRestored == mem.mode = "mpsse" => mem.bitModeFailed

(* What may end the process before main() returns.                         *)
Excused ==
  mem.fatal \/ mem.overrun \/ ~CompleteSpec(input.spec) \/ config.tckPeriodNanos > MaxProduct

(* What is open, switched or allocated at most.                            *)
Resources(l) ==
  /\ l \in Early \cup Finding \cup {"bail_cant_open", "bail_noop", "end", "exit"} => ~mem.handle
  /\ l \in Early \cup Finding \cup Opening
           \cup {"bail_usb_close", "close", "bail_cant_open", "bail_noop", "end", "exit"} => ModeRestored
  /\ l \in Early \cup Finding \cup Opening \cup {"reset_mode", "close", "end"} => mem.pools = 0
  /\ l \in {"wrapper_setup", "serve", "deactivate"} /\ Driver = <<"echo">> =>
       ~mem.handle /\ ModeRestored /\ mem.pools = 0
  /\ l \in {"aborted", "crashed"} => Excused

(* The o-th device of the list d is the one that was asked for.            *)
AskedFor(d, o) ==
  IF params["device"] = "ft232h" THEN d[o] = d[1]
  ELSE /\ d[o] # <<>> /\ Last(d[o]) = params["channel"]
       /\ \A j \in 1..(o - 1) : d[j] # <<>> => Last(d[j]) # params["channel"]

(* The device that is open is that one, or has no serial number.           *)
DeviceRight == FitsArray => AskedFor(devices, mem.opened) \/ devices[mem.opened] = <<>>

(* Only a list that does not fit its array overruns it.                    *)
OverrunKnown == mem.overrun => ~FitsArray

Configured(l) ==
  /\ l \in Early \cup Finding => mem.opened = 0
  /\ l \in Early \cup Finding \cup Opening \cup {"pools", "setup"} => ~mem.active
  /\ l \in Finding \cup Opening \cup Setting => ParamsRight /\ Driver = <<"ftdi-generic">>
  /\ l = "splitter_init" => mem.setup = setupCmds
  /\ l = "FT_Open" => mem.selected \in Selectable
  /\ OverrunKnown
  /\ mem.handle => ParamsRight
  /\ mem.opened # 0 => ParamsRight /\ DeviceRight
  /\ mem.active /\ Driver # <<"echo">> => ParamsRight /\ mem.setup = setupCmds

(* How far the profile is parsed and loaded.                               *)
AllLoaded(n) == DOMAIN params = ParamNames /\ \A p \in ParamNames : LoadedAs(p, params[p], args, n)

ParsedAt(l) ==
  /\ l \in Early \ {"arg", "find_driver", "load_config"} => args = <<>>
  /\ l \in Early \ {"load_config"} => params = Defaults /\ mem.loaded = 0
  /\ l \in {"tck", "parse", "arg", "find_driver", "load_config"} => text \in Seq(Words)
  /\ l = "arg" => ArgsUpTo(text, args, cur)
  /\ l \in {"find_driver", "load_config"} => ArgsUpTo(text, args, 0)
  /\ l = "load_config" =>
       Driver = <<"ftdi-generic">> /\ mem.loaded \in Nat /\ mem.loaded <= Len(args) /\ AllLoaded(mem.loaded)

At(l) == Resources(l) /\ Configured(l) /\ ParsedAt(l)

TxvcTypes ==
  /\ DOMAIN mem = TxvcFields
  /\ input \in Launches
  /\ "profile" \in DOMAIN config /\ config.profile \in Seq(Words)
  /\ "tckPeriodNanos" \in DOMAIN config /\ config.tckPeriodNanos \in Int
  /\ mem.parsed \in Nat

Succeeded == pc = "exit" /\ mem.status = "EXIT_SUCCESS" => mem.pools = 0

TxvcGood == TxvcTypes /\ At(pc) /\ Succeeded
TxvcInv  == prog = "txvc" => TxvcGood

-----------------------------------------------------------------------------
(* Steps that change no more than the label and the statuses.              *)

Watched == TxvcFields \ {"lastStatus", "status"}

LEMMA SameWritten ==
  ASSUME mem'.profile = mem.profile, NEW p
  PROVE  Written(p)' = Written(p) /\ WrittenWord(p)' = WrittenWord(p)
<1>1. WrittenAt(p)' = WrittenAt(p)
  BY DEF WrittenAt, text, SelectInSeq
<1>2. Written(p)' = Written(p)
  BY <1>1 DEF Written, text
<1> QED BY <1>2 DEF WrittenWord

LEMMA SameParamsRight ==
  ASSUME mem'.profile = mem.profile, mem'.params = mem.params
  PROVE  ParamsRight' <=> ParamsRight
<1>1. \A p : Written(p)' = Written(p) /\ WrittenWord(p)' = WrittenWord(p)
  BY SameWritten
<1> QED BY <1>1 DEF ParamsRight, params

LEMMA SameAt ==
  ASSUME input' = input, \A f \in Watched : mem'[f] = mem[f], NEW l, At(l)
  PROVE  At(l)'
<1>1. /\ mem'.profile = mem.profile /\ mem'.params = mem.params /\ mem'.args = mem.args
      /\ mem'.cur = mem.cur /\ mem'.loaded = mem.loaded /\ mem'.driverName = mem.driverName
      /\ mem'.setup = mem.setup /\ mem'.active = mem.active /\ mem'.selected = mem.selected
      /\ mem'.opened = mem.opened /\ mem'.handle = mem.handle /\ mem'.mode = mem.mode
      /\ mem'.bitModeFailed = mem.bitModeFailed /\ mem'.pools = mem.pools
      /\ mem'.fatal = mem.fatal /\ mem'.overrun = mem.overrun /\ mem'.config = mem.config
  BY DEF Watched, TxvcFields
<1>2. ParamsRight' <=> ParamsRight
  BY <1>1, SameParamsRight
<1>3. /\ setupCmds' = setupCmds /\ Selectable' = Selectable /\ (DeviceRight' <=> DeviceRight)
      /\ (OverrunKnown' <=> OverrunKnown)
  BY <1>1 DEF setupCmds, Selectable, DeviceRight, AskedFor, OverrunKnown, FitsArray, Matches, Unclear, params,
     devices
<1>4. Resources(l)'
  BY <1>1 DEF At, Resources, Excused, config, Driver, ModeRestored, Early, Finding, Opening
<1>5. Configured(l)'
  BY <1>1, <1>2, <1>3 DEF At, Configured, Driver, Early, Finding, Opening, Setting
<1>6. ParsedAt(l)'
  BY <1>1 DEF At, ParsedAt, AllLoaded, text, args, cur, params, Driver, Early
<1> QED BY <1>4, <1>5, <1>6 DEF At

LEMMA Moves ==
  ASSUME TxvcTypes, input' = input, DOMAIN mem' = TxvcFields, \A f \in Watched : mem'[f] = mem[f],
         NEW l, pc' = l, At(l), l = "exit" => mem'.status = "EXIT_FAILURE" \/ mem'.pools = 0
  PROVE  TxvcGood'
<1>1. At(pc)'
  BY SameAt
<1>2. TxvcTypes'
  <2>1. mem'.config = mem.config /\ mem'.parsed = mem.parsed
    BY DEF Watched, TxvcFields
  <2> QED BY <2>1 DEF TxvcTypes, config
<1>3. Succeeded'
  BY DEF Succeeded
<1> QED BY <1>1, <1>2, <1>3 DEF TxvcGood

LEMMA GotoMoves ==
  ASSUME TxvcGood, NEW from, NEW to, Goto(from, to), pc = from => At(to), to # "exit"
  PROVE  TxvcGood'
<1>1. Step("txvc", from, to, Nothing) /\ DOMAIN mem = TxvcFields /\ DOMAIN Nothing \subseteq TxvcFields
  BY NothingChanges DEF Goto, TxvcGood, TxvcTypes
<1>2. /\ pc = from /\ pc' = to /\ input' = input /\ DOMAIN mem' = TxvcFields
      /\ \A f \in TxvcFields : mem'[f] = IF f \in DOMAIN Nothing THEN Nothing[f] ELSE mem[f]
  BY <1>1, StepFields
<1>3. \A f \in Watched : mem'[f] = mem[f]
  BY <1>2, NothingChanges DEF Watched
<1> QED BY <1>2, <1>3, Moves DEF TxvcGood

LEMMA FailMoves ==
  ASSUME TxvcGood, NEW from, NEW to, Fail(from, to), pc = from => At(to)
  PROVE  TxvcGood'
<1> DEFINE c == [status |-> "EXIT_FAILURE"]
<1>1. Step("txvc", from, to, c) /\ DOMAIN mem = TxvcFields /\ DOMAIN c = {"status"} /\ c["status"] = "EXIT_FAILURE"
  BY DEF Fail, TxvcGood, TxvcTypes
<1> HIDE DEF c
<1>2. /\ pc = from /\ pc' = to /\ input' = input /\ DOMAIN mem' = TxvcFields
      /\ \A f \in TxvcFields : mem'[f] = IF f \in DOMAIN c THEN c[f] ELSE mem[f]
  <2>1. DOMAIN c \subseteq TxvcFields
    BY <1>1 DEF TxvcFields
  <2> QED BY <1>1, <2>1, StepFields
<1>3. mem'.status = "EXIT_FAILURE" /\ \A f \in Watched : mem'[f] = mem[f]
  BY <1>1, <1>2 DEF Watched, TxvcFields
<1> QED BY <1>2, <1>3, Moves DEF TxvcGood

LEMMA FailedCallMoves ==
  ASSUME TxvcGood, NEW from, NEW to, FailedCall(from, to, Nothing), pc = from => At(Says(TagFtdi, to)),
         Says(TagFtdi, to) # "exit"
  PROVE  TxvcGood'
<1>0. PICK s : Step("txvc", from, Says(TagFtdi, to), Merge([lastStatus |-> s], Nothing))
  BY DEF FailedCall
<1> DEFINE c == Merge([lastStatus |-> s], Nothing)
<1>1. DOMAIN mem = TxvcFields /\ DOMAIN c = {"lastStatus"}
  BY NothingChanges DEF Merge, TxvcGood, TxvcTypes
<1> HIDE DEF c
<1>2. /\ pc = from /\ pc' = Says(TagFtdi, to) /\ input' = input /\ DOMAIN mem' = TxvcFields
      /\ \A f \in TxvcFields : mem'[f] = IF f \in DOMAIN c THEN c[f] ELSE mem[f]
  <2>1. DOMAIN c \subseteq TxvcFields
    BY <1>1 DEF TxvcFields
  <2>2. Step("txvc", from, Says(TagFtdi, to), c)
    BY <1>0 DEF c
  <2> QED BY <1>1, <2>1, <2>2, StepFields
<1>3. \A f \in Watched : mem'[f] = mem[f]
  BY <1>1, <1>2 DEF Watched, TxvcFields
<1> QED BY <1>2, <1>3, Moves DEF TxvcGood

(* A message ends the process only if the spec is not complete.            *)
LEMMA SaysOrDies ==
  ASSUME NEW tag, NEW next
  PROVE  \/ Says(tag, next) = next
         \/ Says(tag, next) \in {"aborted", "crashed"} /\ ~CompleteSpec(input.spec)
<1>1. CASE ~Reported(input.spec, tag)
  BY <1>1 DEF Says
<1>2. CASE Reported(input.spec, tag)
  <2>1. Says(tag, next) \in {"aborted", "crashed"}
    BY <1>2 DEF Says, ReportEnd
  <2>2. ASSUME CompleteSpec(input.spec) PROVE FALSE
    <3>1. PICK i \in DOMAIN input.spec.items : input.spec.items[i].name = All
      BY <2>2 DEF CompleteSpec
    <3>2. ScanSpec(input.spec, tag) # -1
      BY <3>1, AllIsFound
    <3> QED BY <1>2, <2>2, <3>2 DEF Reported, CompleteSpec
  <2> QED BY <2>1, <2>2
<1> QED BY <1>1, <1>2

LEMMA DiesAt ==
  ASSUME NEW from, At(from), NEW l \in {"aborted", "crashed"}, Excused
  PROVE  At(l)
BY DEF At, Resources, Configured, ParsedAt, Early, Finding, Opening, Setting

LEMMA SaysAt ==
  ASSUME NEW from, At(from), NEW tag, NEW next, At(next)
  PROVE  At(Says(tag, next)) /\ (Says(tag, next) = "exit" => next = "exit")
<1>1. CASE Says(tag, next) = next
  BY <1>1
<1>2. CASE Says(tag, next) \in {"aborted", "crashed"} /\ ~CompleteSpec(input.spec)
  <2>1. PICK l \in {"aborted", "crashed"} : l = Says(tag, next)
    BY <1>2
  <2>2. At(l)
    BY SMTT(30), <1>2, DiesAt DEF Excused
  <2> QED BY <2>1, <2>2
<1> QED BY <1>1, <1>2, SaysOrDies

-----------------------------------------------------------------------------
(* From label to label: what the move itself establishes.                  *)

LEMMA EarlyMoves ==
  /\ At("main") => At("exit") /\ At("getopt")
  /\ At("getopt") => At("exit") /\ At("help")
  /\ At("help") => At("exit") /\ At("profile")
  /\ At("profile") => At("exit")
  /\ At("tck") => At("exit") /\ At("parse")
  /\ At("parse") => At("exit")
  /\ At("arg") => At("exit")
  /\ At("find_driver") => At("exit")
  /\ At("load_config") => At("bail_noop") /\ At("load_config")
  /\ At("bail_noop") => At("exit")
BY SMTT(30) DEF At, Resources, Configured, ParsedAt, Early, Finding, Opening, Setting

LEMMA ActivateMoves ==
  /\ At("FT_GetLibraryVersion") => At("bail_noop") /\ At("FT_SetVIDPID")
  /\ At("FT_SetVIDPID") => At("bail_noop") /\ At("FT_CreateDeviceInfoList")
  /\ At("FT_CreateDeviceInfoList") => At("bail_noop") /\ At("FT_GetDeviceInfoList")
  /\ At("FT_GetDeviceInfoList") => At("bail_noop") /\ At("select")
  /\ At("select") => At("bail_noop")
  /\ At("FT_Open") => At("bail_cant_open")
  /\ At("FT_Purge") => At("bail_usb_close") /\ At("FT_SetChars")
  /\ At("FT_SetChars") => At("bail_usb_close") /\ At("FT_SetFlowControl")
  /\ At("FT_SetFlowControl") => At("bail_usb_close") /\ At("FT_SetLatencyTimer")
  /\ At("FT_SetLatencyTimer") => At("bail_usb_close") /\ At("FT_BITMODE_RESET")
  /\ At("setup") => At("bail_reset_mode")
  /\ At("splitter_init") => At("bail_reset_mode")
  /\ At("bail_cant_open") => At("bail_noop")
BY DEF At, Resources, Configured, ParsedAt, Early, Finding, Opening, Setting

LEMMA ServeMoves ==
  /\ At("wrapper_setup") => At("serve")
  /\ At("serve") => At("deactivate")
  /\ At("deactivate") => At("deinit_pools")
  /\ At("deactivate") /\ Driver = <<"echo">> => At("end")
BY DEF At, Resources, Configured, ParsedAt, Early, Finding, Opening, Setting

(* The moves that main() makes before there is a profile, and behind it.   *)
LEMMA MainGotos ==
  ASSUME TxvcGood,
         \/ main_root \/ main_begin \/ getopt_bad \/ getopt_done \/ main_tck
         \/ parse_too_long \/ parse_too_many \/ bail_noop
  PROVE  TxvcGood'
<1>0. At(pc)
  BY DEF TxvcGood
<1>1. CASE main_root
  BY <1>0, <1>1, EarlyMoves, FailMoves DEF main_root
<1>2. CASE main_begin
  BY <1>0, <1>2, EarlyMoves, GotoMoves DEF main_begin
<1>3. CASE getopt_bad
  BY <1>0, <1>3, EarlyMoves, FailMoves DEF getopt_bad
<1>4. CASE getopt_done
  BY <1>0, <1>4, EarlyMoves, FailMoves, GotoMoves DEF getopt_done
<1>5. CASE main_tck
  BY <1>0, <1>5, EarlyMoves, FailMoves, GotoMoves DEF main_tck
<1>6. CASE parse_too_long
  BY <1>0, <1>6, EarlyMoves, SaysAt, FailMoves DEF parse_too_long
<1>7. CASE parse_too_many
  BY <1>0, <1>7, EarlyMoves, SaysAt, FailMoves DEF parse_too_many
<1>8. CASE bail_noop
  <2>1. pc = "bail_noop"
    BY <1>8 DEF bail_noop, Fail, Step
  <2> QED BY <1>0, <1>8, <2>1, EarlyMoves, SaysAt, FailMoves DEF bail_noop
<1> QED BY <1>1, <1>2, <1>3, <1>4, <1>5, <1>6, <1>7, <1>8

LEMMA ActivateGotos ==
  ASSUME TxvcGood,
         \/ FT_GetLibraryVersion \/ FT_SetVIDPID \/ FT_CreateDeviceInfoList \/ FT_Purge \/ FT_SetChars
         \/ FT_SetFlowControl \/ FT_SetLatencyTimer \/ bail_cant_open
  PROVE  TxvcGood'
<1>0. At(pc)
  BY DEF TxvcGood
<1>m. ASSUME NEW fn, NEW bail, FailedCall(fn, bail, Nothing), At(fn) => At(bail), bail # "exit"
      PROVE  TxvcGood'
  <2>1. pc = fn
    BY <1>m DEF FailedCall, Step
  <2>2. At(Says(TagFtdi, bail)) /\ Says(TagFtdi, bail) # "exit"
    BY <1>0, <1>m, <2>1, SaysAt
  <2> QED BY <1>m, <2>2, FailedCallMoves
<1>g. ASSUME NEW from, NEW to, Goto(from, to), At(from) => At(to), to # "exit"
      PROVE  TxvcGood'
  BY <1>0, <1>g, GotoMoves
<1>s. ASSUME NEW from, NEW tag, NEW to, Goto(from, Says(tag, to)), At(from) => At(to), to # "exit"
      PROVE  TxvcGood'
  <2>1. pc = from
    BY <1>s DEF Goto, Step
  <2>2. At(Says(tag, to)) /\ Says(tag, to) # "exit"
    BY <1>0, <1>s, <2>1, SaysAt
  <2> QED BY <1>s, <2>2, GotoMoves
<1>1. CASE FT_GetLibraryVersion
  BY <1>m, <1>s, <1>1, ActivateMoves DEF FT_GetLibraryVersion
<1>2. CASE FT_SetVIDPID
  BY <1>m, <1>g, <1>2, ActivateMoves DEF FT_SetVIDPID
<1>3. CASE FT_CreateDeviceInfoList
  BY <1>m, <1>g, <1>3, ActivateMoves DEF FT_CreateDeviceInfoList
<1>4. CASE FT_Purge
  BY <1>m, <1>g, <1>4, ActivateMoves DEF FT_Purge
<1>5. CASE FT_SetChars
  BY <1>m, <1>g, <1>5, ActivateMoves DEF FT_SetChars
<1>6. CASE FT_SetFlowControl
  BY <1>m, <1>g, <1>6, ActivateMoves DEF FT_SetFlowControl
<1>7. CASE FT_SetLatencyTimer
  BY <1>m, <1>g, <1>7, ActivateMoves DEF FT_SetLatencyTimer
<1>8. CASE bail_cant_open
  BY <1>s, <1>g, <1>8, ActivateMoves DEF bail_cant_open
<1> QED BY <1>1, <1>2, <1>3, <1>4, <1>5, <1>6, <1>7, <1>8

-----------------------------------------------------------------------------
(* Steps behind load_config(): the parameters stay.                        *)

Variable == {"handle", "mode", "bitModeFailed", "pools", "fatal", "overrun", "active", "status", "lastStatus",
             "setup", "selected", "opened"}

LEMMA LaterStep ==
  ASSUME TxvcGood, NEW from, NEW to, NEW c, Step("txvc", from, to, c), DOMAIN c \subseteq Variable, to \notin Early,
         "overrun" \in DOMAIN c => (c["overrun"] => ~FitsArray)
  PROVE  /\ pc = from /\ pc' = to /\ At(from) /\ TxvcTypes' /\ ParsedAt(to)'
         /\ input' = input /\ Driver' = Driver /\ params' = params /\ (ParamsRight' <=> ParamsRight)
         /\ setupCmds' = setupCmds /\ OverrunKnown'
         /\ \A f \in Variable : mem'[f] = IF f \in DOMAIN c THEN c[f] ELSE mem[f]
<1>1. DOMAIN mem = TxvcFields /\ DOMAIN c \subseteq TxvcFields /\ Variable \subseteq TxvcFields
  BY DEF Variable, TxvcFields, TxvcGood, TxvcTypes
<1>2. /\ pc = from /\ pc' = to /\ input' = input /\ DOMAIN mem' = TxvcFields
      /\ \A f \in TxvcFields : mem'[f] = IF f \in DOMAIN c THEN c[f] ELSE mem[f]
  BY <1>1, StepFields
<1>3. \A f \in TxvcFields \ Variable : mem'[f] = mem[f]
  BY <1>2
<1>4. /\ mem'.config = mem.config /\ mem'.parsed = mem.parsed /\ mem'.profile = mem.profile
      /\ mem'.params = mem.params /\ mem'.driverName = mem.driverName
  BY <1>3 DEF TxvcFields, Variable
<1>5. ParamsRight' <=> ParamsRight
  BY <1>4, SameParamsRight
<1>6. setupCmds' = setupCmds /\ params' = params /\ Driver' = Driver
  BY <1>4 DEF setupCmds, params, Driver
<1>7. TxvcTypes'
  BY <1>2, <1>4 DEF TxvcGood, TxvcTypes, config
<1>8. ParsedAt(to)'
  BY DEF ParsedAt, Early
<1>9. At(from)
  BY <1>2 DEF TxvcGood
<1>10. OverrunKnown'
  <2>1. (FitsArray' <=> FitsArray) /\ OverrunKnown
    BY <1>2, <1>9 DEF FitsArray, devices, At, Configured
  <2>2. mem'.overrun = IF "overrun" \in DOMAIN c THEN c["overrun"] ELSE mem.overrun
    BY <1>2 DEF TxvcFields
  <2> QED BY <2>1, <2>2 DEF OverrunKnown
<1> QED BY <1>1, <1>2, <1>5, <1>6, <1>7, <1>8, <1>9, <1>10

(* The device that was opened is not looked at again.                      *)
LEMMA SameDeviceRight ==
  ASSUME input' = input, params' = params, mem'.opened = mem.opened
  PROVE  DeviceRight' <=> DeviceRight
BY DEF DeviceRight, AskedFor, FitsArray, devices

LEMMA SetBitMode ==
  ASSUME TxvcGood,
         \/ Step("txvc", "FT_BITMODE_RESET", "FT_BITMODE_MPSSE", [mode |-> "reset"])
         \/ Step("txvc", "FT_BITMODE_MPSSE", "pools", [mode |-> "mpsse"])
         \/ Step("txvc", "bail_reset_mode", "bail_usb_close", [mode |-> "reset"])
         \/ Step("txvc", "reset_mode", "close", [mode |-> "reset"])
  PROVE  TxvcGood'
<1>1. PICK l, k, m :
        /\ \/ l = "FT_BITMODE_RESET" /\ k = "FT_BITMODE_MPSSE" /\ m = "reset"
           \/ l = "FT_BITMODE_MPSSE" /\ k = "pools" /\ m = "mpsse"
           \/ l = "bail_reset_mode" /\ k = "bail_usb_close" /\ m = "reset"
           \/ l = "reset_mode" /\ k = "close" /\ m = "reset"
        /\ Step("txvc", l, k, [mode |-> m])
  OBVIOUS
<1> DEFINE c == [mode |-> m]
<1>2. DOMAIN c = {"mode"} /\ c["mode"] = m /\ DOMAIN c \subseteq Variable
  BY DEF Variable
<1> HIDE DEF c
<1>3. Step("txvc", l, k, c) /\ k \notin Early
  BY <1>1 DEF c, Early
<1>4. /\ pc' = k /\ At(l) /\ TxvcTypes' /\ ParsedAt(k)'
      /\ input' = input /\ Driver' = Driver /\ params' = params /\ (ParamsRight' <=> ParamsRight)
      /\ setupCmds' = setupCmds /\ OverrunKnown'
      /\ \A f \in Variable : mem'[f] = IF f \in DOMAIN c THEN c[f] ELSE mem[f]
  BY <1>2, <1>3, LaterStep
<1>5. /\ mem'.mode = m /\ mem'.handle = mem.handle /\ mem'.bitModeFailed = mem.bitModeFailed
      /\ mem'.pools = mem.pools /\ mem'.fatal = mem.fatal /\ mem'.overrun = mem.overrun
      /\ mem'.active = mem.active /\ mem'.setup = mem.setup /\ mem'.selected = mem.selected
      /\ mem'.opened = mem.opened
  BY <1>2, <1>4 DEF Variable
<1>6. DeviceRight' <=> DeviceRight
  BY <1>4, <1>5, SameDeviceRight
<1>7. Resources(k)'
  BY <1>1, <1>4, <1>5 DEF At, Resources, ModeRestored, Early, Finding, Opening
<1>8. Configured(k)'
  BY <1>1, <1>4, <1>5, <1>6 DEF At, Configured, Early, Finding, Opening, Setting
<1> QED BY <1>1, <1>4, <1>7, <1>8 DEF TxvcGood, At, Succeeded

(* FT_SetBitMode() fails, and may have switched the chip or not.           *)
LEMMA SetBitModeFails ==
  ASSUME TxvcGood, NEW fn \in {"FT_BITMODE_RESET", "FT_BITMODE_MPSSE"}, NEW m,
         FailedCall(fn, "bail_usb_close", ModeFailed(m))
  PROVE  TxvcGood'
<1>1. PICK s : Step("txvc", fn, Says(TagFtdi, "bail_usb_close"), Merge([lastStatus |-> s], ModeFailed(m)))
  BY DEF FailedCall
<1> DEFINE c == Merge([lastStatus |-> s], ModeFailed(m))
<1>2. /\ DOMAIN c = {"lastStatus", "bitModeFailed", "mode"} /\ c["bitModeFailed"] = TRUE
      /\ DOMAIN c \subseteq Variable
  BY DEF Merge, ModeFailed, Variable
<1> HIDE DEF c
<1>3. PICK k : k = Says(TagFtdi, "bail_usb_close")
  OBVIOUS
<1>4. k = "bail_usb_close" \/ (k \in {"aborted", "crashed"} /\ ~CompleteSpec(input.spec))
  BY <1>3, SaysOrDies
<1>5. Step("txvc", fn, k, c) /\ k \notin Early
  BY <1>1, <1>3, <1>4 DEF c, Early
<1>6. /\ pc' = k /\ At(fn) /\ TxvcTypes' /\ ParsedAt(k)'
      /\ input' = input /\ Driver' = Driver /\ params' = params /\ (ParamsRight' <=> ParamsRight)
      /\ setupCmds' = setupCmds /\ OverrunKnown'
      /\ \A f \in Variable : mem'[f] = IF f \in DOMAIN c THEN c[f] ELSE mem[f]
  BY <1>2, <1>5, LaterStep
<1>7. /\ mem'.bitModeFailed = TRUE /\ mem'.handle = mem.handle
      /\ mem'.pools = mem.pools /\ mem'.fatal = mem.fatal /\ mem'.overrun = mem.overrun
      /\ mem'.active = mem.active /\ mem'.setup = mem.setup /\ mem'.selected = mem.selected
      /\ mem'.opened = mem.opened
  BY <1>2, <1>6 DEF Variable
<1>8. DeviceRight' <=> DeviceRight
  BY <1>6, <1>7, SameDeviceRight
<1>9. Resources(k)'
  BY <1>4, <1>6, <1>7 DEF At, Resources, Excused, ModeRestored, Early, Finding, Opening
<1>10. Configured(k)'
  BY <1>4, <1>6, <1>7, <1>8 DEF At, Configured, Early, Finding, Opening, Setting
<1> QED BY <1>4, <1>6, <1>9, <1>10 DEF TxvcGood, At, Succeeded

(* It fails at the end, where nobody looks at the result.                  *)
LEMMA ResetModeFails ==
  ASSUME TxvcGood,
         \/ Step("txvc", "bail_reset_mode", "bail_usb_close", [bitModeFailed |-> TRUE])
         \/ Step("txvc", "reset_mode", "close", [bitModeFailed |-> TRUE])
  PROVE  TxvcGood'
<1>1. PICK l, k : /\ \/ l = "bail_reset_mode" /\ k = "bail_usb_close"
                     \/ l = "reset_mode" /\ k = "close"
                  /\ Step("txvc", l, k, [bitModeFailed |-> TRUE])
  OBVIOUS
<1> DEFINE c == [bitModeFailed |-> TRUE]
<1>2. DOMAIN c = {"bitModeFailed"} /\ c["bitModeFailed"] = TRUE /\ DOMAIN c \subseteq Variable
  BY DEF Variable
<1> HIDE DEF c
<1>3. Step("txvc", l, k, c) /\ k \notin Early
  BY <1>1 DEF c, Early
<1>4. /\ pc' = k /\ At(l) /\ TxvcTypes' /\ ParsedAt(k)'
      /\ input' = input /\ Driver' = Driver /\ params' = params /\ (ParamsRight' <=> ParamsRight)
      /\ setupCmds' = setupCmds /\ OverrunKnown'
      /\ \A f \in Variable : mem'[f] = IF f \in DOMAIN c THEN c[f] ELSE mem[f]
  BY <1>2, <1>3, LaterStep
<1>5. /\ mem'.bitModeFailed = TRUE /\ mem'.handle = mem.handle
      /\ mem'.pools = mem.pools /\ mem'.fatal = mem.fatal /\ mem'.overrun = mem.overrun
      /\ mem'.active = mem.active /\ mem'.setup = mem.setup /\ mem'.selected = mem.selected
      /\ mem'.opened = mem.opened
  BY <1>2, <1>4 DEF Variable
<1>6. DeviceRight' <=> DeviceRight
  BY <1>4, <1>5, SameDeviceRight
<1>7. Resources(k)'
  BY <1>1, <1>4, <1>5 DEF At, Resources, ModeRestored, Early, Finding, Opening
<1>8. Configured(k)'
  BY <1>1, <1>4, <1>5, <1>6 DEF At, Configured, Early, Finding, Opening, Setting
<1> QED BY <1>1, <1>4, <1>7, <1>8 DEF TxvcGood, At, Succeeded

(* Closing the device, on either way out.                                  *)
LEMMA CloseStep ==
  ASSUME TxvcGood, bail_usb_close \/ close
  PROVE  TxvcGood'
<1>1. PICK l, k : /\ \/ l = "bail_usb_close" /\ k = "bail_cant_open"
                     \/ l = "close" /\ k = "end"
                  /\ Step("txvc", l, k, [handle |-> FALSE])
  BY DEF bail_usb_close, close
<1> DEFINE c == [handle |-> FALSE]
<1>2. DOMAIN c = {"handle"} /\ c["handle"] = FALSE /\ DOMAIN c \subseteq Variable
  BY DEF Variable
<1> HIDE DEF c
<1>3. Step("txvc", l, k, c) /\ k \notin Early
  BY <1>1 DEF c, Early
<1>4. /\ pc' = k /\ At(l) /\ TxvcTypes' /\ ParsedAt(k)'
      /\ input' = input /\ Driver' = Driver /\ params' = params /\ (ParamsRight' <=> ParamsRight)
      /\ setupCmds' = setupCmds /\ OverrunKnown'
      /\ \A f \in Variable : mem'[f] = IF f \in DOMAIN c THEN c[f] ELSE mem[f]
  BY <1>2, <1>3, LaterStep
<1>5. /\ mem'.handle = FALSE /\ mem'.mode = mem.mode /\ mem'.bitModeFailed = mem.bitModeFailed
      /\ mem'.pools = mem.pools /\ mem'.fatal = mem.fatal /\ mem'.overrun = mem.overrun
      /\ mem'.active = mem.active /\ mem'.setup = mem.setup /\ mem'.selected = mem.selected
      /\ mem'.opened = mem.opened
  BY <1>2, <1>4 DEF Variable
<1>6. DeviceRight' <=> DeviceRight
  BY <1>4, <1>5, SameDeviceRight
<1>7. Resources(k)'
  BY <1>1, <1>4, <1>5 DEF At, Resources, ModeRestored, Early, Finding, Opening
<1>8. Configured(k)'
  BY <1>1, <1>4, <1>5, <1>6 DEF At, Configured, Early, Finding, Opening, Setting
<1> QED BY <1>1, <1>4, <1>7, <1>8 DEF TxvcGood, At, Succeeded

(* The memory pools, and the end without memory.                           *)
LEMMA PoolsStep ==
  ASSUME TxvcGood, Step("txvc", "pools", IF mem.pools = 0 THEN "pools" ELSE "setup", [pools |-> mem.pools + 1])
                   \/ deinit_pools
  PROVE  TxvcGood'
<1>1. PICK l, k, n : /\ \/ l = "pools" /\ k \in {"pools", "setup"}
                        \/ l = "deinit_pools" /\ k = "reset_mode" /\ n = 0
                     /\ Step("txvc", l, k, [pools |-> n])
  BY DEF deinit_pools
<1> DEFINE c == [pools |-> n]
<1>2. DOMAIN c = {"pools"} /\ c["pools"] = n /\ DOMAIN c \subseteq Variable
  BY DEF Variable
<1> HIDE DEF c
<1>3. Step("txvc", l, k, c) /\ k \notin Early
  BY <1>1 DEF c, Early
<1>4. /\ pc' = k /\ At(l) /\ TxvcTypes' /\ ParsedAt(k)'
      /\ input' = input /\ Driver' = Driver /\ params' = params /\ (ParamsRight' <=> ParamsRight)
      /\ setupCmds' = setupCmds /\ OverrunKnown'
      /\ \A f \in Variable : mem'[f] = IF f \in DOMAIN c THEN c[f] ELSE mem[f]
  BY <1>2, <1>3, LaterStep
<1>5. /\ mem'.pools = n /\ mem'.handle = mem.handle /\ mem'.mode = mem.mode
      /\ mem'.bitModeFailed = mem.bitModeFailed /\ mem'.fatal = mem.fatal /\ mem'.overrun = mem.overrun
      /\ mem'.active = mem.active /\ mem'.setup = mem.setup /\ mem'.selected = mem.selected
      /\ mem'.opened = mem.opened
  BY <1>2, <1>4 DEF Variable
<1>6. DeviceRight' <=> DeviceRight
  BY <1>4, <1>5, SameDeviceRight
<1>7. Resources(k)'
  BY <1>1, <1>4, <1>5 DEF At, Resources, ModeRestored, Early, Finding, Opening
<1>8. Configured(k)'
  BY <1>1, <1>4, <1>5, <1>6 DEF At, Configured, Early, Finding, Opening, Setting
<1> QED BY <1>1, <1>4, <1>7, <1>8 DEF TxvcGood, At, Succeeded

LEMMA FatalStep ==
  ASSUME TxvcGood, NEW l, NEW k \in {"aborted", "crashed"},
         NEW c, DOMAIN c = {"fatal"}, c["fatal"] = TRUE, Step("txvc", l, k, c)
  PROVE  TxvcGood'
<1>2. DOMAIN c \subseteq Variable /\ k \notin Early
  BY DEF Variable, Early
<1>4. /\ pc' = k /\ At(l) /\ TxvcTypes' /\ ParsedAt(k)'
      /\ input' = input /\ Driver' = Driver /\ params' = params /\ (ParamsRight' <=> ParamsRight)
      /\ setupCmds' = setupCmds /\ OverrunKnown'
      /\ \A f \in Variable : mem'[f] = IF f \in DOMAIN c THEN c[f] ELSE mem[f]
  BY <1>2, LaterStep
<1>5. /\ mem'.handle = mem.handle /\ mem'.active = mem.active /\ mem'.setup = mem.setup
      /\ mem'.opened = mem.opened /\ mem'.fatal = TRUE
  BY <1>2, <1>4 DEF Variable
<1>6. DeviceRight' <=> DeviceRight
  BY <1>4, <1>5, SameDeviceRight
<1>7. Resources(k)'
  BY <1>4, <1>5 DEF At, Resources, Excused, Early, Finding, Opening
<1>8. Configured(k)'
  BY <1>4, <1>5, <1>6 DEF At, Configured, Early, Finding, Opening, Setting
<1> QED BY <1>4, <1>7, <1>8 DEF TxvcGood, At, Succeeded

(* The chip is set up and the driver becomes active, or the echo driver.   *)
LEMMA SetupStep ==
  ASSUME TxvcGood, Step("txvc", "setup", "splitter_init", [setup |-> setupCmds])
  PROVE  TxvcGood'
<1> DEFINE c == [setup |-> setupCmds]
           k == "splitter_init"
<1>2. DOMAIN c = {"setup"} /\ c["setup"] = setupCmds /\ DOMAIN c \subseteq Variable /\ k \notin Early
  BY DEF Variable, Early
<1>3. Step("txvc", "setup", k, c)
  OBVIOUS
<1> HIDE DEF c
<1>4. /\ pc' = k /\ At("setup") /\ TxvcTypes' /\ ParsedAt(k)'
      /\ input' = input /\ Driver' = Driver /\ params' = params /\ (ParamsRight' <=> ParamsRight)
      /\ setupCmds' = setupCmds /\ OverrunKnown'
      /\ \A f \in Variable : mem'[f] = IF f \in DOMAIN c THEN c[f] ELSE mem[f]
  BY <1>2, <1>3, LaterStep
<1>5. /\ mem'.setup = setupCmds' /\ mem'.handle = mem.handle /\ mem'.mode = mem.mode
      /\ mem'.bitModeFailed = mem.bitModeFailed /\ mem'.pools = mem.pools
      /\ mem'.active = mem.active /\ mem'.opened = mem.opened
  BY <1>2, <1>4 DEF Variable
<1>6. DeviceRight' <=> DeviceRight
  BY <1>4, <1>5, SameDeviceRight
<1>7. Resources(k)'
  BY <1>4, <1>5 DEF At, Resources, ModeRestored, Early, Finding, Opening
<1>8. Configured(k)'
  BY <1>4, <1>5, <1>6 DEF At, Configured, Early, Finding, Opening, Setting
<1> QED BY <1>4, <1>7, <1>8 DEF TxvcGood, At, Succeeded

LEMMA ActiveStep ==
  ASSUME TxvcGood, NEW l, Step("txvc", l, "wrapper_setup", [active |-> TRUE]),
         l = "splitter_init" \/ (l = "find_driver" /\ Driver = <<"echo">>)
  PROVE  TxvcGood'
<1> DEFINE c == [active |-> TRUE]
           k == "wrapper_setup"
<1>2. DOMAIN c = {"active"} /\ c["active"] = TRUE /\ DOMAIN c \subseteq Variable /\ k \notin Early
  BY DEF Variable, Early
<1>3. Step("txvc", l, k, c)
  OBVIOUS
<1> HIDE DEF c
<1>4. /\ pc' = k /\ At(l) /\ TxvcTypes' /\ ParsedAt(k)'
      /\ input' = input /\ Driver' = Driver /\ params' = params /\ (ParamsRight' <=> ParamsRight)
      /\ setupCmds' = setupCmds /\ OverrunKnown'
      /\ \A f \in Variable : mem'[f] = IF f \in DOMAIN c THEN c[f] ELSE mem[f]
  BY <1>2, <1>3, LaterStep
<1>5. /\ mem'.setup = mem.setup /\ mem'.handle = mem.handle /\ mem'.mode = mem.mode
      /\ mem'.bitModeFailed = mem.bitModeFailed /\ mem'.pools = mem.pools /\ mem'.opened = mem.opened
  BY <1>2, <1>4 DEF Variable
<1>6. DeviceRight' <=> DeviceRight
  BY <1>4, <1>5, SameDeviceRight
<1>7. <<"ftdi-generic">> # <<"echo">>
  <2>1. <<"ftdi-generic">>[1] # <<"echo">>[1]
    OBVIOUS
  <2> QED BY <2>1
<1>8. Resources(k)'
  BY <1>4, <1>5, <1>7 DEF At, Resources, Configured, ModeRestored, Early, Finding, Opening, Setting
<1>9. Configured(k)'
  BY <1>4, <1>5, <1>6 DEF At, Configured, Early, Finding, Opening, Setting
<1> QED BY <1>4, <1>8, <1>9 DEF TxvcGood, At, Succeeded

(* The list of devices is written, perhaps behind its end, which may crash *)
(* from there on; one is chosen.                                           *)
LEMMA ListStep ==
  ASSUME TxvcGood, FT_GetDeviceInfoList
  PROVE  TxvcGood'
<1>0. At(pc)
  BY DEF TxvcGood
<1>1. CASE FailedCall("FT_GetDeviceInfoList", "bail_noop", Nothing)
  <2>1. pc = "FT_GetDeviceInfoList"
    BY <1>1 DEF FailedCall, Step
  <2>2. At(Says(TagFtdi, "bail_noop")) /\ Says(TagFtdi, "bail_noop") # "exit"
    BY <1>0, <2>1, ActivateMoves, SaysAt
  <2> QED BY <1>1, <2>2, FailedCallMoves
<1>2. CASE Step("txvc", "FT_GetDeviceInfoList", "select", [overrun |-> Len(devices) > MaxDevices])
  <2> DEFINE c == [overrun |-> Len(devices) > MaxDevices]
             k == "select"
  <2>1. DOMAIN c = {"overrun"} /\ DOMAIN c \subseteq Variable /\ k \notin Early
    BY DEF Variable, Early
  <2>2. c["overrun"] => ~FitsArray
    <3>1. Len(devices) \in Nat /\ MaxDevices \in Nat
      BY TxvcAssumption DEF TxvcGood, TxvcTypes, devices, MaxDevices
    <3>2. Len(devices) > MaxDevices => ~(Len(devices) <= MaxDevices)
      BY <3>1
    <3>3. c["overrun"] => Len(devices) > MaxDevices
      BY Zenon
    <3> QED BY Zenon, <3>2, <3>3 DEF FitsArray
  <2>3. Step("txvc", "FT_GetDeviceInfoList", k, c)
    BY <1>2
  <2> HIDE DEF c
  <2>4. /\ pc' = k /\ At("FT_GetDeviceInfoList") /\ TxvcTypes' /\ ParsedAt(k)'
        /\ input' = input /\ Driver' = Driver /\ params' = params /\ (ParamsRight' <=> ParamsRight)
        /\ setupCmds' = setupCmds /\ OverrunKnown'
        /\ \A f \in Variable : mem'[f] = IF f \in DOMAIN c THEN c[f] ELSE mem[f]
    BY <2>1, <2>2, <2>3, LaterStep
  <2>5. /\ mem'.handle = mem.handle /\ mem'.mode = mem.mode
        /\ mem'.bitModeFailed = mem.bitModeFailed /\ mem'.pools = mem.pools
        /\ mem'.active = mem.active /\ mem'.setup = mem.setup /\ mem'.opened = mem.opened
    BY <2>1, <2>4 DEF Variable
  <2>6. DeviceRight' <=> DeviceRight
    BY <2>4, <2>5, SameDeviceRight
  <2>7. Resources(k)'
    BY <2>4, <2>5 DEF At, Resources, ModeRestored, Early, Finding, Opening
  <2>8. Configured(k)'
    BY <2>4, <2>5, <2>6 DEF At, Configured, Early, Finding, Opening, Setting
  <2> QED BY <2>4, <2>7, <2>8 DEF TxvcGood, At, Succeeded
<1> QED BY <1>1, <1>2 DEF FT_GetDeviceInfoList

LEMMA OverrunStep ==
  ASSUME TxvcGood, overrun_crashes
  PROVE  TxvcGood'
<1>1. At(pc) /\ Excused /\ Goto(pc, "crashed")
  BY DEF TxvcGood, overrun_crashes, Excused
<1>2. At("crashed")
  BY <1>1, DiesAt
<1> QED BY <1>1, <1>2, GotoMoves

LEMMA SelectStep ==
  ASSUME TxvcGood, select_device
  PROVE  TxvcGood'
<1>0. At(pc)
  BY DEF TxvcGood
<1>1. CASE Goto("select", Says(TagFtdi, "bail_noop"))
  <2>1. pc = "select"
    BY <1>1 DEF Goto, Step
  <2>2. At(Says(TagFtdi, "bail_noop")) /\ Says(TagFtdi, "bail_noop") # "exit"
    BY <1>0, <2>1, ActivateMoves, SaysAt
  <2> QED BY <1>1, <2>2, GotoMoves
<1>2. CASE \E i \in Selectable : Step("txvc", "select", Says(TagFtdi, "FT_Open"), [selected |-> i])
  <2>1. PICK i \in Selectable : Step("txvc", "select", Says(TagFtdi, "FT_Open"), [selected |-> i])
    BY <1>2
  <2> DEFINE c == [selected |-> i]
  <2>2. DOMAIN c = {"selected"} /\ c["selected"] = i /\ DOMAIN c \subseteq Variable
    BY DEF Variable
  <2> HIDE DEF c
  <2>3. PICK k : k = Says(TagFtdi, "FT_Open")
    OBVIOUS
  <2>4. k = "FT_Open" \/ (k \in {"aborted", "crashed"} /\ ~CompleteSpec(input.spec))
    BY <2>3, SaysOrDies
  <2>5. Step("txvc", "select", k, c) /\ k \notin Early
    BY <2>1, <2>3, <2>4 DEF c, Early
  <2>6. /\ pc' = k /\ At("select") /\ TxvcTypes' /\ ParsedAt(k)'
        /\ input' = input /\ Driver' = Driver /\ params' = params /\ (ParamsRight' <=> ParamsRight)
        /\ setupCmds' = setupCmds /\ OverrunKnown'
        /\ \A f \in Variable : mem'[f] = IF f \in DOMAIN c THEN c[f] ELSE mem[f]
    BY <2>2, <2>5, LaterStep
  <2>7. /\ mem'.selected = i /\ mem'.handle = mem.handle /\ mem'.mode = mem.mode
        /\ mem'.bitModeFailed = mem.bitModeFailed /\ mem'.pools = mem.pools
        /\ mem'.active = mem.active /\ mem'.setup = mem.setup /\ mem'.opened = mem.opened
        /\ mem'.fatal = mem.fatal /\ mem'.overrun = mem.overrun
    BY <2>2, <2>6 DEF Variable
  <2>8. (DeviceRight' <=> DeviceRight) /\ Selectable' = Selectable
    <3>1. Selectable' = Selectable
      BY <2>6, <2>7 DEF Selectable, Matches, Unclear, devices
    <3> QED BY <2>6, <2>7, <3>1, SameDeviceRight
  <2>9. Resources(k)'
    BY <2>4, <2>6, <2>7 DEF At, Resources, Excused, ModeRestored, Early, Finding, Opening
  <2>10. Configured(k)'
    BY <2>1, <2>4, <2>6, <2>7, <2>8 DEF At, Configured, Early, Finding, Opening, Setting
  <2> QED BY <2>4, <2>6, <2>9, <2>10 DEF TxvcGood, At, Succeeded
<1> QED BY <1>1, <1>2 DEF select_device

(* The device that is opened has the serial number of the selected one and *)
(* is not behind it.                                                       *)
FirstLike(d, i) == IF Len(d) = 1 THEN 1 ELSE Min({j \in DOMAIN d : d[j] = d[i]})

LEMMA OpenedIsSelected ==
  ASSUME NEW d \in Seq(Seq(STRING)), NEW i \in DOMAIN d, NEW o, o = FirstLike(d, i)
  PROVE  o \in Nat /\ o # 0 /\ d[o] = d[i] /\ o <= i /\ i \in Nat
<1>1. DOMAIN d = 1..Len(d) /\ Len(d) \in Nat /\ i \in Nat
  OBVIOUS
<1>2. CASE Len(d) = 1
  BY <1>1, <1>2 DEF FirstLike
<1>3. CASE Len(d) # 1
  <2> DEFINE same == {j \in DOMAIN d : d[j] = d[i]}
  <2>1. same \in SUBSET Nat /\ i \in same
    BY <1>1
  <2>2. PICK n \in same : \A m \in same : n <= m
    BY <2>1, NatMinimum
  <2>3. Min(same) \in same /\ \A m \in same : Min(same) <= m
    BY <2>2 DEF Min
  <2>4. o \in same /\ o <= i
    BY <1>3, <2>1, <2>3 DEF FirstLike
  <2> QED BY <1>1, <2>4
<1> QED BY <1>2, <1>3

LEMMA DeviceIsTheRightOne ==
  ASSUME NEW d \in Seq(Seq(STRING)), d = devices, ~mem.overrun, mem.selected \in Selectable,
         NEW o \in DeviceToOpen
  PROVE  AskedFor(d, o) \/ d[o] = <<>>
<1>1. PICK i : i = mem.selected
  OBVIOUS
<1>2. i \in DOMAIN d
  BY <1>1 DEF Selectable, Matches, Unclear
<1>3. o \in Nat /\ o # 0 /\ d[o] = d[i] /\ o <= i /\ i \in Nat
  <2>1. o = FirstLike(d, i)
    BY <1>1 DEF DeviceToOpen, WithSerialOf, FirstLike
  <2> QED BY <1>2, <2>1, OpenedIsSelected
<1>4. CASE params["device"] = "ft232h"
  <2>1. i = 1
    BY <1>1, <1>4 DEF Selectable
  <2> QED BY <1>3, <1>4, <2>1 DEF AskedFor
<1>5. CASE params["device"] # "ft232h" /\ d[o] # <<>>
  <2>1. i \in Matches /\ \A j \in Matches : i <= j
    <3>1. i \notin Unclear
      BY <1>3, <1>5 DEF Unclear
    <3> QED BY <1>1, <1>5, <3>1 DEF Selectable
  <2>2. Last(d[o]) = params["channel"]
    BY <1>3, <2>1 DEF Matches
  <2>3. ASSUME NEW j \in 1..(o - 1), d[j] # <<>>, Last(d[j]) = params["channel"] PROVE FALSE
    <3>1. j \in Nat /\ j < i /\ j >= 1
      BY <1>3
    <3>2. j \in DOMAIN d
      BY <1>2, <3>1
    <3>3. j \in Matches
      BY <2>3, <3>2 DEF Matches
    <3> QED BY <1>3, <2>1, <3>1, <3>3
  <2> QED BY <1>5, <2>2, <2>3 DEF AskedFor
<1> QED BY <1>4, <1>5

LEMMA OpenStep ==
  ASSUME TxvcGood, FT_Open
  PROVE  TxvcGood'
<1>0. At(pc) /\ pc = "FT_Open"
  BY DEF TxvcGood, FT_Open
<1>1. CASE FailedCall("FT_Open", "bail_cant_open", Nothing)
  <2>1. At(Says(TagFtdi, "bail_cant_open")) /\ Says(TagFtdi, "bail_cant_open") # "exit"
    BY <1>0, ActivateMoves, SaysAt
  <2> QED BY <1>1, <2>1, FailedCallMoves
<1>2. CASE \E o \in DeviceToOpen : Step("txvc", "FT_Open", "FT_Purge", [handle |-> TRUE, opened |-> o])
  <2>1. PICK o \in DeviceToOpen : Step("txvc", "FT_Open", "FT_Purge", [handle |-> TRUE, opened |-> o])
    BY <1>2
  <2> DEFINE c == [handle |-> TRUE, opened |-> o]
             k == "FT_Purge"
  <2>2. /\ DOMAIN c = {"handle", "opened"} /\ c["handle"] = TRUE /\ c["opened"] = o
        /\ DOMAIN c \subseteq Variable /\ k \notin Early
    BY DEF Variable, Early
  <2>3. Step("txvc", "FT_Open", k, c)
    BY <2>1
  <2> HIDE DEF c
  <2>4. /\ pc' = k /\ At("FT_Open") /\ TxvcTypes' /\ ParsedAt(k)'
        /\ input' = input /\ Driver' = Driver /\ params' = params /\ (ParamsRight' <=> ParamsRight)
        /\ setupCmds' = setupCmds /\ OverrunKnown'
        /\ \A f \in Variable : mem'[f] = IF f \in DOMAIN c THEN c[f] ELSE mem[f]
    BY <2>2, <2>3, LaterStep
  <2>5. /\ mem'.opened = o /\ mem'.mode = mem.mode
        /\ mem'.bitModeFailed = mem.bitModeFailed /\ mem'.pools = mem.pools
        /\ mem'.active = mem.active /\ mem'.setup = mem.setup
    BY <2>2, <2>4 DEF Variable
  <2>6. DeviceRight'
    <3>1. PICK d \in Seq(Seq(STRING)) : d = devices
      BY TxvcAssumption DEF TxvcGood, TxvcTypes, devices
    <3>2. mem.selected \in Selectable /\ (FitsArray => ~mem.overrun)
      BY <2>4 DEF At, Configured, OverrunKnown
    <3>3. FitsArray => AskedFor(d, o) \/ d[o] = <<>>
      BY <2>1, <3>1, <3>2, DeviceIsTheRightOne
    <3>4. devices' = d /\ mem'.opened = o /\ (FitsArray' <=> FitsArray)
      BY <2>4, <2>5, <3>1 DEF devices, FitsArray
    <3>5. FitsArray' => AskedFor(devices, mem.opened)' \/ (devices[mem.opened] = <<>>)'
      BY <2>4, <3>3, <3>4 DEF AskedFor
    <3> QED BY <3>5 DEF DeviceRight
  <2>7. Resources(k)'
    BY <2>4, <2>5 DEF At, Resources, ModeRestored, Early, Finding, Opening
  <2>8. Configured(k)'
    BY <2>4, <2>5, <2>6 DEF At, Configured, Early, Finding, Opening, Setting
  <2> QED BY <2>4, <2>7, <2>8 DEF TxvcGood, At, Succeeded
<1> QED BY <1>1, <1>2 DEF FT_Open

(* The end of main(), behind the server or the help.                       *)
LEMMA EndStep ==
  ASSUME TxvcGood, end_of_main
  PROVE  TxvcGood'
<1> DEFINE c == [active |-> FALSE, status |-> "EXIT_SUCCESS"]
           k == "exit"
<1>2. /\ DOMAIN c = {"active", "status"} /\ c["active"] = FALSE
      /\ DOMAIN c \subseteq Variable /\ k \notin Early
  BY DEF Variable, Early
<1>3. Step("txvc", "end", k, c)
  BY DEF end_of_main
<1> HIDE DEF c
<1>4. /\ pc' = k /\ At("end") /\ TxvcTypes' /\ ParsedAt(k)'
      /\ input' = input /\ Driver' = Driver /\ params' = params /\ (ParamsRight' <=> ParamsRight)
      /\ setupCmds' = setupCmds /\ OverrunKnown'
      /\ \A f \in Variable : mem'[f] = IF f \in DOMAIN c THEN c[f] ELSE mem[f]
  BY <1>2, <1>3, LaterStep
<1>5. /\ mem'.active = FALSE /\ mem'.setup = mem.setup /\ mem'.handle = mem.handle /\ mem'.mode = mem.mode
      /\ mem'.bitModeFailed = mem.bitModeFailed /\ mem'.pools = mem.pools /\ mem'.opened = mem.opened
  BY <1>2, <1>4 DEF Variable
<1>6. DeviceRight' <=> DeviceRight
  BY <1>4, <1>5, SameDeviceRight
<1>7. Resources(k)' /\ mem'.pools = 0
  BY <1>4, <1>5 DEF At, Resources, ModeRestored, Early, Finding, Opening
<1>8. Configured(k)'
  BY <1>4, <1>5, <1>6 DEF At, Configured, Early, Finding, Opening, Setting
<1> QED BY <1>4, <1>7, <1>8 DEF TxvcGood, At, Succeeded

LEMMA HelpStep ==
  ASSUME TxvcGood, main_help
  PROVE  TxvcGood'
<1>0. At(pc) /\ pc = "help"
  BY DEF TxvcGood, main_help
<1>1. CASE Goto("help", "profile")
  BY <1>0, <1>1, EarlyMoves, GotoMoves
<1>2. CASE Step("txvc", "help", "exit", [status |-> "EXIT_SUCCESS"])
  <2> DEFINE c == [status |-> "EXIT_SUCCESS"]
  <2>1. DOMAIN mem = TxvcFields /\ DOMAIN c = {"status"} /\ DOMAIN c \subseteq TxvcFields
    BY DEF TxvcGood, TxvcTypes, TxvcFields
  <2>2. Step("txvc", "help", "exit", c)
    BY <1>2
  <2> HIDE DEF c
  <2>3. /\ pc' = "exit" /\ input' = input /\ DOMAIN mem' = TxvcFields
        /\ \A f \in TxvcFields : mem'[f] = IF f \in DOMAIN c THEN c[f] ELSE mem[f]
    BY <2>1, <2>2, StepFields
  <2>4. mem'.pools = mem.pools /\ \A f \in Watched : mem'[f] = mem[f]
    BY <2>1, <2>3 DEF Watched, TxvcFields
  <2>5. mem.pools = 0
    BY <1>0 DEF At, Resources, Early
  <2>6. At("exit")
    BY <1>0, EarlyMoves
  <2>7. TxvcTypes
    BY DEF TxvcGood
  <2> QED BY <2>3, <2>4, <2>5, <2>6, <2>7, Moves
<1> QED BY <1>1, <1>2 DEF main_help

-----------------------------------------------------------------------------
(* The server, what main() does before it, and the clean-up behind it.     *)

LEMMA DividerIsInt == \A t \in Int : rawDivider(t) \in Int
<1> SUFFICES ASSUME NEW t \in Int PROVE rawDivider(t) \in Int
  OBVIOUS
<1>1. product(t) \in Int
  BY SMT DEF product, maxFreqMHz
<1> QED BY SMT, <1>1 DEF rawDivider, quotient

(* Only a period whose product is more than an int holds makes a divider   *)
(* at which set_tck_period() traps.                                        *)
LEMMA NoTrap ==
  ASSUME NEW t \in Int, t > 0, t <= MaxProduct
  PROVE  rawDivider(t) >= 0
<1>1. PICK h \in Nat, l \in Nat : l < 65536 /\ t = 65536 * h + l /\ h = t \div 65536 /\ l = t % 65536
  <2>1. t \div 65536 \in Nat /\ t % 65536 \in Nat /\ t % 65536 < 65536
    BY SMT
  <2>2. t = 65536 * (t \div 65536) + (t % 65536)
    BY SMT
  <2> QED BY <2>1, <2>2
<1>2. PICK m \in Nat, n \in Nat : n < 65536 /\ m = (l * 30) \div 65536 /\ n = (l * 30) % 65536
  BY SMT, <1>1
<1>3. l * 30 = 65536 * m + n
  BY SMT, <1>1, <1>2
<1>4. 65536 * (30 * h + m) + n = 30 * t
  BY SMT, <1>1, <1>3
<1>5. 30 * h + m < 32768
  BY SMT, <1>1, <1>2, <1>4 DEF MaxProduct
<1>6. (h * 30 + m) % 65536 = 30 * h + m
  BY SMT, <1>1, <1>2, <1>5
<1>7. product(t) = (30 * h + m) * 65536 + (n % 65536)
  BY SMT, <1>1, <1>2, <1>5, <1>6 DEF product, maxFreqMHz
<1>8. product(t) = 30 * t
  BY SMT, <1>1, <1>2, <1>4, <1>7
<1> QED BY SMT, <1>8 DEF rawDivider, quotient

LEMMA ServingStep ==
  ASSUME TxvcGood, wrapper_setup \/ serve \/ deactivate \/ setup_device \/ splitter_init \/ init_pools
  PROVE  TxvcGood'
<1>0. At(pc)
  BY DEF TxvcGood
<1>g. ASSUME NEW from, NEW to, Goto(from, to), At(from) => At(to), to # "exit"
      PROVE  TxvcGood'
  BY <1>0, <1>g, GotoMoves
<1>s. ASSUME NEW from, NEW tag, NEW to, Goto(from, Says(tag, to)), At(from) => At(to), to # "exit"
      PROVE  TxvcGood'
  <2>1. pc = from
    BY <1>s DEF Goto, Step
  <2>2. At(Says(tag, to)) /\ Says(tag, to) # "exit"
    BY <1>0, <1>s, <2>1, SaysAt
  <2> QED BY <1>s, <2>2, GotoMoves
<1>f. ASSUME NEW l, NEW k \in {"aborted", "crashed"}, Step("txvc", l, k, [fatal |-> TRUE])
      PROVE  TxvcGood'
  <2> DEFINE c == [fatal |-> TRUE]
  <2>1. Step("txvc", l, k, c) /\ DOMAIN c = {"fatal"} /\ c["fatal"] = TRUE
    BY <1>f
  <2> HIDE DEF c
  <2> QED BY <2>1, FatalStep
<1>1. CASE serve
  BY <1>s, <1>f, <1>1, ServeMoves DEF serve
<1>2. CASE deactivate
  <2>1. CASE Driver = <<"echo">>
    BY <1>g, <1>0, <1>2, <2>1, ServeMoves DEF deactivate, Driver
  <2>2. CASE Driver # <<"echo">>
    BY <1>g, <1>s, <1>2, <2>2, ServeMoves DEF deactivate, Driver
  <2> QED BY <2>1, <2>2
<1>3. CASE setup_device
  BY <1>s, <1>3, ActivateMoves, SetupStep DEF setup_device
<1>4. CASE splitter_init
  BY <1>s, <1>4, ActivateMoves, ActiveStep DEF splitter_init
<1>5. CASE init_pools
  <2>1. CASE Step("txvc", "pools", Says(TagMempool, "aborted"), [fatal |-> TRUE])
    <3>1. PICK k : k = Says(TagMempool, "aborted")
      OBVIOUS
    <3>2. k \in {"aborted", "crashed"}
      BY <3>1, SaysOrDies
    <3> QED BY <1>f, <2>1, <3>1, <3>2
  <2> QED BY <1>5, <2>1, PoolsStep DEF init_pools
<1>6. CASE wrapper_setup
  <2>1. CASE rawDivider(config.tckPeriodNanos) < 0 /\ config.tckPeriodNanos > 0 /\ Goto(pc, "crashed")
    <3>1. PICK t \in Int : t = config.tckPeriodNanos
      BY DEF TxvcGood, TxvcTypes
    <3>2. ~(t <= MaxProduct)
      <4>1. ASSUME t <= MaxProduct PROVE FALSE
        <5>1. rawDivider(t) >= 0
          BY <2>1, <3>1, <4>1, NoTrap
        <5>2. ~(rawDivider(t) >= 0)
          BY <2>1, <3>1, DividerIsInt
        <5> QED BY <5>1, <5>2
      <4> QED BY <4>1
    <3>3. Excused
      BY SMT, <3>1, <3>2 DEF Excused, MaxProduct
    <3>4. At("crashed")
      BY <1>0, <3>3, DiesAt
    <3> QED BY <2>1, <3>4, GotoMoves
  <2>2. CASE Goto("wrapper_setup", "serve") \/ Goto("wrapper_setup", Says(TagFtdi, "serve"))
    BY <1>g, <1>s, <2>2, ServeMoves
  <2> QED BY <1>6, <2>1, <2>2 DEF wrapper_setup
<1> QED BY <1>1, <1>2, <1>3, <1>4, <1>5, <1>6

LEMMA BitModeStep ==
  ASSUME TxvcGood, FT_BITMODE_RESET \/ FT_BITMODE_MPSSE \/ bail_reset_mode \/ reset_mode
  PROVE  TxvcGood'
<1>1. CASE FT_BITMODE_RESET \/ FT_BITMODE_MPSSE
  BY <1>1, SetBitMode, SetBitModeFails DEF FT_BITMODE_RESET, FT_BITMODE_MPSSE
<1>2. CASE bail_reset_mode \/ reset_mode
  BY <1>2, SetBitMode, ResetModeFails DEF bail_reset_mode, reset_mode, ResetMode
<1> QED BY <1>1, <1>2

LEMMA ActivateStep ==
  ASSUME TxvcGood, ActivateNext
  PROVE  TxvcGood'
BY ActivateGotos, ListStep, OverrunStep, SelectStep, OpenStep, BitModeStep, ServingStep, CloseStep, MainGotos DEF ActivateNext

-----------------------------------------------------------------------------
(* Steps up to load_config(): no resource is touched.                      *)

Prepared == {"config", "parsed", "profile", "driverName", "cur", "args", "params", "loaded"}

LEMMA EarlyStep ==
  ASSUME TxvcGood, NEW from \in Early, NEW to, NEW c, Step("txvc", from, to, c), DOMAIN c \subseteq Prepared,
         to \in Early \/ (to \in {"aborted", "crashed"} /\ ~CompleteSpec(input.spec))
  PROVE  /\ At(from) /\ Resources(to)' /\ Configured(to)' /\ Succeeded'
         /\ pc' = to /\ input' = input /\ DOMAIN mem' = TxvcFields
         /\ \A f \in Prepared : mem'[f] = IF f \in DOMAIN c THEN c[f] ELSE mem[f]
<1>1. DOMAIN mem = TxvcFields /\ DOMAIN c \subseteq TxvcFields /\ Prepared \subseteq TxvcFields
  BY DEF Prepared, TxvcFields, TxvcGood, TxvcTypes
<1>2. /\ pc = from /\ pc' = to /\ input' = input /\ DOMAIN mem' = TxvcFields
      /\ \A f \in TxvcFields : mem'[f] = IF f \in DOMAIN c THEN c[f] ELSE mem[f]
  BY <1>1, StepFields
<1>3. \A f \in TxvcFields \ Prepared : mem'[f] = mem[f]
  BY <1>2
<1>4. /\ mem'.handle = mem.handle /\ mem'.mode = mem.mode /\ mem'.bitModeFailed = mem.bitModeFailed
      /\ mem'.pools = mem.pools /\ mem'.active = mem.active /\ mem'.opened = mem.opened
      /\ mem'.overrun = mem.overrun
  BY <1>3 DEF TxvcFields, Prepared
<1>5. At(from)
  BY <1>2 DEF TxvcGood
<1>6. ~mem'.handle /\ ModeRestored' /\ mem'.pools = 0 /\ mem'.opened = 0 /\ ~mem'.active /\ OverrunKnown'
  BY <1>2, <1>4, <1>5 DEF At, Resources, Configured, ModeRestored, OverrunKnown, FitsArray, devices
<1>7. Resources(to)'
  BY <1>2, <1>6 DEF Resources, Excused, Early
<1>8. Configured(to)'
  BY <1>6 DEF Configured, Early, Finding, Opening, Setting
<1>9. Succeeded'
  BY <1>6 DEF Succeeded
<1> QED BY <1>1, <1>2, <1>5, <1>7, <1>8, <1>9

LEMMA IntBounds == MinInt \in Int /\ MaxInt \in Int
BY SMT DEF MinInt, MaxInt

LEMMA ParsedInt ==
  ASSUME NEW w \in Seq(MinInt..MaxInt)
  PROVE  parse_int(w) \in Int
<1>1. MinInt \in Int /\ MaxInt \in Int
  BY IntBounds
<1>2. ASSUME w # <<>> PROVE w[1] \in MinInt..MaxInt
  BY SMT, <1>1, <1>2
<1>3. ASSUME w # <<>> PROVE w[1] \in Int
  BY SMT, <1>1, <1>2, <1>3
<1> QED BY <1>1, <1>3 DEF parse_int

(* One option; the last -p counts.                                         *)
LEMMA OptionStep ==
  ASSUME TxvcGood, getopt_option
  PROVE  TxvcGood'
<1>1. PICK o \in {input.options[mem.parsed + 1]} :
        /\ o.opt # "?"
        /\ Step("txvc", "getopt", "getopt",
               [ parsed |-> mem.parsed + 1,
                 config |-> CASE o.opt = "p" -> [config EXCEPT !.profile = o.arg]
                              [] o.opt = "t" -> [config EXCEPT !.tckPeriodNanos = parse_int(o.arg)]
                              [] o.opt = "h" -> [config EXCEPT !.help = TRUE]
                              [] o.opt = "D" -> [config EXCEPT !.helpDrivers = TRUE]
                              [] o.opt = "A" -> [config EXCEPT !.helpAliases = TRUE] ])
  BY DEF getopt_option
<1>2. /\ o.opt \in {"p", "t", "h", "D", "A"} /\ (o.opt = "p" => o.arg \in Seq(Words))
      /\ o.opt = "t" => parse_int(o.arg) \in Int
  <2>1. PICK n \in Nat : n = mem.parsed /\ n < Len(input.options) /\ Len(input.options) \in Nat
    BY TxvcAssumption DEF TxvcGood, TxvcTypes, getopt_option, Parsing
  <2>2. n + 1 \in 1..Len(input.options) /\ o = input.options[n + 1]
    BY <1>1, <2>1
  <2>3. o.opt = "p" => o.arg \in Seq(STRING)
    BY <2>2, TxvcAssumption DEF TxvcGood, TxvcTypes
  <2>4. Seq(STRING) \subseteq Seq(Words)
    BY DEF Words
  <2>5. o.opt = "t" => o.arg \in Seq(MinInt..MaxInt)
    BY <2>2, TxvcAssumption DEF TxvcGood, TxvcTypes
  <2>6. o.opt = "t" => parse_int(o.arg) \in Int
    BY <2>5, ParsedInt
  <2> QED BY <1>1, <2>2, <2>3, <2>4, <2>6, TxvcAssumption DEF TxvcGood, TxvcTypes
<1> DEFINE g == CASE o.opt = "p" -> [config EXCEPT !.profile = o.arg]
                  [] o.opt = "t" -> [config EXCEPT !.tckPeriodNanos = parse_int(o.arg)]
                  [] o.opt = "h" -> [config EXCEPT !.help = TRUE]
                  [] o.opt = "D" -> [config EXCEPT !.helpDrivers = TRUE]
                  [] o.opt = "A" -> [config EXCEPT !.helpAliases = TRUE]
           c == [parsed |-> mem.parsed + 1, config |-> g]
<1>3. Step("txvc", "getopt", "getopt", c)
  BY <1>1
<1>4. /\ "profile" \in DOMAIN g /\ g.profile \in Seq(Words)
      /\ "tckPeriodNanos" \in DOMAIN g /\ g.tckPeriodNanos \in Int
  <2>1. /\ "profile" \in DOMAIN config /\ config.profile \in Seq(Words)
        /\ "tckPeriodNanos" \in DOMAIN config /\ config.tckPeriodNanos \in Int
    BY DEF TxvcGood, TxvcTypes
  <2>2. CASE o.opt = "p"
    BY <1>2, <2>1, <2>2
  <2>3. CASE o.opt # "p"
    BY <1>2, <2>1, <2>3
  <2> QED BY <2>2, <2>3
<1> HIDE DEF g
<1>5. DOMAIN c = {"parsed", "config"} /\ c["parsed"] = mem.parsed + 1 /\ c["config"] = g
  OBVIOUS
<1> HIDE DEF c
<1>6. DOMAIN c \subseteq Prepared /\ "getopt" \in Early
  BY <1>5 DEF Prepared, Early
<1>7. /\ At("getopt") /\ Resources("getopt")' /\ Configured("getopt")' /\ Succeeded'
      /\ pc' = "getopt" /\ input' = input /\ DOMAIN mem' = TxvcFields
      /\ \A f \in Prepared : mem'[f] = IF f \in DOMAIN c THEN c[f] ELSE mem[f]
  BY <1>3, <1>6, EarlyStep
<1>8. /\ mem'.config = g /\ mem'.parsed = mem.parsed + 1 /\ mem'.args = mem.args
      /\ mem'.params = mem.params /\ mem'.loaded = mem.loaded
  BY <1>5, <1>7 DEF Prepared
<1>9. ParsedAt("getopt")'
  BY <1>7, <1>8 DEF At, ParsedAt, Early, args, params
<1>10. TxvcTypes'
  BY <1>4, <1>7, <1>8 DEF TxvcGood, TxvcTypes, config
<1> QED BY <1>7, <1>9, <1>10 DEF TxvcGood, At

(* The profile, or what its alias stands for.                              *)
LEMMA FourWords ==
  ASSUME NEW S, NEW a \in S, NEW b \in S, NEW c \in S, NEW d \in S
  PROVE  <<a, b, c, d>> \in Seq(S) /\ <<a, b>> \in Seq(S)
OBVIOUS

LEMMA AliasesAreTexts == \A a \in DOMAIN gAliases : gAliases[a] \in Seq(Words)
<1>0. AliasWords \subseteq Words
  BY DEF Words
<1>1. ASSUME NEW k \in AliasWords, NEW v \in AliasWords PROVE Arg(k, v) \in Seq(Words)
  <2>1. "=" \in AliasWords /\ "," \in AliasWords
    BY DEF AliasWords
  <2> QED BY <1>0, <2>1, FourWords DEF Arg
<1>2. ASSUME NEW d \in AliasWords, NEW v \in AliasWords, NEW p \in AliasWords, NEW ch \in AliasWords,
             NEW outs \in AliasWords
      PROVE  Alias(d, v, p, ch, outs) \in Seq(Words)
  <2>1. <<"ftdi-generic", ":">> \in Seq(Words)
    <3>1. "ftdi-generic" \in AliasWords /\ ":" \in AliasWords
      BY DEF AliasWords
    <3> QED BY <1>0, <3>1, FourWords
  <2>2. /\ "device" \in AliasWords /\ "vid" \in AliasWords /\ "pid" \in AliasWords /\ "channel" \in AliasWords
        /\ "read_latency_millis" \in AliasWords /\ "1" \in AliasWords /\ "ignored" \in AliasWords
        /\ "d4" \in AliasWords /\ "d5" \in AliasWords /\ "d6" \in AliasWords /\ "d7" \in AliasWords
    BY DEF AliasWords
  <2>3. /\ Arg("device", d) \in Seq(Words) /\ Arg("vid", v) \in Seq(Words) /\ Arg("pid", p) \in Seq(Words)
        /\ Arg("channel", ch) \in Seq(Words) /\ Arg("read_latency_millis", "1") \in Seq(Words)
        /\ Arg("d4", "ignored") \in Seq(Words) /\ Arg("d5", "ignored") \in Seq(Words)
        /\ Arg("d6", outs) \in Seq(Words) /\ Arg("d7", outs) \in Seq(Words)
    BY <1>1, <2>2
  <2>4. \A s, t \in Seq(Words) : s \o t \in Seq(Words)
    OBVIOUS
  <2> QED BY <2>1, <2>3, <2>4, Zenon DEF Alias
<1>3. /\ DOMAIN gAliases = {"ft232h", "mimas_a7", "mimas_a7_mini", "narvi"}
      /\ gAliases["ft232h"] = Alias("ft232h",  "0403", "6014", "A", "ignored")
      /\ gAliases["mimas_a7"] = Alias("ft2232h", "2a19", "1009", "B", "driver_low")
      /\ gAliases["mimas_a7_mini"] = Alias("ft2232h", "2a19", "100E", "B", "driver_low")
      /\ gAliases["narvi"] = Alias("ft2232h", "2a19", "100D", "B", "driver_low")
  BY DEF gAliases
<1>4. /\ Alias("ft232h",  "0403", "6014", "A", "ignored") \in Seq(Words)
      /\ Alias("ft2232h", "2a19", "1009", "B", "driver_low") \in Seq(Words)
      /\ Alias("ft2232h", "2a19", "100E", "B", "driver_low") \in Seq(Words)
      /\ Alias("ft2232h", "2a19", "100D", "B", "driver_low") \in Seq(Words)
  <2>1. /\ "ft232h" \in AliasWords /\ "ft2232h" \in AliasWords /\ "0403" \in AliasWords /\ "6014" \in AliasWords
        /\ "2a19" \in AliasWords /\ "1009" \in AliasWords /\ "100E" \in AliasWords /\ "100D" \in AliasWords
        /\ "A" \in AliasWords /\ "B" \in AliasWords /\ "ignored" \in AliasWords /\ "driver_low" \in AliasWords
    BY DEF AliasWords
  <2> QED BY <1>2, <2>1
<1> QED BY <1>3, <1>4

LEMMA ProfileChosen ==
  ASSUME TxvcGood, NEW to, NEW t, Step("txvc", "profile", to, [profile |-> t]), t \in Seq(Words),
         to = "tck" \/ (to \in {"aborted", "crashed"} /\ ~CompleteSpec(input.spec))
  PROVE  TxvcGood'
<1> DEFINE c == [profile |-> t]
<1>1. Step("txvc", "profile", to, c) /\ DOMAIN c = {"profile"} /\ c["profile"] = t
  OBVIOUS
<1> HIDE DEF c
<1>2. DOMAIN c \subseteq Prepared /\ "profile" \in Early /\ "tck" \in Early
  BY <1>1 DEF Prepared, Early
<1>3. /\ At("profile") /\ Resources(to)' /\ Configured(to)' /\ Succeeded'
      /\ pc' = to /\ input' = input /\ DOMAIN mem' = TxvcFields
      /\ \A f \in Prepared : mem'[f] = IF f \in DOMAIN c THEN c[f] ELSE mem[f]
  BY <1>1, <1>2, EarlyStep
<1>4. /\ mem'.config = mem.config /\ mem'.parsed = mem.parsed /\ mem'.args = mem.args
      /\ mem'.params = mem.params /\ mem'.loaded = mem.loaded /\ mem'.profile = t
  BY <1>1, <1>3 DEF Prepared
<1>5. ParsedAt(to)'
  BY <1>3, <1>4 DEF At, ParsedAt, Early, args, params, text
<1>6. TxvcTypes'
  BY <1>3, <1>4 DEF TxvcGood, TxvcTypes, config
<1> QED BY <1>3, <1>5, <1>6 DEF TxvcGood, At

LEMMA ProfileStep ==
  ASSUME TxvcGood, main_profile
  PROVE  TxvcGood'
<1>0. At(pc) /\ pc = "profile"
  BY DEF TxvcGood, main_profile
<1>1. CASE Fail("profile", "exit")
  BY <1>0, <1>1, EarlyMoves, FailMoves
<1>2. CASE /\ IsAlias(config.profile)
           /\ Step("txvc", "profile", Says(TagTxvc, "tck"), [profile |-> gAliases[config.profile[1]]])
  <2>1. PICK to : to = Says(TagTxvc, "tck")
    OBVIOUS
  <2>2. to = "tck" \/ (to \in {"aborted", "crashed"} /\ ~CompleteSpec(input.spec))
    BY <2>1, SaysOrDies
  <2>3. gAliases[config.profile[1]] \in Seq(Words)
    BY <1>2, AliasesAreTexts DEF IsAlias
  <2> QED BY <1>2, <2>1, <2>2, <2>3, ProfileChosen
<1>3. CASE Step("txvc", "profile", "tck", [profile |-> config.profile])
  <2>1. config.profile \in Seq(Words)
    BY DEF TxvcGood, TxvcTypes
  <2> QED BY <1>3, <2>1, ProfileChosen
<1> QED BY <1>1, <1>2, <1>3 DEF main_profile

LEMMA DriverNameStep ==
  ASSUME TxvcGood, parse_driver_name
  PROVE  TxvcGood'
<1>1. PICK colon \in {strchr(text, 1, ":")} :
        Step("txvc", "parse", "arg",
             [ driverName |-> IF colon = 0 THEN text ELSE SubSeq(text, 1, colon - 1),
               cur |-> IF colon = 0 THEN 0 ELSE colon + 1 ])
  BY DEF parse_driver_name
<1>2. colon = Colon(text)
  BY <1>1, Zenon DEF Colon, COLON
<1> DEFINE d == IF colon = 0 THEN text ELSE SubSeq(text, 1, colon - 1)
           n == IF colon = 0 THEN 0 ELSE colon + 1
           c == [driverName |-> d, cur |-> n]
<1>3. Step("txvc", "parse", "arg", c)
  BY <1>1
<1> HIDE DEF d
<1>4. n = IF Colon(text) = 0 THEN 0 ELSE Colon(text) + 1
  BY <1>2
<1> HIDE DEF n
<1>5. DOMAIN c = {"driverName", "cur"} /\ c["cur"] = n
  OBVIOUS
<1> HIDE DEF c
<1>6. DOMAIN c \subseteq Prepared /\ "parse" \in Early /\ "arg" \in Early
  BY <1>5 DEF Prepared, Early
<1>7. /\ At("parse") /\ Resources("arg")' /\ Configured("arg")' /\ Succeeded'
      /\ pc' = "arg" /\ input' = input /\ DOMAIN mem' = TxvcFields
      /\ \A f \in Prepared : mem'[f] = IF f \in DOMAIN c THEN c[f] ELSE mem[f]
  BY <1>3, <1>6, EarlyStep
<1>8. /\ mem'.config = mem.config /\ mem'.parsed = mem.parsed /\ mem'.args = mem.args
      /\ mem'.params = mem.params /\ mem'.loaded = mem.loaded /\ mem'.profile = mem.profile /\ mem'.cur = n
  BY <1>5, <1>7 DEF Prepared
<1>9. text' = text /\ args' = args /\ params' = params /\ cur' = n
  BY <1>8 DEF text, args, params, cur
<1>10. text \in Seq(Words) /\ args = <<>> /\ params = Defaults /\ mem.loaded = 0
  BY <1>7 DEF At, ParsedAt, Early
<1>11. ArgsUpTo(text, args, cur)'
  <2>1. PICK t \in Seq(Words) : t = text
    BY <1>10
  <2>2. ArgsUpTo(t, <<>>, n)
    BY <1>4, <2>1, ArgsBegin
  <2> QED BY <1>9, <1>10, <2>1, <2>2
<1>12. ParsedAt("arg")'
  BY <1>8, <1>9, <1>10, <1>11 DEF ParsedAt, Early
<1>13. TxvcTypes'
  BY <1>7, <1>8 DEF TxvcGood, TxvcTypes, config
<1> QED BY <1>7, <1>12, <1>13 DEF TxvcGood, At

LEMMA InsideText ==
  ASSUME NEW t \in Seq(Words), NEW a, NEW i, ArgsUpTo(t, a, i), i # 0, i <= Len(t)
  PROVE  ~(i > Len(t))
<1>1. PICK n \in Nat : n = Len(t)
  OBVIOUS
<1>2. i \in ArgStarts(t) \/ i = n + 1
  BY <1>1 DEF ArgsUpTo
<1>3. i \in Nat
  BY <1>2, StartsAreNat
<1> QED BY <1>1, <1>3

LEMMA ArgStep ==
  ASSUME TxvcGood, parse_arg
  PROVE  TxvcGood'
<1>1. PICK comma \in {strchr(text, cur, ",")} : \E last \in {IF comma = 0 THEN Len(text) ELSE comma - 1} :
        \E eq \in {strchr(SubSeq(text, 1, last), cur, "=")} :
          Step("txvc", "arg", "arg",
               [ cur  |-> IF comma = 0 THEN 0 ELSE comma + 1,
                 args |-> Append(args, [ key   |-> SubSeq(text, cur, IF eq = 0 THEN last ELSE eq - 1),
                                         value |-> IF eq = 0 THEN <<>> ELSE SubSeq(text, eq + 1, last) ]) ])
  BY DEF parse_arg
<1>2. PICK last \in {IF comma = 0 THEN Len(text) ELSE comma - 1} :
        \E eq \in {strchr(SubSeq(text, 1, last), cur, "=")} :
          Step("txvc", "arg", "arg",
               [ cur  |-> IF comma = 0 THEN 0 ELSE comma + 1,
                 args |-> Append(args, [ key   |-> SubSeq(text, cur, IF eq = 0 THEN last ELSE eq - 1),
                                         value |-> IF eq = 0 THEN <<>> ELSE SubSeq(text, eq + 1, last) ]) ])
  BY <1>1
<1>3. PICK eq \in {strchr(SubSeq(text, 1, last), cur, "=")} :
        Step("txvc", "arg", "arg",
             [ cur  |-> IF comma = 0 THEN 0 ELSE comma + 1,
               args |-> Append(args, [ key   |-> SubSeq(text, cur, IF eq = 0 THEN last ELSE eq - 1),
                                       value |-> IF eq = 0 THEN <<>> ELSE SubSeq(text, eq + 1, last) ]) ])
  BY <1>2
<1>4. comma = strchr(text, cur, COMMA)
  BY <1>1, Zenon DEF COMMA
<1>5. last = EndOf(text, cur)
  BY <1>2, <1>4, Zenon DEF EndOf
<1>6. eq = EqOf(text, cur)
  BY <1>3, <1>5, Zenon DEF EqOf, EQUALS
<1> DEFINE n == NextOf(text, cur)
           a == Append(args, [key |-> KeyOf(text, cur), value |-> ValueOf(text, cur)])
           c == [cur |-> n, args |-> a]
<1>7. Step("txvc", "arg", "arg", c)
  <2>1. n = IF comma = 0 THEN 0 ELSE comma + 1
    BY <1>4, Zenon DEF NextOf
  <2>2. KeyOf(text, cur) = SubSeq(text, cur, IF eq = 0 THEN last ELSE eq - 1)
    BY <1>5, <1>6, Zenon DEF KeyOf
  <2>3. ValueOf(text, cur) = IF eq = 0 THEN <<>> ELSE SubSeq(text, eq + 1, last)
    BY <1>5, <1>6, Zenon DEF ValueOf
  <2> QED BY <1>3, <2>1, <2>2, <2>3, Zenon
<1> HIDE DEF n, a
<1>8. DOMAIN c = {"args", "cur"} /\ c["cur"] = n /\ c["args"] = a
  OBVIOUS
<1> HIDE DEF c
<1>9. DOMAIN c \subseteq Prepared /\ "arg" \in Early
  BY <1>8 DEF Prepared, Early
<1>10. /\ At("arg") /\ Resources("arg")' /\ Configured("arg")' /\ Succeeded'
       /\ pc' = "arg" /\ input' = input /\ DOMAIN mem' = TxvcFields
       /\ \A f \in Prepared : mem'[f] = IF f \in DOMAIN c THEN c[f] ELSE mem[f]
  BY <1>7, <1>9, EarlyStep
<1>11. /\ mem'.config = mem.config /\ mem'.parsed = mem.parsed /\ mem'.args = a
       /\ mem'.params = mem.params /\ mem'.loaded = mem.loaded /\ mem'.profile = mem.profile /\ mem'.cur = n
  BY <1>8, <1>10 DEF Prepared
<1>12. text' = text /\ args' = a /\ params' = params /\ cur' = n
  BY <1>11 DEF text, args, params, cur
<1>13. text \in Seq(Words) /\ ArgsUpTo(text, args, cur) /\ params = Defaults /\ mem.loaded = 0
  BY <1>10 DEF At, ParsedAt, Early
<1>14. ArgsUpTo(text, args, cur)'
  <2>1. PICK t \in Seq(Words) : t = text
    BY <1>13
  <2>2. PICK b, i : b = args /\ i = cur
    OBVIOUS
  <2>3. ArgsUpTo(t, b, i) /\ i # 0 /\ i <= Len(t)
    BY <1>13, <2>1, <2>2 DEF parse_arg, AtArg
  <2>4. ~(i > Len(t))
    BY <2>3, InsideText
  <2>5. ArgsUpTo(t, Append(b, [key |-> KeyOf(t, i), value |-> ValueOf(t, i)]), NextOf(t, i))
    BY <2>3, <2>4, ArgAppended
  <2> QED BY <1>12, <2>1, <2>2, <2>5 DEF a, n
<1>15. ParsedAt("arg")'
  BY <1>11, <1>12, <1>13, <1>14 DEF ParsedAt, Early
<1>16. TxvcTypes'
  BY <1>10, <1>11 DEF TxvcGood, TxvcTypes, config
<1> QED BY <1>10, <1>15, <1>16 DEF TxvcGood, At

LEMMA ParsedStep ==
  ASSUME TxvcGood, parse_done
  PROVE  TxvcGood'
<1>0. At(pc) /\ pc = "arg"
  BY DEF TxvcGood, parse_done
<1>1. text \in Seq(Words) /\ ArgsUpTo(text, args, cur) /\ (cur = 0 \/ cur > Len(text))
  BY <1>0 DEF At, ParsedAt, parse_done
<1>2. ArgsUpTo(text, args, 0)
  BY <1>1, ArgsEnd
<1>3. At("find_driver")
  BY <1>0, <1>1, <1>2 DEF At, Resources, Configured, ParsedAt, Early, Finding, Opening, Setting
<1> QED BY <1>3, GotoMoves DEF parse_done

LEMMA FindStep ==
  ASSUME TxvcGood, find_driver
  PROVE  TxvcGood'
<1>0. At(pc) /\ pc = "find_driver"
  BY DEF TxvcGood, find_driver
<1>1. CASE Driver = <<"echo">> /\ Step("txvc", "find_driver", "wrapper_setup", [active |-> TRUE])
  BY <1>1, ActiveStep
<1>2. CASE Driver = <<"ftdi-generic">> /\ Goto("find_driver", "load_config")
  <2>1. params = Defaults /\ mem.loaded = 0 /\ text \in Seq(Words) /\ ArgsUpTo(text, args, 0)
    BY <1>0 DEF At, ParsedAt, Early
  <2>2. mem.loaded \in Nat /\ mem.loaded <= Len(args)
    <3>1. Len(args) \in Nat
      BY <2>1 DEF ArgsUpTo
    <3> QED BY <2>1, <3>1
  <2>3. AllLoaded(0)
    <3>1. DOMAIN Defaults = ParamNames
      BY DEF Defaults
    <3> QED BY <2>1, <3>1, LoadBegins DEF AllLoaded
  <2>4. ParsedAt("load_config")
    BY <1>2, <2>1, <2>2, <2>3 DEF ParsedAt, Early
  <2>5. At("load_config")
    BY <1>0, <2>4 DEF At, Resources, Configured, Early, Finding, Opening, Setting
  <2> QED BY <1>2, <2>5, GotoMoves
<1>3. CASE Fail("find_driver", Says(TagTxvc, "exit"))
  <2>1. At(Says(TagTxvc, "exit"))
    BY <1>0, EarlyMoves, SaysAt
  <2> QED BY <1>3, <2>1, FailMoves
<1> QED BY <1>1, <1>2, <1>3 DEF find_driver, Driver

(* One argument is loaded, or is not known.                                *)
LEMMA LoadOneStep ==
  ASSUME NEW n \in Nat, NEW a \in Seq(Arguments), n < Len(a), NEW f, DOMAIN f = ParamNames,
         \A p \in ParamNames : LoadedAs(p, f[p], a, n)
  PROVE  /\ n + 1 \in Nat /\ n + 1 <= Len(a)
         /\ IsParam(a[n + 1].key) =>
              LET g == [f EXCEPT ![a[n + 1].key[1]] = Converted(a[n + 1].key[1], a[n + 1].value)]
              IN  DOMAIN g = ParamNames /\ \A p \in ParamNames : LoadedAs(p, g[p], a, n + 1)
         /\ ~IsParam(a[n + 1].key) => \A p \in ParamNames : LoadedAs(p, f[p], a, n + 1)
<1>1. n + 1 \in Nat /\ n + 1 <= Len(a) /\ n + 1 \in 1..Len(a)
  OBVIOUS
<1>2. PICK r \in Arguments : r = a[n + 1]
  BY <1>1
<1>3. r.key \in Seq(Words)
  BY <1>2 DEF Arguments
<1>4. \A p : r.key = <<p>> <=> Len(r.key) = 1 /\ r.key[1] = p
  BY <1>3, KeyOfOne
<1>5. CASE IsParam(r.key)
  <2>1. PICK q \in ParamNames : q = r.key[1] /\ r.key = <<q>>
    BY <1>4, <1>5 DEF IsParam
  <2>2. PICK g : g = [f EXCEPT ![q] = Converted(q, r.value)]
    OBVIOUS
  <2>3. DOMAIN g = ParamNames /\ g[q] = Converted(q, r.value) /\ \A p \in ParamNames \ {q} : g[p] = f[p]
    BY <2>1, <2>2
  <2>4. LoadedAs(q, g[q], a, n + 1)
    <3>1. a[n + 1].key = <<q>>
      BY <1>2, <2>1
    <3>2. LoadedAs(q, Converted(q, a[n + 1].value), a, n + 1)
      BY <3>1, LoadThis
    <3> QED BY <1>2, <2>3, <3>2
  <2>5. ASSUME NEW p \in ParamNames \ {q} PROVE LoadedAs(p, g[p], a, n + 1)
    <3>1. a[n + 1].key # <<p>>
      BY <1>2, <1>4, <2>1
    <3>2. LoadedAs(p, f[p], a, n)
      OBVIOUS
    <3>3. LoadedAs(p, f[p], a, n + 1)
      BY <3>1, <3>2, LoadOther
    <3> QED BY <2>3, <3>3
  <2> QED BY <1>1, <1>2, <1>5, <2>1, <2>2, <2>3, <2>4, <2>5
<1>6. CASE ~IsParam(r.key)
  <2>1. ASSUME NEW p \in ParamNames PROVE LoadedAs(p, f[p], a, n + 1)
    <3>1. a[n + 1].key # <<p>>
      BY <1>2, <1>4, <1>6 DEF IsParam
    <3> QED BY <3>1, LoadOther
  <2> QED BY <1>1, <1>2, <1>6, <2>1
<1> QED BY <1>5, <1>6

LEMMA LoadStep ==
  ASSUME TxvcGood, ftdi_load_arg
  PROVE  TxvcGood'
<1>0. At("load_config") /\ pc = "load_config"
  BY DEF TxvcGood, ftdi_load_arg
<1>1. /\ Driver = <<"ftdi-generic">> /\ mem.loaded \in Nat /\ text \in Seq(Words)
      /\ ArgsUpTo(text, args, 0) /\ AllLoaded(mem.loaded)
  BY <1>0 DEF At, ParsedAt
<1>2. PICK n \in Nat, a \in Seq(Arguments) : n = mem.loaded /\ a = args /\ n < Len(a)
  BY <1>1 DEF ArgsUpTo, ftdi_load_arg
<1>3. PICK f : f = params /\ DOMAIN f = ParamNames /\ \A p \in ParamNames : LoadedAs(p, f[p], a, n)
  BY <1>1, <1>2 DEF AllLoaded
<1>4. /\ n + 1 \in Nat /\ n + 1 <= Len(a)
      /\ IsParam(a[n + 1].key) =>
           LET g == [f EXCEPT ![a[n + 1].key[1]] = Converted(a[n + 1].key[1], a[n + 1].value)]
           IN  DOMAIN g = ParamNames /\ \A p \in ParamNames : LoadedAs(p, g[p], a, n + 1)
      /\ ~IsParam(a[n + 1].key) => \A p \in ParamNames : LoadedAs(p, f[p], a, n + 1)
  BY <1>2, <1>3, LoadOneStep
<1>5. ASSUME NEW g, NEW to, NEW c, Step("txvc", "load_config", to, c),
             DOMAIN c \subseteq {"params", "loaded"}, "loaded" \in DOMAIN c, c["loaded"] = n + 1,
             g = IF "params" \in DOMAIN c THEN c["params"] ELSE f,
             DOMAIN g = ParamNames, \A p \in ParamNames : LoadedAs(p, g[p], a, n + 1),
             to = "load_config" \/ (to \in {"aborted", "crashed"} /\ ~CompleteSpec(input.spec))
      PROVE  TxvcGood'
  <2>1. DOMAIN c \subseteq Prepared /\ "load_config" \in Early
    BY <1>5 DEF Prepared, Early
  <2>2. /\ Resources(to)' /\ Configured(to)' /\ Succeeded'
        /\ pc' = to /\ input' = input /\ DOMAIN mem' = TxvcFields
        /\ \A v \in Prepared : mem'[v] = IF v \in DOMAIN c THEN c[v] ELSE mem[v]
    BY <1>5, <2>1, EarlyStep
  <2>3. /\ mem'.config = mem.config /\ mem'.parsed = mem.parsed /\ mem'.args = mem.args
        /\ mem'.profile = mem.profile /\ mem'.driverName = mem.driverName
        /\ mem'.loaded = n + 1
    BY <1>5, <2>2 DEF Prepared
  <2>4. mem'.params = g
    BY <1>3, <1>5, <2>2 DEF Prepared, params
  <2>5. text' = text /\ args' = a /\ params' = g /\ Driver' = Driver
    BY <1>2, <2>3, <2>4 DEF text, args, params, Driver
  <2>6. AllLoaded(n + 1)'
    BY <1>5, <2>5 DEF AllLoaded
  <2>7. ParsedAt(to)'
    BY <1>1, <1>2, <1>4, <1>5, <2>3, <2>5, <2>6 DEF ParsedAt, Early
  <2>8. TxvcTypes'
    BY <2>2, <2>3 DEF TxvcGood, TxvcTypes, config
  <2> QED BY <2>2, <2>7, <2>8 DEF TxvcGood, At
<1>6. CASE IsParam(a[n + 1].key)
  <2> DEFINE g == [f EXCEPT ![a[n + 1].key[1]] = Converted(a[n + 1].key[1], a[n + 1].value)]
             c == [params |-> g, loaded |-> n + 1]
  <2>1. Step("txvc", "load_config", "load_config", c)
    BY <1>2, <1>3, <1>6 DEF ftdi_load_arg
  <2>2. DOMAIN g = ParamNames /\ \A p \in ParamNames : LoadedAs(p, g[p], a, n + 1)
    BY <1>4, <1>6
  <2> HIDE DEF g
  <2>3. DOMAIN c = {"params", "loaded"} /\ c["loaded"] = n + 1 /\ c["params"] = g
    OBVIOUS
  <2> HIDE DEF c
  <2> QED BY <1>5, <2>1, <2>2, <2>3
<1>7. CASE ~IsParam(a[n + 1].key)
  <2>1. PICK to : to = Says(TagFtdi, "load_config")
    OBVIOUS
  <2>2. to = "load_config" \/ (to \in {"aborted", "crashed"} /\ ~CompleteSpec(input.spec))
    BY <2>1, SaysOrDies
  <2> DEFINE c == [loaded |-> n + 1]
  <2>3. Step("txvc", "load_config", to, c)
    BY <1>2, <1>7, <2>1 DEF ftdi_load_arg
  <2>4. DOMAIN c = {"loaded"} /\ c["loaded"] = n + 1 /\ "params" \notin DOMAIN c
    OBVIOUS
  <2> HIDE DEF c
  <2> QED BY <1>3, <1>4, <1>5, <1>7, <2>2, <2>3, <2>4
<1> QED BY <1>6, <1>7

LEMMA ValidateStep ==
  ASSUME TxvcGood, ftdi_validate
  PROVE  TxvcGood'
<1>0. At(pc) /\ pc = "load_config" /\ mem.loaded = Len(args)
  BY DEF TxvcGood, ftdi_validate
<1>1. /\ Driver = <<"ftdi-generic">> /\ text \in Seq(Words) /\ ArgsUpTo(text, args, 0) /\ AllLoaded(Len(args))
  BY <1>0 DEF At, ParsedAt
<1>2. CASE AllValid /\ ChipTakesChannel
  <2>1. ParamsRight
    BY <1>1, <1>2, ValidatedIsRight DEF AllLoaded
  <2>2. At("FT_GetLibraryVersion")
    BY <1>0, <1>1, <2>1 DEF At, Resources, Configured, ParsedAt, Early, Finding, Opening, Setting
  <2> QED BY <1>2, <2>2, GotoMoves DEF ftdi_validate
<1>3. CASE ~(AllValid /\ ChipTakesChannel)
  <2>1. At(Says(TagFtdi, "bail_noop")) /\ Says(TagFtdi, "bail_noop") # "exit"
    BY <1>0, EarlyMoves, SaysAt
  <2> QED BY <1>3, <2>1, GotoMoves DEF ftdi_validate
<1> QED BY <1>2, <1>3

-----------------------------------------------------------------------------
(* The invariant.                                                          *)

LEMMA TxvcInitHolds ==
  ASSUME Init
  PROVE  TxvcInv
<1> SUFFICES ASSUME prog = "txvc" PROVE TxvcGood
  BY DEF TxvcInv
<1>1. TxvcInit
  BY OwnInits
<1>2. PICK l \in Launches :
        Started("txvc", l, "main",
            [ config |-> DefaultConfig, parsed |-> 0,
              profile |-> <<>>, driverName |-> <<>>, cur |-> 0, args |-> <<>>,
              params |-> Defaults, loaded |-> 0,
              lastStatus |-> "FT_OK", overrun |-> FALSE, selected |-> 0, opened |-> 0,
              handle |-> FALSE, mode |-> "unknown", bitModeFailed |-> FALSE, pools |-> 0,
              setup |-> [high |-> {}, out |-> {}], active |-> FALSE, fatal |-> FALSE, status |-> "none" ])
  BY <1>1 DEF TxvcInit
<1>3. pc = "main" /\ input = l
  BY <1>2 DEF Started
<1>4. /\ DOMAIN mem = TxvcFields /\ mem.config = DefaultConfig /\ mem.parsed = 0 /\ mem.args = <<>>
      /\ mem.params = Defaults /\ mem.loaded = 0 /\ mem.opened = 0 /\ mem.handle = FALSE
      /\ mem.mode = "unknown" /\ mem.pools = 0 /\ mem.active = FALSE /\ mem.overrun = FALSE
  BY <1>2 DEF Started, TxvcFields
<1>5. TxvcTypes
  <2>1. /\ "profile" \in DOMAIN DefaultConfig /\ DefaultConfig.profile = <<>>
        /\ "tckPeriodNanos" \in DOMAIN DefaultConfig /\ DefaultConfig.tckPeriodNanos = 0
    BY DEF DefaultConfig
  <2>2. <<>> \in Seq(Words)
    OBVIOUS
  <2> QED BY <1>3, <1>4, <2>1, <2>2 DEF TxvcTypes, config
<1>6. At(pc)
  BY <1>3, <1>4 DEF At, Resources, ModeRestored, Configured, OverrunKnown, ParsedAt, args, params, Early, Finding, Opening, Setting
<1> QED BY <1>3, <1>5, <1>6 DEF TxvcGood, Succeeded

LEMMA TxvcInvStep ==
  ASSUME TxvcInv, [Next]_vars
  PROVE  TxvcInv'
<1> SUFFICES ASSUME prog' = "txvc" PROVE TxvcGood'
  BY DEF TxvcInv
<1>1. prog = "txvc" /\ TxvcGood
  BY SameProgram DEF TxvcInv
<1>2. TxvcNext \/ UNCHANGED vars
  BY <1>1, OwnSteps
<1>3. CASE MainNext
  BY <1>1, <1>3, MainGotos, OptionStep, HelpStep, ProfileStep, FindStep, ServingStep, PoolsStep, BitModeStep,
     CloseStep, EndStep DEF MainNext
<1>4. CASE ProfileNext
  BY <1>1, <1>4, MainGotos, DriverNameStep, ArgStep, ParsedStep, LoadStep, ValidateStep DEF ProfileNext
<1>5. CASE ActivateNext
  BY <1>1, <1>5, ActivateStep
<1>6. CASE UNCHANGED vars
  <2>1. pc' = pc /\ mem' = mem /\ input' = input
    BY <1>6 DEF vars
  <2>2. At(pc)'
    BY <1>1, <2>1, SameAt DEF TxvcGood
  <2> QED BY <1>1, <2>1, <2>2 DEF TxvcGood, TxvcTypes, Succeeded, config
<1> QED BY <1>2, <1>3, <1>4, <1>5, <1>6 DEF TxvcNext

LEMMA TxvcInvAlways == Spec => []TxvcInv
<1>1. Init => TxvcInv
  BY TxvcInitHolds
<1>2. TxvcInv /\ [Next]_vars => TxvcInv'
  BY TxvcInvStep
<1> QED BY <1>1, <1>2, PTL DEF Spec

-----------------------------------------------------------------------------
(* The theorems.                                                           *)

(* Whatever the profile looks like and whatever its length, what the       *)
(* parser (libtxvc/profile.c), the aliases and load_config()               *)
(* (libdrivers/ftdi_generic.c) make of it is what was last written for     *)
(* each parameter, whenever a device is open; and the pins of an active    *)
(* driver are set up that way.                                             *)
THEOREM ProfileIsFollowed == Spec => []ProfileAsWritten
<1>1. TxvcInv => ProfileAsWritten
  <2> SUFFICES ASSUME prog = "txvc", TxvcGood
               PROVE  /\ mem.handle =>
                           /\ \A p \in ParamNames \ {"read_latency_millis"} : params[p] = WrittenWord(p)
                           /\ params["read_latency_millis"] =
                                 (IF Written("read_latency_millis") \in {<<>>, <<"nothing">>} THEN "16"
                                  ELSE WrittenWord("read_latency_millis"))
                      /\ mem.active /\ mem.driverName # <<"echo">> =>
                           /\ mem.setup.out = {0, 1, 3} \cup {Pins[p] : p \in {q \in DOMAIN Pins :
                                                  WrittenWord(q) \in {"driver_low", "driver_high"}}}
                           /\ mem.setup.high = {3} \cup {Pins[p] : p \in {q \in DOMAIN Pins :
                                                  WrittenWord(q) = "driver_high"}}
    BY DEF TxvcInv, ProfileAsWritten
  <2>1. mem.handle => ParamsRight
    BY DEF TxvcGood, At, Configured
  <2>2. mem.active /\ mem.driverName # <<"echo">> => ParamsRight /\ mem.setup = setupCmds
    BY DEF TxvcGood, At, Configured, Driver
  <2>3. ASSUME ParamsRight, NEW q \in DOMAIN Pins
        PROVE  params[q] = WrittenWord(q) /\ (params[q] # "ignored" <=> params[q] \in {"driver_low", "driver_high"})
    <3>1. q \in OtherNames /\ Accepted(q) = {"driver_low", "driver_high", "ignored"}
      BY DEF OtherNames, ParamNames, Latency, Pins, Accepted
    <3> QED BY <2>3, <3>1 DEF ParamsRight
  <2>4. ASSUME ParamsRight, mem.setup = setupCmds
        PROVE  /\ mem.setup.out = {0, 1, 3} \cup {Pins[p] : p \in {q \in DOMAIN Pins :
                                         WrittenWord(q) \in {"driver_low", "driver_high"}}}
               /\ mem.setup.high = {3} \cup {Pins[p] : p \in {q \in DOMAIN Pins : WrittenWord(q) = "driver_high"}}
    <3>1. {q \in DOMAIN Pins : params[q] # "ignored"}
            = {q \in DOMAIN Pins : WrittenWord(q) \in {"driver_low", "driver_high"}}
      BY <2>3, <2>4
    <3>2. {q \in DOMAIN Pins : params[q] = "driver_high"} = {q \in DOMAIN Pins : WrittenWord(q) = "driver_high"}
      BY <2>3, <2>4
    <3>3. /\ setupCmds.high = {3} \cup {Pins[p] : p \in {q \in DOMAIN Pins : params[q] = "driver_high"}}
          /\ setupCmds.out = {0, 1, 3} \cup {Pins[p] : p \in {q \in DOMAIN Pins : params[q] # "ignored"}}
      BY Zenon DEF setupCmds
    <3> QED BY <2>4, <3>1, <3>2, <3>3, Zenon
  <2> QED BY <2>1, <2>2, <2>4 DEF ParamsRight, OtherNames, Latency
<1> QED BY <1>1, TxvcInvAlways, PTL

(* However many devices the array on the stack of activate() takes, and in *)
(* whatever order they are listed, the one that is opened, by its serial   *)
(* number or by its index, is the first of the channel that the profile    *)
(* names, or else it has itself no serial number.  That such a device is   *)
(* not opened in place of the right one is not claimed: it may be, and so  *)
(* may any device of a longer list.                                        *)
THEOREM DeviceIsRight == Spec => []RightDeviceOpened
<1>1. TxvcInv => RightDeviceOpened
  <2> SUFFICES ASSUME prog = "txvc", TxvcGood, mem.opened # 0, FitsArray
               PROVE  ChannelOpened \/ devices[mem.opened] = <<>>
    BY DEF TxvcInv, RightDeviceOpened
  <2>1. ParamsRight /\ DeviceRight
    BY DEF TxvcGood, At, Configured
  <2>2. "device" \in OtherNames /\ "channel" \in OtherNames
    BY DEF OtherNames, ParamNames, Pins, Latency
  <2>3. params["device"] = WrittenWord("device") /\ params["channel"] = WrittenWord("channel")
    BY <2>1, <2>2 DEF ParamsRight
  <2> QED BY <2>1, <2>3 DEF DeviceRight, AskedFor, ChannelOpened
<1> QED BY <1>1, TxvcInvAlways, PTL

(* Wherever activate() fails, and however main() returns, the device is    *)
(* closed, MPSSE mode is left unless D2XX refuses, and no pool is left     *)
(* behind a success.  With a complete log spec there is no other end than  *)
(* the ones the property names, among them the trap of set_tck_period() in *)
(* txvc_driver_wrapper_setup(), which no -t up to MaxProduct reaches.      *)
THEOREM DeviceIsReleased == Spec => []DeviceReleased
<1>1. TxvcInv => DeviceReleased
  <2> SUFFICES ASSUME prog = "txvc", TxvcGood, pc \in Ended
               PROVE  /\ pc = "exit" =>
                           /\ ~mem.handle
                           /\ mem.mode = "mpsse" => mem.bitModeFailed
                           /\ mem.status = "EXIT_SUCCESS" => mem.pools = 0
                      /\ /\ CompleteSpec(input.spec) /\ ~mem.fatal /\ ~mem.overrun
                         /\ config.tckPeriodNanos <= MaxProduct
                         => pc = "exit"
    BY DEF TxvcInv, DeviceReleased
  <2>1. Resources(pc)
    BY DEF TxvcGood, At
  <2>2. pc = "exit" => /\ ~mem.handle
                       /\ mem.mode = "mpsse" => mem.bitModeFailed
                       /\ mem.status = "EXIT_SUCCESS" => mem.pools = 0
    BY <2>1 DEF Resources, ModeRestored, TxvcGood, Succeeded
  <2>3. ASSUME CompleteSpec(input.spec), ~mem.fatal, ~mem.overrun, config.tckPeriodNanos <= MaxProduct
        PROVE  pc = "exit"
    <3>1. config.tckPeriodNanos \in Int /\ MaxProduct \in Int
      BY SMT DEF TxvcGood, TxvcTypes, MaxProduct
    <3>2. ~Excused
      BY <2>3, <3>1 DEF Excused
    <3> QED BY <2>1, <3>2 DEF Resources, Ended
  <2> QED BY <2>2, <2>3
<1> QED BY <1>1, TxvcInvAlways, PTL
=============================================================================
