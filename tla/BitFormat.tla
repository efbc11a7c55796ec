------------------------------ MODULE BitFormat ------------------------------
(***************************************************************************)
(* How vectors get into the log: the loops of libtxvc/bit_vector.c with    *)
(* logSubVector() of jtag_splitter.c, which calls one of them, and         *)
(* log_vector() of server.c.  The formatters fetch an octet at a time and  *)
(* have no way out when the output is full and bits are left.              *)
(***************************************************************************)
EXTENDS Process

CONSTANTS
  Vectors,     \* sequences of bits
  BufSz,       \* sizeof(buf) in logSubVector()
  RowSz        \* columns per line in log_vector()
ASSUME FormatAssumption ==
  Vectors \subseteq Seq({0, 1}) /\ BufSz \in Nat \ {0} /\ RowSz \in Nat \ {0}

idx   == mem.idx
octet == mem.octet
avail == mem.avail
out   == mem.out

Bit(i)       == input.vector[i + 1]
Octet(i)     == [k \in 0..7 |-> IF 8 * (i \div 8) + k < Len(input.vector) THEN Bit(8 * (i \div 8) + k) ELSE 0]
start        == input.start
end          == input.end
lsb          == input.order = "lsb"
numBits      == end - start

(* logSubVector() of any part of a vector, the tests' callers of the lsb   *)
(* variant, txvc_bit_vector_equal() with another vector, log_vector().     *)
FormatInit ==
  \E v \in Vectors : \E from \in 0..Len(v), to \in 0..Len(v), order \in {"msb", "lsb", "equal", "rows"} :
    /\ from <= to
    /\ order = "lsb" => to - from < BufSz
    /\ order = "rows" => from = 0
    /\ \E rhs \in Vectors :
         /\ Len(rhs) = Len(v) /\ (order # "equal" => rhs = v)
         /\ Started("format", [vector |-> v, rhs |-> rhs, start |-> from, end |-> to, order |-> order],
                    "start", [idx |-> 0, octet |-> [k \in 0..7 |-> 0], avail |-> 0, out |-> <<>>, lines |-> <<>>])

(* Mutant: no room is left for the terminator. *)
TooLong_by_one == numBits > BufSz

TooLong == numBits > BufSz - 1

logSubVector_too_long ==
  /\ prog = "format" /\ input.order = "msb" /\ TooLong
  /\ Step("format", "start", "exit", [lines |-> <<"number of bits">>])

(* txvc_bit_vector_format_msb() and _lsb() begin at their end of the range. *)
format_begin ==
  /\ prog = "format" /\ input.order \in {"msb", "lsb"} /\ (input.order = "msb" => ~TooLong)
  /\ Step("format", "start", "fetch", [idx |-> IF lsb THEN start ELSE end - 1, avail |-> BufSz])

InRange(i) == IF lsb THEN i < end ELSE i >= start

fetch_octet ==
  /\ prog = "format" /\ pc = "fetch" /\ InRange(idx)
  /\ Step("format", "fetch", "put", [octet |-> Octet(idx)])

(* Mutant: the inner loop of the msb variant ends where that of the lsb one does. *)
NextOctet_same(i) == ~InRange(i) \/ i % 8 = 0

(* The inner loop is left for the next octet. *)
NextOctet(i) == ~InRange(i) \/ i % 8 = (IF lsb THEN 0 ELSE 7)

(* A bit, unless the output is full: then it is back to the outer loop, as *)
(* it was.                                                                 *)
put_bit ==
  /\ prog = "format" /\ pc = "put"
  /\ \E i \in {IF avail <= 1 THEN idx ELSE IF lsb THEN idx + 1 ELSE idx - 1} :
       Step("format", "put", IF avail <= 1 \/ NextOctet(i) THEN "fetch" ELSE "put",
            IF avail <= 1 THEN Nothing
            ELSE [out |-> Append(out, octet[idx % 8]), avail |-> avail - 1, idx |-> i])

format_end ==
  /\ prog = "format" /\ pc = "fetch" /\ ~InRange(idx)
  /\ Step("format", "fetch", "exit", [lines |-> <<out>>])

(* log_vector(): a line when a row is full or the bits are at their end.   *)
log_vector ==
  /\ prog = "format" /\ pc = "start" /\ input.order = "rows"
  /\ \/ /\ idx < numBits
        /\ \E row \in {Append(out, Bit(idx))} :
           \E done \in {idx + 1 >= numBits \/ idx % RowSz = RowSz - 1} :
             Step("format", "start", "start",
                  [ idx |-> idx + 1, out |-> IF done THEN <<>> ELSE row,
                    lines |-> IF done THEN Append(mem.lines, row) ELSE mem.lines ])
     \/ /\ idx >= numBits
        /\ Step("format", "start", "exit", Nothing)

(* txvc_bit_vector_equal() of the same range of two vectors.               *)
bit_vector_equal ==
  /\ prog = "format" /\ pc = "start" /\ input.order = "equal"
  /\ \/ /\ idx < numBits /\ Bit(start + idx) = input.rhs[start + idx + 1]
        /\ Step("format", "start", "start", [idx |-> idx + 1])
     \/ /\ idx < numBits /\ Bit(start + idx) # input.rhs[start + idx + 1]
        /\ Step("format", "start", "exit", [lines |-> <<FALSE>>])
     \/ /\ idx >= numBits
        /\ Step("format", "start", "exit", [lines |-> <<TRUE>>])

FormatNext ==
  \/ logSubVector_too_long \/ format_begin \/ fetch_octet \/ put_bit \/ format_end
  \/ log_vector \/ bit_vector_equal

-----------------------------------------------------------------------------
(* Properties.                                                             *)

Range_lsb == SubSeq(input.vector, start + 1, end)

(* ... cut into rows, of which the last one may be short. *)
Rows == [i \in 1..((numBits + RowSz - 1) \div RowSz) |->
           SubSeq(input.vector, (i - 1) * RowSz + 1, IF i * RowSz <= end THEN i * RowSz ELSE end)]

(***************************************************************************)
(* What is logged is the range of the vector, every bit once, in the order *)
(* asked for, wherever the range and the octets begin and end: in one line *)
(* that leaves room for its terminator, or in rows.  Two ranges are equal  *)
(* if and only if their bits are.                                          *)
(***************************************************************************)
LoggedBits ==
  prog = "format" =>
    /\ Len(out) < (IF input.order = "rows" THEN RowSz + 1 ELSE BufSz)
    /\ pc = "exit" =>
         CASE input.order = "lsb"   -> mem.lines = <<Range_lsb>>
           [] input.order = "msb"   -> mem.lines = (IF numBits < BufSz THEN <<Reverse(Range_lsb)>>
                                                                       ELSE <<"number of bits">>)
           [] input.order = "rows"  -> mem.lines = Rows
           [] input.order = "equal" -> mem.lines = <<Range_lsb = SubSeq(input.rhs, start + 1, end)>>
=============================================================================
