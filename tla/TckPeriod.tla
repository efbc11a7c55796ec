------------------------------ MODULE TckPeriod ------------------------------
(***************************************************************************)
(* The arithmetic of set_tck_period() in libdrivers/ftdi_generic.c: from a *)
(* TCK period in nanoseconds to the divider of the chip and back to the    *)
(* period it really makes.                                                 *)
(***************************************************************************)
EXTENDS Integers

maxFreqMHz == 30          \* both supported chips are high-speed capable
MaxDivider == 65535       \* 0xffff

MaxInt     == 2147483647
MinInt     == -MaxInt - 1
MaxProduct == 71582788    \* beyond this, maxFreqMHz * p is more than MaxInt

(* maxFreqMHz * p as the 32 bits of an int hold it.  Signed overflow is    *)
(* undefined in C; the model assumes the product wraps, as compilers for   *)
(* two's complement machines make it without sanitizers (cmake/Txvc.cmake  *)
(* asks for none).  It is made of 16-bit halves, since TLC's integers are  *)
(* no wider than the program's.                                            *)
product(p) ==
  LET low  == (p % 65536) * maxFreqMHz
      high == ((p \div 65536) * maxFreqMHz + low \div 65536) % 65536
  IN  (IF high >= 32768 THEN high - 65536 ELSE high) * 65536 + (low % 65536)

(* Division in C truncates towards zero. *)
quotient(a, b) == a \div b + (IF a < 0 /\ a % b # 0 THEN 1 ELSE 0)

(* Mutant: rounds to the nearest smaller period. *)
rawDivider_truncates(p) == quotient(product(p), 1000) - 1

rawDivider(p) == quotient(product(p), 1000) - (IF product(p) % 1000 = 0 THEN 1 ELSE 0)

(* Mutant: the divider is not limited to the chip's 16 bits. *)
divider_wide(p) == rawDivider(p)

divider(p) == IF rawDivider(p) > MaxDivider THEN MaxDivider ELSE rawDivider(p)

(* The period a divider makes. *)
PeriodOf(d) == ((1 + d) * 1000) \div maxFreqMHz

actualPeriodNs(p) == PeriodOf(divider(p))

LongestPeriod == PeriodOf(MaxDivider)

(***************************************************************************)
(* "Use nearest greater period if there is no exact match": the period is  *)
(* not shorter than asked for, so that the device is never clocked faster  *)
(* than the client allows, and the next smaller divider would be too fast. *)
(***************************************************************************)
IsNearestGreater(p) ==
  /\ actualPeriodNs(p) >= p
  /\ divider(p) > 0 => divider(p) * 1000 < p * maxFreqMHz
=============================================================================
