---------------------------- MODULE MC_FtdiDriver ----------------------------
(* Scenarios for model checking FtdiDriver. *)
EXTENDS FtdiDriver

Tms(from, to) == [kind |-> "tms", from |-> from, to |-> to]
Tdi(from, to) == [kind |-> "tdi", from |-> from, to |-> to]

(* One shift at every offset in an octet, from a single bit to more octets *)
(* than the chip buffer of the small instances holds.                      *)
ShiftLengths == {1, 2, 7, 8, 9, 10, 16, 17, 24, 33, 34, 41}
OneShift ==
  { IF from = 0 THEN <<Tdi(0, len)>> ELSE <<Tms(0, from), Tdi(from, from + len)>> :
      from \in 0..8, len \in ShiftLengths }

(* Short shifts one after another, and long TMS walks. *)
Several ==
  { <<Tdi(0, 2), Tms(2, 5), Tdi(5, 7), Tms(7, 10), Tdi(10, 13), Tms(13, 16), Tdi(16, 18)>>,
    <<Tms(0, 13), Tdi(13, 29), Tms(29, 42)>>,
    <<Tms(0, 12)>>, <<Tdi(0, 12), Tms(12, 13)>> }

RangeRequests == OneShift \cup Several

(***************************************************************************)
(* Loads for the pools.  Their sizes are those of an FT2232H scaled by     *)
(* 1/64: 64 bytes of chip buffer, vectors of up to 512 bits, 2 KiB for the *)
(* command buffer and 1 KiB, 42 extras, for d->pool.  n shifts of `len`    *)
(* bits, `tms` bits on the way to each:                                    *)
(***************************************************************************)
Repeat(start, n, tms, len) ==
  [ i \in 1..(2 * n) |->
      LET base == start + (tms + len) * ((i - 1) \div 2)
      IN  IF i % 2 = 1 THEN Tms(base, base + tms) ELSE Tdi(base + tms, base + tms + len) ]

(* The most pool bytes per buffered byte: a leading bit, one octet, a      *)
(* trailing bit and the last one, over a way that is one TMS command.      *)
DenseRequests ==
  { Repeat(0, 14, 5, 11), <<Tdi(0, 10)>> \o Repeat(10, 13, 5, 11),
    Repeat(0, 14, 5, 10), Repeat(0, 21, 6, 2), Repeat(0, 40, 3, 1) }

(* 110 bits: the shortest way back to a shift state, and two bits there.   *)
ShortShiftRequests == { Repeat(0, 22, 3, 2) }

FewRequests ==
  { <<Tms(0, 4), Tdi(4, 6), Tms(6, 7)>>, <<Tdi(0, 41)>>, <<Tms(0, 5), Tdi(5, 33)>> }

(* A chip so small that a shift needs several flushes. *)
Small(requests, maxFailures) ==
  [chipBufferBytes |-> 4, poolBytes |-> 192, poolExtras |-> 8,
   requests |-> requests, maxFailures |-> maxFailures]

(* An FT2232H scaled by 1/64. *)
Scaled(requests) ==
  [chipBufferBytes |-> 64, poolBytes |-> 2048, poolExtras |-> 42,
   requests |-> requests, maxFailures |-> 0]

(* An FT232H scaled by 1/64: a quarter of the chip's buffer, and the same  *)
(* pools.                                                                  *)
ScaledSingle(requests) == [Scaled(requests) EXCEPT !.chipBufferBytes = 16]

AllScenarios ==
  { Small(RangeRequests, 0), Small(FewRequests, 2), Scaled(DenseRequests), Scaled(ShortShiftRequests),
    ScaledSingle(DenseRequests) }

DenseScenarios   == { Scaled(ShortShiftRequests) }
ResyncScenarios  == { Small(FewRequests, 1) }
StaleScenarios   == { Small(FewRequests, 2) }
=============================================================================
