------------------------- MODULE DriverWrapperProofs -------------------------
(***************************************************************************)
(* Proofs about TckPeriod and DriverWrapper, for all periods an int holds  *)
(* and any number of calls.                                                *)
(***************************************************************************)
EXTENDS DriverWrapper, TLAPS

-----------------------------------------------------------------------------
(* The arithmetic of set_tck_period().                                     *)

(* The longest period is that of the divider 0xffff.                       *)
LEMMA LongestPeriodValue == LongestPeriod = 2184533
BY SMT DEF LongestPeriod, PeriodOf, MaxDivider, maxFreqMHz

(* Whatever the period, the wrapped product is an integer, and below the   *)
(* overflow it is the product.                                             *)
LEMMA ProductValue ==
  ASSUME NEW p \in Nat
  PROVE  /\ product(p) \in Int
         /\ p <= MaxProduct => product(p) = 30 * p
<1> DEFINE h == p \div 65536
           l == p % 65536
<1>1. h \in Nat /\ l \in Nat /\ l < 65536 /\ p = 65536 * h + l  BY SMT
<1> HIDE DEF h, l
<1> DEFINE low  == l * 30
           high == (h * 30 + low \div 65536) % 65536
<1>2. low \in Nat /\ high \in Nat  BY SMT, <1>1
<1>3. product(p) = (IF high >= 32768 THEN high - 65536 ELSE high) * 65536 + (low % 65536)
  BY SMT DEF product, h, l, maxFreqMHz
<1>4. product(p) \in Int  BY SMT, <1>2, <1>3
<1>5. ASSUME p <= MaxProduct PROVE product(p) = 30 * p
  <2>1. 65536 * h + l <= 71582788  BY SMT, <1>1, <1>5 DEF MaxProduct
  <2>2. 65536 * (h * 30 + low \div 65536) + (low % 65536) = 30 * p  BY SMT, <1>1, <1>2
  <2>3. h * 30 + low \div 65536 < 32768  BY SMT, <1>1, <1>2, <2>1, <2>2
  <2>4. high = h * 30 + low \div 65536  BY SMT, <1>1, <1>2, <2>3
  <2> QED  BY SMT, <1>2, <1>3, <2>2, <2>3, <2>4
<1> QED  BY <1>4, <1>5

(* A divider is a number, and not negative unless the period is zero or    *)
(* the product overflows.                                                  *)
LEMMA RawDividerRange ==
  ASSUME NEW p \in Nat
  PROVE  /\ rawDivider(p) \in Int
         /\ p > 0 /\ p <= MaxProduct => rawDivider(p) >= 0
<1>1. product(p) \in Int  BY ProductValue
<1>2. rawDivider(p) \in Int  BY SMT, <1>1 DEF rawDivider, quotient
<1>3. ASSUME p > 0, p <= MaxProduct PROVE rawDivider(p) >= 0
  <2>1. product(p) = 30 * p  BY Zenon, <1>3, ProductValue
  <2> QED  BY SMT, <1>3, <2>1 DEF rawDivider, quotient
<1> QED  BY Zenon, <1>2, <1>3

(* The formula of the divider, without quotients.                          *)
LEMMA RawDividerBounds ==
  ASSUME NEW p \in Nat, p > 0, p <= MaxProduct
  PROVE  /\ 30 * p <= (rawDivider(p) + 1) * 1000
         /\ rawDivider(p) * 1000 < 30 * p
<1>1. product(p) = 30 * p  BY Zenon, ProductValue
<1> QED  BY SMT, <1>1 DEF rawDivider, quotient

(* Whatever is asked for, the chip makes a period of its range.            *)
LEMMA ActualPeriodRange ==
  ASSUME NEW p \in Nat, rawDivider(p) >= 0
  PROVE  /\ actualPeriodNs(p) \in Int
         /\ actualPeriodNs(p) > 0
         /\ actualPeriodNs(p) <= LongestPeriod
<1>1. rawDivider(p) \in Int  BY SMT, RawDividerRange
<1>2. divider(p) \in Int /\ divider(p) >= 0 /\ divider(p) <= 65535
  BY SMT, <1>1 DEF divider, MaxDivider
<1> QED  BY SMT, <1>2, LongestPeriodValue DEF actualPeriodNs, PeriodOf, maxFreqMHz

(* set_tck_period() in the range the chip covers: "Use nearest greater     *)
(* period if there is no exact match".                                     *)
THEOREM NearestGreater ==
  ASSUME NEW p \in Nat, p > 0, p <= LongestPeriod
  PROVE  IsNearestGreater(p)
<1>1. p <= 2184533  BY SMT, LongestPeriodValue
<1>0. p <= MaxProduct  BY SMT, <1>1 DEF MaxProduct
<1>2. rawDivider(p) \in Int /\ rawDivider(p) >= 0  BY Zenon, <1>0, RawDividerRange
<1>3. 30 * p <= (rawDivider(p) + 1) * 1000 /\ rawDivider(p) * 1000 < 30 * p
  BY ZenonT(60), <1>0, RawDividerBounds
<1>4. rawDivider(p) <= 65535  BY SMT, <1>1, <1>2, <1>3
<1>5. divider(p) = rawDivider(p)  BY SMT, <1>2, <1>4 DEF divider, MaxDivider
<1>6. actualPeriodNs(p) >= p
  BY SMT, <1>2, <1>3, <1>5 DEF actualPeriodNs, PeriodOf, maxFreqMHz
<1> QED  BY SMT, <1>2, <1>3, <1>5, <1>6 DEF IsNearestGreater, maxFreqMHz

(* Above that range, and below the overflow, the longest period is made.   *)
LEMMA LongestUntilOverflow ==
  ASSUME NEW p \in Nat, p > LongestPeriod, p <= MaxProduct
  PROVE  actualPeriodNs(p) = LongestPeriod
<1>1. p > 2184533  BY SMT, LongestPeriodValue
<1>2. p > 0  BY SMT, <1>1
<1>3. 30 * p <= (rawDivider(p) + 1) * 1000  BY SMT, <1>2, RawDividerBounds
<1>4. rawDivider(p) \in Int  BY Zenon, RawDividerRange
<1>5. rawDivider(p) >= 65535  BY SMT, <1>1, <1>3, <1>4
<1>6. divider(p) = MaxDivider  BY SMT, <1>4, <1>5 DEF divider, MaxDivider
<1> QED  BY Zenon, <1>6 DEF actualPeriodNs, LongestPeriod

-----------------------------------------------------------------------------
(* The invariant of the wrapper.                                           *)

(* What a call of the driver's set_tck_period() may come back with: if it  *)
(* succeeds, the chip runs at the period that is returned.                 *)
LEMMA DriverOutcome ==
  ASSUME TypeOK, NEW p \in Nat, NEW o \in driver_set_tck_period(p)
  PROVE  /\ o.period \in Nat /\ o.period <= LongestPeriod
         /\ o.ret \in Int
         /\ o.trap \in BOOLEAN
         /\ o.trap => o.ret < 0
         /\ o.ret >= 0 => /\ o.ret = actualPeriodNs(p)
                          /\ o.period = actualPeriodNs(p)
                          /\ actualPeriodNs(p) > 0
<1>1. period \in Nat /\ period <= LongestPeriod  BY Zenon DEF TypeOK
<1>2. CASE rawDivider(p) < 0
  <2>1. o = [trap |-> TRUE, ret |-> -1, period |-> period]
    BY Zenon, <1>2 DEF driver_set_tck_period
  <2> QED  BY SMT, <1>1, <2>1
<1>3. CASE ~(rawDivider(p) < 0)
  <2>1. rawDivider(p) >= 0  BY SMT, <1>3, RawDividerRange
  <2>2. actualPeriodNs(p) \in Int /\ actualPeriodNs(p) > 0 /\ actualPeriodNs(p) <= LongestPeriod
    BY SMT, <2>1, ActualPeriodRange
  <2>3. o \in { [trap |-> FALSE, ret |-> actualPeriodNs(p), period |-> actualPeriodNs(p)],
                [trap |-> FALSE, ret |-> -1, period |-> actualPeriodNs(p)],
                [trap |-> FALSE, ret |-> -1, period |-> period] }
    BY SMT, <1>3 DEF driver_set_tck_period
  <2>4. CASE o = [trap |-> FALSE, ret |-> actualPeriodNs(p), period |-> actualPeriodNs(p)]
    BY SMT, <2>2, <2>4
  <2>5. CASE o = [trap |-> FALSE, ret |-> -1, period |-> actualPeriodNs(p)]
    BY SMT, <2>2, <2>5
  <2>6. CASE o = [trap |-> FALSE, ret |-> -1, period |-> period]
    BY SMT, <1>1, <2>6
  <2> QED  BY Zenon, <2>3, <2>4, <2>5, <2>6
<1> QED  BY <1>2, <1>3

(* Such a call as a part of a step.                                        *)
LEMMA OutcomeStep ==
  ASSUME TypeOK, NEW p \in Nat, NEW o \in driver_set_tck_period(p), Outcome(o)
  PROVE  /\ pc' \in {"serving", "trapped"}
         /\ period' \in Nat /\ period' <= LongestPeriod
         /\ failures' \in Nat
         /\ pc' = "trapped" => failures' > 0
         /\ failures' = 0 => /\ failures = 0 /\ o.ret = actualPeriodNs(p)
                             /\ period' = actualPeriodNs(p) /\ period' > 0
<1>1. failures \in Nat  BY DEF TypeOK
<1>2. failures' \in Nat /\ (o.ret < 0 => failures' > 0) /\ (failures' = 0 => failures = 0 /\ o.ret >= 0)
  BY SMT, <1>1, DriverOutcome DEF Outcome
<1>3. pc' \in {"serving", "trapped"} /\ (pc' = "trapped" => o.trap)
  BY Zenon, DriverOutcome DEF Outcome
<1>4. o.trap => o.ret < 0  BY Zenon, DriverOutcome
<1>5. period' = o.period  BY DEF Outcome
<1>6. period' \in Nat /\ period' <= LongestPeriod  BY Zenon, <1>5, DriverOutcome
<1>7. ASSUME failures' = 0
      PROVE  o.ret = actualPeriodNs(p) /\ period' = actualPeriodNs(p) /\ period' > 0
  BY SMT, <1>2, <1>5, <1>7, DriverOutcome
<1>8. pc' = "trapped" => failures' > 0  BY Zenon, <1>2, <1>3, <1>4
<1> QED  BY Zenon, <1>2, <1>3, <1>6, <1>7, <1>8

(* Nothing happened yet. *)
LEMMA InitInd == Init => IndInv
<1> SUFFICES ASSUME Init PROVE IndInv
  OBVIOUS
<1>1. 0 \in Nat /\ 0 <= LongestPeriod /\ 0 \in Int /\ 0 \in 0..MaxCalls /\ ~(0 > 0)
  BY SMT, LongestPeriodValue, WrapperAssumption
<1>2. TypeOK  BY Zenon, <1>1 DEF Init, TypeOK
<1> QED
  BY Zenon, <1>1, <1>2 DEF Init, IndInv, PhaseInv, WatchInv, SuggestionInv, EnforcedPeriodKept

(* A period from the command line or from a client is a natural number.    *)
LEMMA PeriodsAreNat ==
  /\ \A p \in Periods : p \in Nat
  /\ \A p \in FixedPeriods : p \in Nat
BY Zenon, WrapperAssumption

(* txvc_driver_wrapper_setup().                                            *)
LEMMA SetupInd ==
  ASSUME IndInv, setup_watch \/ setup_fixed
  PROVE  IndInv'
<1>1. CASE setup_watch
  <2>1. TypeOK'  BY Zenon, <1>1 DEF setup_watch, IndInv, TypeOK
  <2> QED
    BY Zenon, <1>1, <2>1 DEF setup_watch, IndInv, PhaseInv, WatchInv, SuggestionInv, EnforcedPeriodKept
<1>2. CASE setup_fixed
  <2>1. PICK o \in driver_set_tck_period(fixed) :
          Outcome(o) /\ set_tck_period' = IF o.ret = fixed THEN "noop" ELSE set_tck_period
    BY Zenon, <1>2 DEF setup_fixed
  <2>2. fixed \in Nat /\ TypeOK  BY Zenon, PeriodsAreNat DEF IndInv, TypeOK
  <2>3. pc' \in {"serving", "trapped"} /\ period' \in Nat /\ period' <= LongestPeriod /\ failures' \in Nat
        /\ (pc' = "trapped" => failures' > 0) /\ (failures' = 0 => period' > 0)
    BY Zenon, <2>1, <2>2, OutcomeStep
  <2>4. set_tck_period = "driver" /\ suggested = 0 /\ ~shifted /\ fixed > 0
    BY Zenon, <1>2 DEF setup_fixed, IndInv, PhaseInv
  <2>5. set_tck_period' \in {"driver", "noop"}  BY Zenon, <2>1, <2>4
  <2>6. TypeOK'  BY Zenon, <1>2, <2>2, <2>3, <2>5 DEF setup_fixed, TypeOK
  <2>7. ASSUME set_tck_period' = "noop" PROVE period' = fixed
    <3>1. o.ret = fixed  BY Zenon, <2>1, <2>4, <2>7
    <3>2. o.ret >= 0  BY SMT, <2>2, <3>1
    <3> QED  BY Zenon, <2>1, <2>2, <3>1, <3>2, DriverOutcome DEF Outcome
  <2>8. EnforcedPeriodKept'  BY Zenon, <1>2, <2>4, <2>7 DEF setup_fixed, EnforcedPeriodKept
  <2>9. suggested' = 0 /\ ~(suggested' > 0)  BY SMT, <1>2, <2>4 DEF setup_fixed
  <2>10. PhaseInv' /\ WatchInv' /\ SuggestionInv'
    BY Zenon, <2>3, <2>5, <2>9 DEF PhaseInv, WatchInv, SuggestionInv
  <2> QED  BY Zenon, <2>6, <2>8, <2>10 DEF IndInv
<1> QED  BY <1>1, <1>2

(* settck: of a client.                                                    *)
LEMMA SetInd ==
  ASSUME IndInv, NEW p \in Periods, noop_set_tck_period(p) \/ driver_or_onetime_set_tck_period(p)
  PROVE  IndInv'
<1>1. p \in Nat /\ TypeOK  BY Zenon, PeriodsAreNat DEF IndInv
<1>2. Call => calls' \in 0..MaxCalls
  BY SMT, <1>1, WrapperAssumption DEF Call, TypeOK
<1>3. CASE noop_set_tck_period(p)
  <2>1. returned' \in Int  BY SMT, <1>1, <1>3 DEF noop_set_tck_period
  <2>2. TypeOK'  BY Zenon, <1>1, <1>2, <1>3, <2>1 DEF noop_set_tck_period, TypeOK
  <2>3. set_tck_period' = "noop" /\ pc' = "serving"
    BY Zenon, <1>3 DEF noop_set_tck_period, Call
  <2> QED
    BY Zenon, <1>3, <2>2, <2>3 DEF noop_set_tck_period, Call, IndInv, PhaseInv, WatchInv, SuggestionInv,
      EnforcedPeriodKept
<1>4. CASE driver_or_onetime_set_tck_period(p)
  <2>1. PICK o \in driver_set_tck_period(p) : Outcome(o) /\ returned' = o.ret
    BY Zenon, <1>4 DEF driver_or_onetime_set_tck_period
  <2>2. pc' \in {"serving", "trapped"} /\ period' \in Nat /\ period' <= LongestPeriod /\ failures' \in Nat
        /\ (pc' = "trapped" => failures' > 0)
        /\ (failures' = 0 => o.ret = actualPeriodNs(p) /\ period' = actualPeriodNs(p) /\ period' > 0)
    BY Zenon, <1>1, <2>1, OutcomeStep
  <2>3. returned' \in Int  BY Zenon, <1>1, <2>1, DriverOutcome
  <2>4. set_tck_period' = "driver" /\ suggested' = p
    BY Zenon, <1>4 DEF driver_or_onetime_set_tck_period
  <2>5. TypeOK'
    BY Zenon, <1>1, <1>2, <1>4, <2>2, <2>3, <2>4 DEF driver_or_onetime_set_tck_period, TypeOK
  <2> QED
    BY Zenon, <2>1, <2>2, <2>4, <2>5 DEF IndInv, PhaseInv, WatchInv, SuggestionInv, EnforcedPeriodKept
<1> QED  BY <1>3, <1>4

(* shift: of a client.                                                     *)
LEMMA ShiftInd ==
  ASSUME IndInv, onetime_shift_bits \/ driver_shift_bits
  PROVE  IndInv'
<1>1. TypeOK  BY DEF IndInv
<1>2. Call => calls' \in 0..MaxCalls
  BY SMT, <1>1, WrapperAssumption DEF Call, TypeOK
<1>3. CASE driver_shift_bits
  <2>1. TypeOK'  BY Zenon, <1>1, <1>2, <1>3 DEF driver_shift_bits, TypeOK
  <2>2. pc = "serving" /\ set_tck_period # "onetime"
    BY Zenon, <1>3 DEF driver_shift_bits, Call, IndInv, WatchInv
  <2> QED
    BY Zenon, <1>3, <2>1, <2>2 DEF driver_shift_bits, IndInv, PhaseInv, WatchInv, SuggestionInv,
      EnforcedPeriodKept
<1>4. CASE onetime_shift_bits /\ set_tck_period # "onetime"
  <2>1. UNCHANGED <<pc, set_tck_period, period, failures>>
    BY Zenon, <1>4 DEF onetime_shift_bits
  <2>2. TypeOK'  BY Zenon, <1>1, <1>2, <1>4, <2>1 DEF onetime_shift_bits, TypeOK
  <2>3. pc = "serving"  BY Zenon, <1>4 DEF onetime_shift_bits, Call
  <2> QED
    BY Zenon, <1>4, <2>1, <2>2, <2>3 DEF onetime_shift_bits, IndInv, PhaseInv, WatchInv, SuggestionInv,
      EnforcedPeriodKept
<1>5. CASE onetime_shift_bits /\ set_tck_period = "onetime"
  <2>1. PICK o \in driver_set_tck_period(DEFAULT_TCK_PERIOD) : Outcome(o)
    BY Zenon, <1>5 DEF onetime_shift_bits
  <2>2. DEFAULT_TCK_PERIOD \in Nat  BY SMT DEF DEFAULT_TCK_PERIOD
  <2>3. pc' \in {"serving", "trapped"} /\ period' \in Nat /\ period' <= LongestPeriod /\ failures' \in Nat
        /\ (pc' = "trapped" => failures' > 0) /\ (failures' = 0 => period' > 0)
    BY Zenon, <1>1, <2>1, <2>2, OutcomeStep
  <2>4. set_tck_period' = "driver"  BY Zenon, <1>5 DEF onetime_shift_bits
  <2>5. TypeOK'  BY Zenon, <1>1, <1>2, <1>5, <2>3, <2>4 DEF onetime_shift_bits, TypeOK
  <2>6. suggested' = 0  BY Zenon, <1>5 DEF onetime_shift_bits, IndInv, WatchInv
  <2>7. ~(suggested' > 0)  BY SMT, <2>6
  <2> QED
    BY Zenon, <2>3, <2>4, <2>5, <2>7 DEF IndInv, PhaseInv, WatchInv, SuggestionInv,
      EnforcedPeriodKept
<1> QED  BY <1>3, <1>4, <1>5

(* Every step preserves the inductive invariant. *)
LEMMA NextInd == IndInv /\ [Next]_vars => IndInv'
<1> SUFFICES ASSUME IndInv, [Next]_vars PROVE IndInv'
  OBVIOUS
<1>1. CASE UNCHANGED vars
  BY Zenon, <1>1 DEF vars, IndInv, TypeOK, PhaseInv, WatchInv, SuggestionInv, EnforcedPeriodKept
<1>2. CASE Next
  BY Zenon, <1>2, SetupInd, SetInd, ShiftInd DEF Next
<1> QED  BY <1>1, <1>2

(* The types, and what is known of the periods at each choice of methods   *)
(* (driver_wrapper.c), for any number of calls.                            *)
THEOREM Invariance == Spec => []IndInv
BY InitInd, NextInd, PTL DEF Spec

(* The methods are among the known ones, and the period is one the chip    *)
(* can make (ftdi_generic.c:737-740), whatever the driver was asked for.   *)
THEOREM TypeCorrect == Spec => []TypeOK
<1>1. IndInv => TypeOK  BY DEF IndInv
<1> QED  BY <1>1, Invariance, PTL

(* onetime_shift_bits(): unless a command failed, no bit is shifted before *)
(* somebody set a period.                                                  *)
THEOREM ShiftsAtAPeriod == Spec => []PeriodBeforeShift
<1>1. IndInv => PeriodBeforeShift
  <2> SUFFICES ASSUME IndInv, shifted, failures = 0 PROVE period > 0
    BY Zenon DEF PeriodBeforeShift
  <2>1. ~(failures > 0)  BY SMT
  <2>2. pc = "serving"  BY Zenon, <2>1 DEF IndInv, TypeOK, PhaseInv
  <2> QED  BY Zenon, <2>2 DEF IndInv, WatchInv
<1> QED  BY <1>1, Invariance, PTL

(* set_tck_period() through the wrapper: the client is told the period in  *)
(* use, the nearest that is not shorter than its suggestion, or the        *)
(* longest there is.                                                       *)
THEOREM ClientGetsItsPeriod == Spec => []ClientPeriodHonoured
<1>1. IndInv => ClientPeriodHonoured
  <2> SUFFICES ASSUME IndInv, suggested > 0, failures = 0, set_tck_period # "noop"
               PROVE  /\ returned = period
                      /\ suggested <= LongestPeriod => period >= suggested /\ IsNearestGreater(suggested)
                      /\ suggested > LongestPeriod /\ suggested <= MaxProduct => period = LongestPeriod
    BY Zenon DEF ClientPeriodHonoured
  <2>1. returned = period /\ period = actualPeriodNs(suggested)  BY Zenon DEF IndInv, SuggestionInv
  <2>2. suggested \in Nat  BY Zenon DEF IndInv, TypeOK
  <2>3. ASSUME suggested <= LongestPeriod
        PROVE  period >= suggested /\ IsNearestGreater(suggested)
    BY ZenonT(60), <2>1, <2>2, <2>3, NearestGreater DEF IsNearestGreater
  <2>4. ASSUME suggested > LongestPeriod, suggested <= MaxProduct PROVE period = LongestPeriod
    BY Zenon, <2>1, <2>2, <2>4, LongestUntilOverflow
  <2> QED  BY Zenon, <2>1, <2>3, <2>4
<1> QED  BY <1>1, Invariance, PTL

(* noop_set_tck_period() is in place only over the enforced period.        *)
THEOREM EnforcedPeriodStays == Spec => []EnforcedPeriodKept
<1>1. IndInv => EnforcedPeriodKept  BY DEF IndInv
<1> QED  BY <1>1, Invariance, PTL
=============================================================================
