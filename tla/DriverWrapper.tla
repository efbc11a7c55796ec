---------------------------- MODULE DriverWrapper ----------------------------
(***************************************************************************)
(* txvc/driver_wrapper.c: the driver the server sees.  With a period given *)
(* on the command line its set_tck_period is replaced by a no-op, without  *)
(* one both methods watch for a client that shifts before it set a period. *)
(* The methods replace one another in the global txvcDriverWrapper, which  *)
(* outlives the connections.  Behind it is set_tck_period() of the FTDI    *)
(* driver, whose command may fail.                                         *)
(***************************************************************************)
EXTENDS TckPeriod

CONSTANTS
  FixedPeriods,   \* values of the -t option; 0 if it is not given
  Periods,        \* periods that clients suggest
  MaxCalls        \* bound: calls of the server
ASSUME WrapperAssumption ==
  /\ \A p \in FixedPeriods \cup Periods : p \in Nat /\ p <= MaxInt
  /\ MaxCalls \in Nat

DEFAULT_TCK_PERIOD == 100

VARIABLES
  pc,            \* "setup", "serving" or "trapped"
  fixed,         \* fixedTckPeriod
  set_tck_period, shift_bits,  \* which functions the wrapper's methods are
  period,        \* what the chip uses; 0 before the first command
  returned,      \* what set_tck_period last returned; -1 is a failure
  suggested,     \* what the client last suggested; 0 if nothing yet
  shifted,       \* history: bits were shifted
  failures,      \* history: set_tck_period of the driver failed
  calls          \* number of calls so far

vars == <<pc, fixed, set_tck_period, shift_bits, period, returned, suggested, shifted, failures, calls>>

Init ==
  /\ pc = "setup" /\ fixed \in FixedPeriods
  /\ set_tck_period = "driver" /\ shift_bits = "driver"
  /\ period = 0 /\ returned = 0 /\ suggested = 0
  /\ shifted = FALSE /\ failures = 0 /\ calls = 0

-----------------------------------------------------------------------------
(* set_tck_period() of the driver as a set of outcomes: the divider is     *)
(* trapped when negative, the command may fail before or after it reached  *)
(* the chip.                                                               *)
driver_set_tck_period(p) ==
  IF rawDivider(p) < 0
    THEN { [trap |-> TRUE, ret |-> -1, period |-> period] }
    ELSE { [trap |-> FALSE, ret |-> actualPeriodNs(p), period |-> actualPeriodNs(p)],
           [trap |-> FALSE, ret |-> -1, period |-> actualPeriodNs(p)],
           [trap |-> FALSE, ret |-> -1, period |-> period] }

(* The rest of the step after such a call. *)
Outcome(o) ==
  /\ pc' = IF o.trap THEN "trapped" ELSE "serving"
  /\ period' = o.period
  /\ failures' = IF o.ret < 0 THEN failures + 1 ELSE failures

(* Mutant: shift_bits is not wrapped. *)
setup_watch_period_only ==
  /\ pc = "setup" /\ fixed = 0
  /\ set_tck_period' = "onetime" /\ shift_bits' = "driver"
  /\ pc' = "serving"
  /\ UNCHANGED <<fixed, period, returned, suggested, shifted, failures, calls>>

(* txvc_driver_wrapper_setup(), without and with a fixed period.           *)
setup_watch ==
  /\ pc = "setup" /\ fixed = 0
  /\ set_tck_period' = "onetime" /\ shift_bits' = "onetime"
  /\ pc' = "serving"
  /\ UNCHANGED <<fixed, period, returned, suggested, shifted, failures, calls>>

(* Mutant: any period the driver comes back with is taken for the fixed one. *)
setup_fixed_unchecked ==
  /\ pc = "setup" /\ fixed > 0
  /\ \E o \in driver_set_tck_period(fixed) :
       /\ Outcome(o)
       /\ set_tck_period' = IF o.ret > 0 THEN "noop" ELSE set_tck_period
  /\ UNCHANGED <<fixed, shift_bits, returned, suggested, shifted, calls>>

setup_fixed ==
  /\ pc = "setup" /\ fixed > 0
  /\ \E o \in driver_set_tck_period(fixed) :
       /\ Outcome(o)
       /\ set_tck_period' = IF o.ret = fixed THEN "noop" ELSE set_tck_period
  /\ UNCHANGED <<fixed, shift_bits, returned, suggested, shifted, calls>>

-----------------------------------------------------------------------------
(* Calls of the server.                                                    *)

Call == pc = "serving" /\ calls < MaxCalls /\ calls' = calls + 1

noop_set_tck_period(p) ==
  /\ Call /\ set_tck_period = "noop"
  /\ returned' = p /\ suggested' = p
  /\ UNCHANGED <<pc, fixed, set_tck_period, shift_bits, period, shifted, failures>>

(* onetime_set_tck_period() steps aside, then calls the driver, as the     *)
(* server does directly from then on.                                      *)
driver_or_onetime_set_tck_period(p) ==
  /\ Call /\ set_tck_period \in {"driver", "onetime"}
  /\ set_tck_period' = "driver"
  /\ \E o \in driver_set_tck_period(p) : Outcome(o) /\ returned' = o.ret
  /\ suggested' = p
  /\ UNCHANGED <<fixed, shift_bits, shifted>>

(* Mutant: the watch is over, but no default is set. *)
onetime_shift_bits_no_default ==
  /\ Call /\ shift_bits = "onetime"
  /\ shift_bits' = "driver" /\ shifted' = TRUE
  /\ set_tck_period' = "driver"
  /\ UNCHANGED <<pc, period, failures, fixed, returned, suggested>>

(* onetime_shift_bits() sets the default period if nobody set one, whether *)
(* or not that works, and steps aside.                                     *)
onetime_shift_bits ==
  /\ Call /\ shift_bits = "onetime"
  /\ shift_bits' = "driver" /\ shifted' = TRUE
  /\ \/ /\ set_tck_period = "onetime"
        /\ set_tck_period' = "driver"
        /\ \E o \in driver_set_tck_period(DEFAULT_TCK_PERIOD) : Outcome(o)
     \/ /\ set_tck_period # "onetime"
        /\ UNCHANGED <<pc, set_tck_period, period, failures>>
  /\ UNCHANGED <<fixed, returned, suggested>>

driver_shift_bits ==
  /\ Call /\ shift_bits = "driver"
  /\ shifted' = TRUE
  /\ UNCHANGED <<pc, fixed, set_tck_period, shift_bits, period, returned, suggested, failures>>

Next ==
  \/ setup_watch \/ setup_fixed
  \/ \E p \in Periods : noop_set_tck_period(p) \/ driver_or_onetime_set_tck_period(p)
  \/ onetime_shift_bits \/ driver_shift_bits

Spec == Init /\ [][Next]_vars

-----------------------------------------------------------------------------
(* Properties.                                                             *)

(* Variables have their types; the period of the chip is no longer than    *)
(* its largest divider makes it.                                           *)
TypeOK ==
  /\ pc \in {"setup", "serving", "trapped"}
  /\ fixed \in FixedPeriods
  /\ set_tck_period \in {"driver", "noop", "onetime"}
  /\ shift_bits \in {"driver", "onetime"}
  /\ period \in Nat /\ period <= LongestPeriod
  /\ returned \in Int /\ suggested \in Nat
  /\ shifted \in BOOLEAN /\ failures \in Nat /\ calls \in 0..MaxCalls

(***************************************************************************)
(* As long as the device obeys, it is never shifted at a period nobody     *)
(* chose: on the first shift the client, the command line or the default   *)
(* has set one, in whatever order a client makes its calls.                *)
(***************************************************************************)
PeriodBeforeShift == shifted /\ failures = 0 => period > 0

(***************************************************************************)
(* The client is told the period that is in use, and it is not shorter     *)
(* than the one it asked for, and no longer than it has to be, or it is    *)
(* the longest of all if no divider makes so long a period.  Only where    *)
(* the product overflows, or a period is enforced, is the client merely    *)
(* told the truth.                                                         *)
(***************************************************************************)
ClientPeriodHonoured ==
  suggested > 0 /\ failures = 0 /\ pc = "serving" /\ set_tck_period # "noop" =>
    /\ returned = period
    /\ suggested <= LongestPeriod => period >= suggested /\ IsNearestGreater(suggested)
    /\ suggested > LongestPeriod /\ suggested <= MaxProduct => period = LongestPeriod

(* The no-op replaces set_tck_period only when the chip runs at exactly    *)
(* the enforced period, which then never changes.                          *)
EnforcedPeriodKept == set_tck_period = "noop" => fixed > 0 /\ period = fixed

(***************************************************************************)
(* "Enforced TCK period" (txvc.c:42), "Set desired period and inhibit      *)
(* future changes" (driver_wrapper.c:50): a client can not change it, even *)
(* if no command ever failed.                                              *)
(***************************************************************************)
EnforcedPeriodInhibits ==
  [][pc = "serving" /\ fixed > 0 /\ failures' = 0 => period' = period]_vars

(* "if (divider < 0) TXVC_UNREACHABLE()" (ftdi_generic.c:734-736): the trap *)
(* behind a negative divider is not reached.                               *)
NoNegativeDivider == pc # "trapped"

-----------------------------------------------------------------------------
(* The inductive invariant behind the properties, in parts.                *)

(* Before the setup nothing happened; a trap counts as a failure. *)
PhaseInv ==
  /\ pc = "setup" => set_tck_period = "driver" /\ suggested = 0 /\ ~shifted
  /\ pc = "trapped" => failures > 0

(* Who has set a period, as the choice of the methods tells. *)
WatchInv ==
  /\ set_tck_period = "onetime" => shift_bits = "onetime" /\ suggested = 0 /\ ~shifted
  /\ pc = "serving" /\ set_tck_period # "onetime" /\ failures = 0 => period > 0

(* The last suggestion is what the chip runs at. *)
SuggestionInv ==
  suggested > 0 /\ failures = 0 /\ set_tck_period # "noop" =>
    returned = period /\ period = actualPeriodNs(suggested)

(* Conjunction of the types and the above: what every step preserves. *)
IndInv == TypeOK /\ PhaseInv /\ WatchInv /\ SuggestionInv /\ EnforcedPeriodKept
=============================================================================
