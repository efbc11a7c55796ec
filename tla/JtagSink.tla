------------------------------ MODULE JtagSink ------------------------------
(***************************************************************************)
(* What txvc_jtag_splitter expects of the callback it was initialised with *)
(* (jtag_splitter.h): bits that were handed over may be shifted at once or *)
(* later, in their order, all of them are shifted when flush_all returns   *)
(* true, and nothing is promised any more once a callback failed.          *)
(***************************************************************************)
EXTENDS Integers

VARIABLES
  handed,   \* vector bits handed over
  made,     \* how many of them were shifted
  failed    \* a callback failed

vars == <<handed, made, failed>>

Init == handed = 0 /\ made = 0 /\ failed = FALSE

(* A shift event, or a part of one: older bits may be shifted on the way.  *)
Shift ==
  /\ ~failed /\ handed' >= handed
  /\ made' \in made..handed
  /\ UNCHANGED failed

FlushAll == ~failed /\ made' = handed /\ UNCHANGED <<handed, failed>>

(* A new vector begins when the last one is done. *)
Begin == ~failed /\ made = handed /\ handed' = 0 /\ made' = 0 /\ UNCHANGED failed

Fail == failed' = TRUE

Spec == Init /\ [][Shift \/ FlushAll \/ Begin \/ Fail]_vars
=============================================================================
