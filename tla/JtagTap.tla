------------------------------ MODULE JtagTap ------------------------------
(***************************************************************************)
(* The IEEE 1149.1 TAP controller as libtxvc/jtag_splitter.c knows it: the *)
(* sixteen states and next_state, the transition on one TCK.  The splitter *)
(* tracks the device with it, and the models use the same operator for the *)
(* device's own TAP (that is what the code assumes of the hardware).       *)
(***************************************************************************)
EXTENDS Integers

(* enum jtag_state *)
JtagStates ==
  { "TEST_LOGIC_RESET", "RUN_TEST_IDLE",
    "SELECT_DR_SCAN", "CAPTURE_DR", "SHIFT_DR", "EXIT_1_DR",
    "PAUSE_DR", "EXIT_2_DR", "UPDATE_DR",
    "SELECT_IR_SCAN", "CAPTURE_IR", "SHIFT_IR", "EXIT_1_IR",
    "PAUSE_IR", "EXIT_2_IR", "UPDATE_IR" }

next_state(curState, tmsHigh) ==
  CASE curState = "TEST_LOGIC_RESET" -> IF tmsHigh THEN "TEST_LOGIC_RESET" ELSE "RUN_TEST_IDLE"
    [] curState = "RUN_TEST_IDLE"    -> IF tmsHigh THEN "SELECT_DR_SCAN"   ELSE "RUN_TEST_IDLE"
    [] curState = "SELECT_DR_SCAN"   -> IF tmsHigh THEN "SELECT_IR_SCAN"   ELSE "CAPTURE_DR"
    [] curState = "CAPTURE_DR"       -> IF tmsHigh THEN "EXIT_1_DR"        ELSE "SHIFT_DR"
    [] curState = "SHIFT_DR"         -> IF tmsHigh THEN "EXIT_1_DR"        ELSE "SHIFT_DR"
    [] curState = "EXIT_1_DR"        -> IF tmsHigh THEN "UPDATE_DR"        ELSE "PAUSE_DR"
    [] curState = "PAUSE_DR"         -> IF tmsHigh THEN "EXIT_2_DR"        ELSE "PAUSE_DR"
    [] curState = "EXIT_2_DR"        -> IF tmsHigh THEN "UPDATE_DR"        ELSE "SHIFT_DR"
    [] curState = "UPDATE_DR"        -> IF tmsHigh THEN "SELECT_DR_SCAN"   ELSE "RUN_TEST_IDLE"
    [] curState = "SELECT_IR_SCAN"   -> IF tmsHigh THEN "TEST_LOGIC_RESET" ELSE "CAPTURE_IR"
    [] curState = "CAPTURE_IR"       -> IF tmsHigh THEN "EXIT_1_IR"        ELSE "SHIFT_IR"
    [] curState = "SHIFT_IR"         -> IF tmsHigh THEN "EXIT_1_IR"        ELSE "SHIFT_IR"
    [] curState = "EXIT_1_IR"        -> IF tmsHigh THEN "UPDATE_IR"        ELSE "PAUSE_IR"
    [] curState = "PAUSE_IR"         -> IF tmsHigh THEN "EXIT_2_IR"        ELSE "PAUSE_IR"
    [] curState = "EXIT_2_IR"        -> IF tmsHigh THEN "UPDATE_IR"        ELSE "SHIFT_IR"
    [] curState = "UPDATE_IR"        -> IF tmsHigh THEN "SELECT_DR_SCAN"   ELSE "RUN_TEST_IDLE"

(* The two states in which TDI is shifted in and TDO out. *)
IsShift(s) == s = "SHIFT_DR" \/ s = "SHIFT_IR"

(***************************************************************************)
(* How many TCKs with TMS=1 take the TAP to TEST_LOGIC_RESET.  It is at    *)
(* most ResetBits, the length of the vector tapReset() shifts.             *)
(***************************************************************************)
ResetBits == 5

OnesLeft(s) ==
  CASE s = "TEST_LOGIC_RESET" -> 0
    [] s = "SELECT_IR_SCAN"   -> 1
    [] s = "SELECT_DR_SCAN"   -> 2
    [] s \in {"RUN_TEST_IDLE", "UPDATE_DR", "UPDATE_IR"} -> 3
    [] s \in {"EXIT_1_DR", "EXIT_1_IR", "EXIT_2_DR", "EXIT_2_IR"} -> 4
    [] OTHER -> 5
=============================================================================
