---------------------------- MODULE JtagSplitter ----------------------------
(***************************************************************************)
(* libtxvc/jtag_splitter.c: cuts a combined TMS/TDI vector into separate   *)
(* TMS shifts and TDI shifts for a driver that cannot do both at once, and *)
(* follows the TAP state to know where to cut.                             *)
(*                                                                         *)
(* One action per step of txvc_jtag_splitter_init, _process, _deinit and   *)
(* of tapReset, which all three call; every call of the user's callback is *)
(* a step of its own that may succeed or fail.  The callback's side of the *)
(* contract (jtag_splitter.h: events may be accumulated until the first    *)
(* flush event, which delivers them) is the queue `driven`, drained by the *)
(* device one TCK at a time.                                               *)
(***************************************************************************)
EXTENDS JtagTap, Sequences

CONSTANT MaxBits       \* longest vector given to txvc_jtag_splitter_process
ASSUME MaxBitsAssumption == MaxBits \in Nat

VARIABLES
  state,               \* splitter->_state
  op,                  \* the API call in progress (the last one when idle)
  pc,                  \* where it is, see Labels
  tms,                 \* its TMS vector; bit number i is tms[i + 1]
  bitIdx,              \* locals of txvc_jtag_splitter_process
  firstPendingBitIdx,
  jtagState,
  driven,              \* TCKs the callback was told to make since the last flush
  clocked,             \* how many of them the device has seen
  tap,                 \* state of the device's TAP
  path,                \* history: jtagState before each bit scanned so far
  ones,                \* history: TMS=1 in a row up to now, at most ResetBits
  lost                 \* history: a reset failed and no ResetBits ones since

callVars  == <<tms, bitIdx, firstPendingBitIdx, jtagState, path>>
wireVars  == <<driven, clocked, tap, ones>>
vars      == <<state, op, pc, callVars, wireVars, lost>>

Ops    == {"init", "process", "deinit"}
Labels == {"off", "idle", "scan", "flush", "reset_tms", "reset_flush"}

BitVectors == UNION { [1..n -> BOOLEAN] : n \in 0..MaxBits }

(* One TCK as the callback is asked to make it: the TMS level and whether  *)
(* TDI/TDO data goes with it (a shift_tdi event) or not (shift_tms).       *)
Pulses == [tms : BOOLEAN, shift : BOOLEAN]

(* Variables have their types, and the three indices of a call never       *)
(* overtake one another: firstPendingBitIdx <= bitIdx <= numBits.          *)
TypeOK ==
  /\ state \in JtagStates
  /\ op \in Ops
  /\ pc \in Labels
  /\ tms \in Seq(BOOLEAN)
  /\ bitIdx \in 0..Len(tms)
  /\ firstPendingBitIdx \in 0..bitIdx
  /\ jtagState \in JtagStates
  /\ driven \in Seq(Pulses)
  /\ clocked \in 0..Len(driven)
  /\ tap \in JtagStates
  /\ path \in Seq(JtagStates)
  /\ ones \in 0..ResetBits
  /\ lost \in BOOLEAN

Init ==
  /\ state = "TEST_LOGIC_RESET"          \* gFtdi is zeroed, and so is the enum
  /\ op = "init" /\ pc = "off"
  /\ tms = <<>> /\ bitIdx = 0 /\ firstPendingBitIdx = 0
  /\ jtagState = "TEST_LOGIC_RESET" /\ path = <<>>
  /\ driven = <<>> /\ clocked = 0 /\ ones = 0
  /\ tap \in JtagStates                  \* nobody reset the device yet
  /\ lost = FALSE

-----------------------------------------------------------------------------
(* The user's callback and the device behind it.                           *)

(* The callback takes over TCKs to make. *)
CbAccepts(pulses) ==
  /\ driven' = driven \o pulses
  /\ UNCHANGED <<clocked, tap, ones>>

(* The callback returns true for flush_all: all TCKs were made. *)
CbFlushes ==
  /\ clocked = Len(driven)
  /\ driven' = <<>> /\ clocked' = 0
  /\ UNCHANGED <<tap, ones>>

(* The callback returns false.  How much of what was accumulated reached   *)
(* the device, or will still reach it before the next event does, is       *)
(* anybody's guess.                                                        *)
CbFails ==
  /\ driven' = <<>> /\ clocked' = 0 /\ ones' = 0
  /\ tap' \in JtagStates

(* The device sees the next TCK. *)
Clock ==
  /\ clocked < Len(driven)
  /\ clocked' = clocked + 1
  /\ LET high == driven[clocked + 1].tms
     IN /\ tap' = next_state(tap, high)
        /\ ones' = IF high THEN IF ones < ResetBits THEN ones + 1 ELSE ones ELSE 0
  /\ lost' = (lost /\ ones' < ResetBits)
  /\ UNCHANGED <<state, op, pc, callVars, driven>>

-----------------------------------------------------------------------------
(* tapReset(): a shift_tms event of five ones, then flush_all.             *)

tmsTapResetVector == [i \in 1..ResetBits |-> [tms |-> TRUE, shift |-> FALSE]]

tapReset_shift_tms ==
  /\ pc = "reset_tms"
  /\ CbAccepts(tmsTapResetVector)
  /\ pc' = "reset_flush"
  /\ UNCHANGED <<state, op, callVars, lost>>

(* What the caller does when tapReset returned true ... *)
tapReset_returns_true ==
  /\ pc = "reset_flush"
  /\ CbFlushes
  /\ state' = "TEST_LOGIC_RESET"
  /\ lost' = FALSE
  /\ pc' = IF op = "deinit" THEN "off" ELSE "idle"
  /\ UNCHANGED <<op, callVars>>

(* ... and when it returned false: init gives up, deinit leaves the        *)
(* splitter as it was, and the bail-out of process takes the TAP for reset *)
(* all the same.                                                           *)
tapReset_returns_false ==
  /\ pc \in {"reset_tms", "reset_flush"}
  /\ CbFails
  /\ state' = IF op = "process" THEN "TEST_LOGIC_RESET" ELSE state
  /\ lost' = TRUE
  /\ pc' = IF op = "init" THEN "off" ELSE "idle"
  /\ UNCHANGED <<op, callVars>>

txvc_jtag_splitter_init ==
  /\ pc = "off"
  /\ op' = "init" /\ pc' = "reset_tms"
  /\ UNCHANGED <<state, callVars, wireVars, lost>>

txvc_jtag_splitter_deinit ==
  /\ pc = "idle"
  /\ op' = "deinit" /\ pc' = "reset_tms"
  /\ UNCHANGED <<state, callVars, wireVars, lost>>

-----------------------------------------------------------------------------
(* txvc_jtag_splitter_process()                                            *)

(* Mutant: the pending range is not restarted for the new vector. *)
process_keeps_pending(v) ==
  /\ pc = "idle"
  /\ op' = "process" /\ pc' = "scan"
  /\ tms' = v /\ bitIdx' = 0
  /\ jtagState' = state /\ path' = <<>>
  /\ UNCHANGED <<state, firstPendingBitIdx, wireVars, lost>>

process(v) ==
  /\ pc = "idle"
  /\ op' = "process" /\ pc' = "scan"
  /\ tms' = v /\ bitIdx' = 0 /\ firstPendingBitIdx' = 0
  /\ jtagState' = state /\ path' = <<>>
  /\ UNCHANGED <<state, wireVars, lost>>

tmsBit        == tms[bitIdx + 1]
nextJtagState == next_state(jtagState, tmsBit)

(* Mutant: entering a shift state does not end the run of TMS bits. *)
enteringShift_ignored == FALSE

enteringShift == ~IsShift(jtagState) /\ IsShift(nextJtagState)
leavingShift  == IsShift(jtagState) /\ ~IsShift(nextJtagState)

(* Mutant: the end is looked for one bit too late. *)
endOfVector_late == bitIdx = Len(tms)

endOfVector   == bitIdx = Len(tms) - 1
event         == endOfVector \/ enteringShift \/ leavingShift

(* Mutant: the kind of an event is taken from the state after its last bit. *)
eventPulses_by_next_state ==
  [ i \in 1..(bitIdx + 1 - firstPendingBitIdx) |->
      [tms |-> tms[firstPendingBitIdx + i], shift |-> IsShift(nextJtagState)] ]

(* The TCKs of the event for bits firstPendingBitIdx .. bitIdx.  A         *)
(* shift_tms event carries the TMS bits; a shift_tdi event carries none,   *)
(* its user keeps TMS low and raises it with the last bit unless the event *)
(* is marked incomplete.                                                   *)
eventPulses ==
  [ i \in 1..(bitIdx + 1 - firstPendingBitIdx) |->
      LET n == firstPendingBitIdx + i
      IN  IF IsShift(jtagState)
            THEN [tms |-> n = bitIdx + 1 /\ leavingShift, shift |-> TRUE]
            ELSE [tms |-> tms[n], shift |-> FALSE] ]

advance ==
  /\ bitIdx' = bitIdx + 1
  /\ jtagState' = nextJtagState
  /\ path' = Append(path, jtagState)

scan_without_event ==
  /\ pc = "scan" /\ bitIdx < Len(tms) /\ ~event
  /\ advance
  /\ UNCHANGED <<state, op, pc, tms, firstPendingBitIdx, wireVars, lost>>

scan_event ==
  /\ pc = "scan" /\ bitIdx < Len(tms) /\ event
  /\ CbAccepts(eventPulses)
  /\ firstPendingBitIdx' = bitIdx + 1
  /\ advance
  /\ UNCHANGED <<state, op, pc, tms, lost>>

end_of_scan ==
  /\ pc = "scan" /\ bitIdx = Len(tms)
  /\ pc' = "flush"
  /\ UNCHANGED <<state, op, callVars, wireVars, lost>>

(* Mutant: the state reached is not saved for the next vector. *)
flush_all_forgets_state ==
  /\ pc = "flush"
  /\ CbFlushes
  /\ pc' = "idle"
  /\ UNCHANGED <<state, op, callVars, lost>>

flush_all ==
  /\ pc = "flush"
  /\ CbFlushes
  /\ state' = jtagState
  /\ pc' = "idle"
  /\ UNCHANGED <<op, callVars, lost>>

(* Mutant: the vector is tried again instead of resetting the TAP. *)
bail_retry ==
  /\ \/ pc = "scan" /\ bitIdx < Len(tms) /\ event
     \/ pc = "flush"
  /\ CbFails
  /\ pc' = "scan" /\ lost' = TRUE
  /\ bitIdx' = 0 /\ firstPendingBitIdx' = 0 /\ jtagState' = state /\ path' = <<>>
  /\ UNCHANGED <<state, op, tms>>

(* goto bail_reset, from any of the three callback calls *)
bail_reset ==
  /\ \/ pc = "scan" /\ bitIdx < Len(tms) /\ event
     \/ pc = "flush"
  /\ CbFails
  /\ pc' = "reset_tms"
  /\ UNCHANGED <<state, op, callVars, lost>>

-----------------------------------------------------------------------------
SplitterStep ==
  \/ tapReset_shift_tms \/ tapReset_returns_true \/ tapReset_returns_false
  \/ scan_without_event \/ scan_event \/ end_of_scan \/ flush_all \/ bail_reset

ApiCall ==
  \/ txvc_jtag_splitter_init \/ txvc_jtag_splitter_deinit
  \/ \E v \in BitVectors : process(v)

Next == Clock \/ SplitterStep \/ ApiCall

(* A call in progress goes on and the device is clocked; nobody has to     *)
(* make another call.                                                      *)
Fairness == WF_vars(SplitterStep) /\ WF_vars(Clock)

Spec == Init /\ [][Next]_vars
FairSpec == Spec /\ Fairness

-----------------------------------------------------------------------------
(* Properties.                                                             *)

InProcess == pc \in {"scan", "flush"}

(* The state the splitter computed for the moment before bit number n. *)
StateAt(n) == IF n < Len(path) THEN path[n + 1] ELSE jtagState

(***************************************************************************)
(* The events, taken together, tell the driver to repeat exactly the       *)
(* client's TMS bits: none is dropped, repeated or reordered where one     *)
(* event ends and the next begins, and the levels a shift_tdi event leaves *)
(* implicit (low, then !incomplete) are the client's.  At the flush the    *)
(* whole vector was handed over.                                           *)
(***************************************************************************)
DrivesClientTms ==
  InProcess =>
    /\ Len(driven) = firstPendingBitIdx
    /\ \A i \in 1..Len(driven) : driven[i].tms = tms[i]
    /\ pc = "flush" => Len(driven) = Len(tms)

(***************************************************************************)
(* The tracked state is the state of the device: between calls for the     *)
(* saved _state, and during a call for the state computed for the bit the  *)
(* device gets next.  A failed tapReset breaks this (the code assumes      *)
(* TEST_LOGIC_RESET anyway), and any five ones in a row from the client    *)
(* restore it, however they are spread over vectors.                       *)
(***************************************************************************)
TracksTap ==
  ~lost =>
    /\ pc = "idle" => tap = state
    /\ InProcess => tap = StateAt(clocked)

(***************************************************************************)
(* As long as the state is tracked, TDI/TDO data is exchanged with exactly *)
(* those TCKs on which the TAP is in SHIFT_DR or SHIFT_IR.                 *)
(***************************************************************************)
DataWhenTapShifts ==
  InProcess /\ ~lost /\ clocked < Len(driven) =>
    (driven[clocked + 1].shift <=> IsShift(tap))

(***************************************************************************)
(* Every API call returns: the scan ends, and a callback that fails leads  *)
(* through at most one tapReset back to the caller.                        *)
(***************************************************************************)
CallsReturn == (pc \notin {"off", "idle"}) ~> (pc \in {"off", "idle"})

-----------------------------------------------------------------------------
(* The inductive invariant behind the three properties, in parts.          *)

(* Nothing is left of a call once it returned or failed over to a reset.   *)
QuietInv ==
  /\ pc \in {"off", "idle", "reset_tms"} => driven = <<>> /\ clocked = 0
  /\ pc = "reset_flush" => driven = tmsTapResetVector /\ clocked <= ones

(* `path` is a run of next_state under the client's bits.                  *)
PathInv ==
  InProcess =>
    /\ Len(path) = bitIdx
    /\ \A i \in 1..bitIdx : StateAt(i) = next_state(path[i], tms[i])

(* Bits not handed over yet are all of one kind, and while shifting TMS    *)
(* has been low on them; none is left at the end.                          *)
PendingInv ==
  InProcess =>
    /\ \A i \in (firstPendingBitIdx + 1)..bitIdx :
         /\ IsShift(path[i]) <=> IsShift(jtagState)
         /\ IsShift(jtagState) => ~tms[i]
    /\ pc = "flush" => bitIdx = Len(tms)
    /\ bitIdx = Len(tms) => firstPendingBitIdx = bitIdx

DrivenInv ==
  InProcess =>
    /\ Len(driven) = firstPendingBitIdx
    /\ \A i \in 1..Len(driven) :
         /\ driven[i].tms = tms[i]
         /\ driven[i].shift = IsShift(path[i])

(* Wherever the TAP is and wherever the splitter takes it to be, a row of  *)
(* ones brings both to TEST_LOGIC_RESET at the latest with the fifth.      *)
SyncInv ==
  /\ OnesLeft(tap) + ones <= ResetBits
  /\ pc = "idle" => OnesLeft(state) + ones <= ResetBits
  /\ InProcess => OnesLeft(StateAt(clocked)) + ones <= ResetBits

(* Conjunction of the above: what every step preserves.                    *)
IndInv ==
  TypeOK /\ QuietInv /\ PathInv /\ PendingInv /\ DrivenInv /\ SyncInv /\ TracksTap

(* The refinement mapping: bits still to be clocked, and the phase.        *)
streamTodo  == IF InProcess THEN SubSeq(tms, clocked + 1, Len(tms)) ELSE <<>>
streamPhase == CASE pc = "off"  -> "off"
                 [] pc = "idle" -> "ready"
                 [] InProcess   -> "busy"
                 [] OTHER       -> "reset"

Stream == INSTANCE JtagStream WITH dev <- tap, todo <- streamTodo, phase <- streamPhase

(***************************************************************************)
(* The splitter over an accumulating callback implements the plain JTAG    *)
(* stream: one TCK per client bit with the client's TMS, an answer only    *)
(* after the last of them.                                                 *)
(***************************************************************************)
ImplementsStream == Stream!StreamSpec
=============================================================================
