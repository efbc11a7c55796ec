------------------------- MODULE JtagSplitterProofs -------------------------
(***************************************************************************)
(* Proofs about JtagSplitter for vectors of any length: the splitter keeps *)
(* IndInv, hence types are right, events repeat the client's TMS bits, the *)
(* TAP is tracked and data goes with the TAP's shift states.               *)
(***************************************************************************)
EXTENDS JtagSplitter, SequenceTheorems, TLAPS

-----------------------------------------------------------------------------
(* Facts about the TAP.                                                    *)

(* next_state stays within enum jtag_state: TXVC_UNREACHABLE at the end of *)
(* the function is not reached.                                            *)
LEMMA NextStateType ==
  ASSUME NEW s \in JtagStates, NEW b \in BOOLEAN
  PROVE  next_state(s, b) \in JtagStates
BY DEF JtagStates, next_state

(* The two assertions of txvc_jtag_splitter_process: a shift state is      *)
(* entered with TMS low ...                                                *)
LEMMA EnteringShiftLow ==
  ASSUME NEW s \in JtagStates, NEW b \in BOOLEAN, ~IsShift(s), IsShift(next_state(s, b))
  PROVE  ~b
BY DEF JtagStates, next_state, IsShift

(* ... and TMS high is what leaves it.                                     *)
LEMMA LeavingShiftHigh ==
  ASSUME NEW s \in JtagStates, NEW b \in BOOLEAN, IsShift(s)
  PROVE  IsShift(next_state(s, b)) <=> ~b
BY DEF JtagStates, next_state, IsShift

(* OnesLeft is a distance of at most ResetBits, zero only when reset, that *)
(* every TCK with TMS high shortens: this is why five ones in tapReset are *)
(* enough from any state.                                                  *)
LEMMA OnesLeftBound ==
  ASSUME NEW s \in JtagStates
  PROVE  OnesLeft(s) \in 0..ResetBits /\ (OnesLeft(s) = 0 => s = "TEST_LOGIC_RESET")
BY DEF JtagStates, OnesLeft, ResetBits

(* A TCK with TMS high brings any state nearer to TEST_LOGIC_RESET.        *)
LEMMA OnesLeftStep ==
  ASSUME NEW s \in JtagStates, NEW b \in BOOLEAN, b
  PROVE  s # "TEST_LOGIC_RESET" => OnesLeft(next_state(s, b)) = OnesLeft(s) - 1
<1> DEFINE t == next_state(s, b)
<1> SUFFICES s # "TEST_LOGIC_RESET" => OnesLeft(t) = OnesLeft(s) - 1
  OBVIOUS
<1> HIDE DEF t
<1>1. CASE s = "TEST_LOGIC_RESET"
  BY <1>1
<1>2. CASE s = "SELECT_IR_SCAN"
  <2>1. t = "TEST_LOGIC_RESET"  BY <1>2 DEF t, next_state
  <2>2. OnesLeft(t) = 0 /\ OnesLeft(s) = 1  BY <1>2, <2>1 DEF OnesLeft
  <2> QED  BY <2>2
<1>3. CASE s = "SELECT_DR_SCAN"
  <2>1. t = "SELECT_IR_SCAN"  BY <1>3 DEF t, next_state
  <2>2. OnesLeft(t) = 1 /\ OnesLeft(s) = 2  BY <1>3, <2>1 DEF OnesLeft
  <2> QED  BY <2>2
<1>4. CASE s \in {"RUN_TEST_IDLE", "UPDATE_DR", "UPDATE_IR"}
  <2>1. t = "SELECT_DR_SCAN"  BY <1>4 DEF t, next_state
  <2>2. OnesLeft(t) = 2 /\ OnesLeft(s) = 3  BY <1>4, <2>1 DEF OnesLeft
  <2> QED  BY <2>2
<1>5. CASE s \in {"EXIT_1_DR", "EXIT_1_IR", "EXIT_2_DR", "EXIT_2_IR"}
  <2>1. t \in {"UPDATE_DR", "UPDATE_IR"}  BY <1>5 DEF t, next_state
  <2>2. OnesLeft(t) = 3 /\ OnesLeft(s) = 4  BY <1>5, <2>1 DEF OnesLeft
  <2> QED  BY <2>2
<1>6. CASE s \in {"CAPTURE_DR", "SHIFT_DR", "PAUSE_DR", "CAPTURE_IR", "SHIFT_IR", "PAUSE_IR"}
  <2>1. t \in {"EXIT_1_DR", "EXIT_1_IR", "EXIT_2_DR", "EXIT_2_IR"}  BY <1>6 DEF t, next_state
  <2>2. OnesLeft(t) = 4 /\ OnesLeft(s) = 5  BY <1>6, <2>1 DEF OnesLeft
  <2> QED  BY <2>2
<1> QED  BY <1>1, <1>2, <1>3, <1>4, <1>5, <1>6 DEF JtagStates

(* With a counter of ones that saturates at ResetBits the distance and the *)
(* counter never add up to more than ResetBits, on any TCK.                *)
LEMMA OnesLeftCount ==
  ASSUME NEW s \in JtagStates, NEW b \in BOOLEAN, NEW n \in 0..ResetBits, NEW m,
         m = IF b THEN IF n < ResetBits THEN n + 1 ELSE n ELSE 0,
         OnesLeft(s) + n <= ResetBits
  PROVE  OnesLeft(next_state(s, b)) + m <= ResetBits
<1>1. next_state(s, b) \in JtagStates  BY NextStateType
<1>2. /\ OnesLeft(s) \in 0..ResetBits /\ (OnesLeft(s) = 0 => s = "TEST_LOGIC_RESET")
      /\ OnesLeft(next_state(s, b)) \in 0..ResetBits
  BY <1>1, OnesLeftBound
<1>3. CASE ~b
  BY <1>2, <1>3 DEF ResetBits
<1>4. CASE b /\ s = "TEST_LOGIC_RESET"
  <2>1. next_state(s, b) = "TEST_LOGIC_RESET"  BY <1>4 DEF next_state
  <2>2. OnesLeft(next_state(s, b)) = 0  BY <2>1 DEF OnesLeft
  <2>3. m \in 0..ResetBits  BY DEF ResetBits
  <2> QED  BY <2>2, <2>3 DEF ResetBits
<1>5. CASE b /\ s # "TEST_LOGIC_RESET"
  <2>1. OnesLeft(next_state(s, b)) = OnesLeft(s) - 1  BY <1>5, OnesLeftStep
  <2>2. m \in 0..(n + 1)  BY DEF ResetBits
  <2> QED  BY <1>2, <2>1, <2>2 DEF ResetBits
<1> QED  BY <1>3, <1>4, <1>5

-----------------------------------------------------------------------------
(* IndInv is inductive: one lemma per group of actions.                    *)

USE DEF callVars, wireVars, vars

(* Nothing is in progress in the initial state. *)
LEMMA InitIndInv == Init => IndInv
<1> SUFFICES ASSUME Init PROVE IndInv
  OBVIOUS
<1>1. TypeOK
  <2>1. state \in JtagStates /\ jtagState \in JtagStates /\ op \in Ops /\ pc \in Labels
    BY DEF Init, JtagStates, Ops, Labels
  <2>2. tms \in Seq(BOOLEAN) /\ driven \in Seq(Pulses) /\ path \in Seq(JtagStates)
    BY DEF Init
  <2>3. Len(tms) = 0 /\ Len(driven) = 0
    BY DEF Init
  <2>4. bitIdx = 0 /\ firstPendingBitIdx = 0 /\ clocked = 0 /\ ones = 0
    BY DEF Init
  <2>5. tap \in JtagStates /\ lost \in BOOLEAN
    BY DEF Init
  <2> QED
    BY <2>1, <2>2, <2>3, <2>4, <2>5 DEF TypeOK, ResetBits
<1>2. OnesLeft(tap) \in 0..ResetBits
  BY <1>1, OnesLeftBound DEF TypeOK
<1>3. pc = "off" /\ ~InProcess
  BY DEF Init, InProcess
<1>4. SyncInv
  <2>1. ones = 0 /\ pc = "off"  BY DEF Init
  <2> QED  BY <1>2, <1>3, <2>1 DEF SyncInv, ResetBits
<1> QED
  BY <1>1, <1>3, <1>4 DEF Init, IndInv, QuietInv, PathInv, PendingInv, DrivenInv, TracksTap

(* The five pulses of tapReset(). *)
LEMMA ResetVector ==
  /\ tmsTapResetVector \in Seq(Pulses)
  /\ Len(tmsTapResetVector) = ResetBits
  /\ \A i \in 1..ResetBits : tmsTapResetVector[i].tms = TRUE
BY DEF tmsTapResetVector, Pulses, ResetBits

(* The states of the path are states of the TAP. *)
LEMMA StateAtType ==
  ASSUME TypeOK, NEW n \in Nat
  PROVE  StateAt(n) \in JtagStates
BY DEF TypeOK, StateAt

(* A callback that fails leaves no pulses and nothing known of the TAP. *)
LEMMA AfterFailure ==
  ASSUME CbFails, TypeOK
  PROVE  /\ driven' = <<>> /\ clocked' = 0 /\ ones' = 0
         /\ driven' \in Seq(Pulses) /\ clocked' \in 0..Len(driven')
         /\ ones' \in 0..ResetBits
         /\ tap' \in JtagStates
         /\ OnesLeft(tap') + ones' <= ResetBits
<1>1. tap' \in JtagStates /\ ones' = 0  BY DEF CbFails
<1>2. OnesLeft(tap') \in 0..ResetBits  BY <1>1, OnesLeftBound
<1> QED  BY <1>1, <1>2 DEF CbFails, ResetBits

(* tapReset() keeps the invariant, whether its callbacks succeed or fail:  *)
(* five ones fit the distance, and a failure raises `lost`.                *)
LEMMA ResetActionsInd ==
  ASSUME IndInv,
         tapReset_shift_tms \/ tapReset_returns_true \/ tapReset_returns_false
  PROVE  IndInv'
<1> USE DEF IndInv
<1>1. CASE tapReset_shift_tms
  <2>1. driven' = tmsTapResetVector /\ clocked' = 0
    BY <1>1, ResetVector DEF tapReset_shift_tms, CbAccepts, QuietInv, TypeOK
  <2>2. TypeOK'
    BY <1>1, <2>1, ResetVector DEF tapReset_shift_tms, CbAccepts, TypeOK, Labels, ResetBits
  <2> QED
    BY <1>1, <2>1, <2>2 DEF tapReset_shift_tms, CbAccepts, TypeOK, QuietInv, PathInv,
      PendingInv, DrivenInv, SyncInv, TracksTap, InProcess
<1>2. CASE tapReset_returns_true
  <2>1. ones = ResetBits /\ clocked = ResetBits
    BY <1>2, ResetVector DEF tapReset_returns_true, CbFlushes, QuietInv, TypeOK
  <2>2. tap = "TEST_LOGIC_RESET"
    BY SMTT(30), <2>1, OnesLeftBound DEF SyncInv, TypeOK, ResetBits
  <2>3. OnesLeft("TEST_LOGIC_RESET") = 0
    BY DEF OnesLeft
  <2>4. TypeOK'
    <3>1. driven' \in Seq(Pulses) /\ clocked' \in 0..Len(driven')
      BY <1>2 DEF tapReset_returns_true, CbFlushes
    <3>2. state' \in JtagStates /\ pc' \in Labels /\ lost' \in BOOLEAN
      BY <1>2 DEF tapReset_returns_true, Labels, JtagStates
    <3> QED
      BY <1>2, <3>1, <3>2 DEF tapReset_returns_true, CbFlushes, TypeOK
  <2> QED
    BY <1>2, <2>1, <2>2, <2>3, <2>4 DEF tapReset_returns_true, CbFlushes, QuietInv, PathInv,
      PendingInv, DrivenInv, SyncInv, TracksTap, InProcess, ResetBits
<1>3. CASE tapReset_returns_false
  <2>1. TypeOK /\ CbFails  BY <1>3 DEF tapReset_returns_false
  <2>2. TypeOK'
    BY <1>3, <2>1, AfterFailure DEF tapReset_returns_false, TypeOK, Labels, JtagStates
  <2>3. OnesLeft(state') \in 0..ResetBits
    BY <2>2, OnesLeftBound DEF TypeOK
  <2>4. SyncInv'
    BY <1>3, <2>1, <2>2, <2>3, AfterFailure DEF tapReset_returns_false, SyncInv, InProcess, ResetBits
  <2> QED
    BY <1>3, <2>1, <2>2, <2>4, AfterFailure DEF tapReset_returns_false, QuietInv, PathInv,
      PendingInv, DrivenInv, TracksTap, InProcess
<1> QED  BY <1>1, <1>2, <1>3

(* Entering init, process or deinit keeps it: the saved _state is the      *)
(* state the scan starts with.                                             *)
LEMMA ApiCallInd ==
  ASSUME IndInv, ApiCall
  PROVE  IndInv'
<1> USE DEF IndInv
<1>1. CASE txvc_jtag_splitter_init
  <2>1. TypeOK'  BY <1>1 DEF txvc_jtag_splitter_init, TypeOK, Ops, Labels
  <2> QED  BY <1>1, <2>1 DEF txvc_jtag_splitter_init, QuietInv, PathInv,
             PendingInv, DrivenInv, SyncInv, TracksTap, InProcess
<1>2. CASE txvc_jtag_splitter_deinit
  <2>1. TypeOK'  BY <1>2 DEF txvc_jtag_splitter_deinit, TypeOK, Ops, Labels
  <2> QED  BY <1>2, <2>1 DEF txvc_jtag_splitter_deinit, QuietInv, PathInv,
             PendingInv, DrivenInv, SyncInv, TracksTap, InProcess
<1>3. ASSUME NEW v \in BitVectors, process(v) PROVE IndInv'
  <2>1. v \in Seq(BOOLEAN)
    BY <1>3, MaxBitsAssumption DEF BitVectors
  <2>2. TypeOK'
    BY <1>3, <2>1 DEF process, TypeOK, Ops, Labels
  <2>3. StateAt(clocked)' = state
    BY <1>3 DEF process, StateAt, QuietInv
  <2> QED
    BY <1>3, <2>1, <2>2, <2>3 DEF process, QuietInv, PathInv,
             PendingInv, DrivenInv, SyncInv, TracksTap, InProcess, TypeOK
<1> QED  BY <1>1, <1>2, <1>3 DEF ApiCall

(* The device is clocked while the splitter goes on with its call, or with *)
(* tapReset.                                                               *)
LEMMA ClockInd ==
  ASSUME IndInv, Clock
  PROVE  IndInv'
<1> USE DEF IndInv
<1> DEFINE high == driven[clocked + 1].tms
<1>0. /\ clocked + 1 \in 1..Len(driven)
      /\ high \in BOOLEAN
  <2>1. clocked + 1 \in 1..Len(driven)  BY DEF Clock, TypeOK
  <2>2. driven[clocked + 1] \in Pulses  BY <2>1 DEF TypeOK
  <2> QED  BY <2>1, <2>2 DEF Pulses
<1>1. /\ tap' = next_state(tap, high)
      /\ ones' = IF high THEN IF ones < ResetBits THEN ones + 1 ELSE ones ELSE 0
      /\ clocked' = clocked + 1
      /\ lost' = (lost /\ ones' < ResetBits)
      /\ UNCHANGED <<state, op, pc, tms, bitIdx, firstPendingBitIdx, jtagState, path, driven>>
  BY DEF Clock
<1> HIDE DEF high
<1>2. ones' \in 0..ResetBits
  BY <1>1 DEF TypeOK, ResetBits
<1>3. TypeOK'
  BY <1>0, <1>1, <1>2, NextStateType DEF TypeOK
<1>4. OnesLeft(tap') + ones' <= ResetBits
  BY <1>0, <1>1, OnesLeftCount DEF TypeOK, SyncInv
<1>5. pc \notin {"off", "idle", "reset_tms"}
  BY <1>0 DEF QuietInv, TypeOK
<1>6. CASE pc = "reset_flush"
  <2>1. high
    BY <1>0, <1>6, ResetVector DEF QuietInv, high
  <2>2. clocked + 1 <= ones'
    <3>1. ones' = IF ones < ResetBits THEN ones + 1 ELSE ones  BY <1>1, <2>1
    <3>2. clocked <= ones /\ clocked + 1 <= ResetBits
      <4>1. driven = tmsTapResetVector /\ clocked <= ones  BY <1>6 DEF QuietInv
      <4>2. Len(driven) = ResetBits  BY <4>1, ResetVector
      <4> QED  BY <1>0, <4>1, <4>2 DEF TypeOK, ResetBits
    <3> QED  BY <3>1, <3>2 DEF TypeOK, ResetBits
  <2>3. ~InProcess'
    BY <1>1, <1>6 DEF InProcess
  <2> QED
    BY <1>1, <1>3, <1>4, <1>6, <2>2, <2>3 DEF QuietInv, PathInv, PendingInv, DrivenInv,
      SyncInv, TracksTap
<1>7. CASE InProcess
  <2>1. clocked + 1 \in 1..bitIdx /\ high = tms[clocked + 1]
    BY <1>0, <1>7 DEF DrivenInv, high, TypeOK
  <2>2. /\ path[clocked + 1] = StateAt(clocked)
        /\ StateAt(clocked + 1) = next_state(StateAt(clocked), high)
    BY <1>7, <2>1 DEF PathInv, StateAt, TypeOK
  <2>3. StateAt(clocked)' = StateAt(clocked + 1)
    BY <1>1 DEF StateAt
  <2>4. StateAt(clocked) \in JtagStates /\ StateAt(clocked + 1) \in JtagStates
    BY StateAtType DEF TypeOK
  <2>5. OnesLeft(StateAt(clocked)') + ones' <= ResetBits
    BY <1>0, <1>1, <1>7, <2>2, <2>3, <2>4, OnesLeftCount DEF TypeOK, SyncInv
  <2>6. ~lost' => tap' = StateAt(clocked)'
    <3>1. CASE ~lost
      BY <1>1, <1>7, <2>2, <2>3, <3>1 DEF TracksTap
    <3>2. CASE lost /\ ones' = ResetBits
      <4>1. /\ OnesLeft(tap') \in 0..ResetBits /\ OnesLeft(StateAt(clocked)') \in 0..ResetBits
            /\ tap' \in JtagStates /\ StateAt(clocked)' \in JtagStates
        BY <1>3, <2>3, <2>4, OnesLeftBound DEF TypeOK
      <4>2. OnesLeft(tap') = 0 /\ OnesLeft(StateAt(clocked)') = 0
        BY <1>4, <2>5, <3>2, <4>1 DEF ResetBits
      <4> QED  BY <4>1, <4>2, OnesLeftBound
    <3>3. CASE lost /\ ones' # ResetBits
      <4>1. ones' < ResetBits  BY <1>2, <3>3 DEF ResetBits
      <4> QED  BY <1>1, <3>3, <4>1, Zenon
    <3> QED  BY <3>1, <3>2, <3>3 DEF TypeOK
  <2>7. InProcess'
    BY <1>1, <1>7 DEF InProcess
  <2>8. PathInv'
    BY <1>1, <1>7 DEF PathInv, StateAt, InProcess
  <2>9. QuietInv' /\ PendingInv' /\ DrivenInv'
    BY <1>1, <1>7 DEF QuietInv, PendingInv, DrivenInv, InProcess
  <2> QED
    BY <1>1, <1>3, <1>4, <1>7, <2>5, <2>6, <2>7, <2>8, <2>9 DEF SyncInv, TracksTap, InProcess
<1> QED  BY <1>5, <1>6, <1>7 DEF TypeOK, Labels, InProcess

(* Steps of the scan.  A bit that ends no event keeps the kind of the      *)
(* pending range; one that ends an event hands the whole range over with   *)
(* the client's levels.                                                    *)
LEMMA ScanBit ==
  ASSUME IndInv, pc = "scan", bitIdx < Len(tms)
  PROVE  /\ bitIdx \in 0..(Len(tms) - 1)
         /\ tmsBit \in BOOLEAN /\ tmsBit = tms[bitIdx + 1]
         /\ nextJtagState \in JtagStates
         /\ enteringShift => ~tmsBit
         /\ IsShift(jtagState) => (leavingShift <=> tmsBit)
         /\ Len(path) = bitIdx /\ InProcess
<1>1. bitIdx \in 0..(Len(tms) - 1) /\ Len(path) = bitIdx /\ InProcess
  BY DEF IndInv, TypeOK, PathInv, InProcess
<1>2. tmsBit \in BOOLEAN /\ tmsBit = tms[bitIdx + 1]
  BY <1>1 DEF IndInv, TypeOK, tmsBit
<1>3. jtagState \in JtagStates
  BY DEF IndInv, TypeOK
<1>4. nextJtagState \in JtagStates
  BY <1>2, <1>3, NextStateType DEF nextJtagState
<1>5. enteringShift => ~tmsBit
  BY <1>2, <1>3, EnteringShiftLow DEF nextJtagState, enteringShift
<1>6. IsShift(jtagState) => (leavingShift <=> tmsBit)
  BY <1>2, <1>3, LeavingShiftHigh DEF nextJtagState, leavingShift
<1> QED  BY <1>1, <1>2, <1>4, <1>5, <1>6

(* One more bit on the path: old positions keep their states, and the new  *)
(* end is next_state of the old one.                                       *)
LEMMA AdvancePath ==
  ASSUME IndInv, pc = "scan", bitIdx < Len(tms), advance, tms' = tms, pc' = pc
  PROVE  /\ path' \in Seq(JtagStates) /\ Len(path') = bitIdx + 1 /\ bitIdx' = bitIdx + 1
         /\ jtagState' = nextJtagState
         /\ \A i \in 1..bitIdx : path'[i] = path[i]
         /\ path'[bitIdx + 1] = jtagState
         /\ \A i \in 0..bitIdx : StateAt(i)' = StateAt(i)
         /\ PathInv'
<1>1. /\ bitIdx \in Nat /\ path \in Seq(JtagStates) /\ Len(path) = bitIdx
      /\ jtagState \in JtagStates /\ nextJtagState \in JtagStates
      /\ tmsBit = tms[bitIdx + 1] /\ InProcess
  BY ScanBit DEF IndInv, TypeOK
<1>2. bitIdx' = bitIdx + 1 /\ jtagState' = nextJtagState /\ path' = Append(path, jtagState)
  BY DEF advance
<1>3. /\ path' \in Seq(JtagStates) /\ Len(path') = bitIdx + 1
      /\ \A i \in 1..bitIdx : path'[i] = path[i]
      /\ path'[bitIdx + 1] = jtagState
  BY <1>1, <1>2
<1>4. ASSUME NEW i \in 0..bitIdx PROVE StateAt(i)' = StateAt(i)
  <2>1. StateAt(i)' = path'[i + 1]
    BY <1>1, <1>3 DEF StateAt
  <2>2. CASE i < bitIdx
    BY <1>1, <1>3, <2>1, <2>2 DEF StateAt
  <2>3. CASE i = bitIdx
    BY <1>1, <1>3, <2>1, <2>3 DEF StateAt
  <2> QED  BY <1>1, <2>2, <2>3
<1>5. ASSUME NEW i \in 1..(bitIdx + 1) PROVE StateAt(i)' = next_state(path'[i], tms[i])
  <2>1. CASE i \in 1..bitIdx
    <3>1. StateAt(i) = next_state(path[i], tms[i])
      BY <1>1, <2>1 DEF IndInv, PathInv
    <3> QED  BY <1>1, <1>3, <1>4, <2>1, <3>1
  <2>2. CASE i = bitIdx + 1
    <3>1. StateAt(i)' = nextJtagState
      BY <1>1, <1>2, <1>3, <2>2 DEF StateAt
    <3> QED  BY <1>1, <1>3, <2>2, <3>1 DEF nextJtagState
  <2> QED  BY <1>1, <2>1, <2>2
<1>6. PathInv'
  BY <1>2, <1>3, <1>5 DEF PathInv
<1> QED  BY <1>2, <1>3, <1>4, <1>6

(* A bit that ends no event only extends the pending range.                *)
LEMMA ScanWithoutEventInd ==
  ASSUME IndInv, scan_without_event
  PROVE  IndInv'
<1>1. /\ pc = "scan" /\ bitIdx < Len(tms) /\ ~event /\ advance
      /\ UNCHANGED <<state, op, pc, tms, firstPendingBitIdx, driven, clocked, tap, ones, lost>>
  BY DEF scan_without_event
<1>2. /\ path' \in Seq(JtagStates) /\ bitIdx' = bitIdx + 1
      /\ jtagState' = nextJtagState /\ nextJtagState \in JtagStates
      /\ \A i \in 1..bitIdx : path'[i] = path[i]
      /\ path'[bitIdx + 1] = jtagState
      /\ \A i \in 0..bitIdx : StateAt(i)' = StateAt(i)
      /\ PathInv'
  BY <1>1, AdvancePath, ScanBit
<1>3. /\ bitIdx + 1 < Len(tms)
      /\ IsShift(nextJtagState) <=> IsShift(jtagState)
      /\ IsShift(jtagState) => ~tms[bitIdx + 1]
  <2>1. bitIdx + 1 < Len(tms)
    BY <1>1 DEF event, endOfVector, IndInv, TypeOK
  <2>2. ~enteringShift /\ ~leavingShift
    BY <1>1 DEF event
  <2>3. IsShift(nextJtagState) <=> IsShift(jtagState)
    BY <2>2 DEF enteringShift, leavingShift
  <2> QED  BY <1>1, <2>1, <2>2, <2>3, ScanBit
<1>4. TypeOK'
  BY <1>1, <1>2, <1>3 DEF IndInv, TypeOK
<1>5. InProcess /\ InProcess'
  BY <1>1 DEF InProcess
<1>6. clocked \in 0..bitIdx /\ firstPendingBitIdx \in 0..bitIdx /\ bitIdx \in Nat
  BY <1>5 DEF IndInv, TypeOK, DrivenInv
<1>7. PendingInv'
  <2>1. ASSUME NEW i \in (firstPendingBitIdx + 1)..(bitIdx + 1)
        PROVE  /\ IsShift(path'[i]) <=> IsShift(nextJtagState)
               /\ IsShift(nextJtagState) => ~tms[i]
    <3>1. CASE i \in (firstPendingBitIdx + 1)..bitIdx
      <4>1. path'[i] = path[i]  BY <1>2, <1>6, <3>1
      <4>2. (IsShift(path[i]) <=> IsShift(jtagState)) /\ (IsShift(jtagState) => ~tms[i])
        BY <1>5, <3>1 DEF IndInv, PendingInv
      <4> QED  BY <1>3, <4>1, <4>2
    <3>2. CASE i = bitIdx + 1
      BY <1>2, <1>3, <3>2
    <3> QED  BY <1>6, <3>1, <3>2
  <2>2. (bitIdx' = Len(tms') => firstPendingBitIdx' = bitIdx') /\ pc' # "flush"
    BY <1>1, <1>2, <1>3, <1>6 DEF IndInv, TypeOK
  <2> QED  BY <1>1, <1>2, <2>1, <2>2 DEF PendingInv
<1>8. DrivenInv'
  BY <1>1, <1>2, <1>5, <1>6 DEF IndInv, DrivenInv
<1>9. QuietInv' /\ SyncInv' /\ TracksTap'
  <2>1. StateAt(clocked)' = StateAt(clocked)  BY <1>1, <1>2, <1>6 DEF StateAt
  <2> QED
    BY <1>1, <1>5, <2>1 DEF IndInv, QuietInv, SyncInv, TracksTap, InProcess
<1> QED  BY <1>2, <1>4, <1>7, <1>8, <1>9 DEF IndInv

(* What an event makes the driver do with the bits of its range: the       *)
(* client's TMS levels, with data exactly where the path is in a shift     *)
(* state.                                                                  *)
LEMMA EventPulses ==
  ASSUME IndInv, pc = "scan", bitIdx < Len(tms)
  PROVE  /\ eventPulses \in Seq(Pulses)
         /\ Len(eventPulses) = bitIdx + 1 - firstPendingBitIdx
         /\ \A k \in 1..(bitIdx + 1 - firstPendingBitIdx) :
              /\ eventPulses[k].tms = tms[firstPendingBitIdx + k]
              /\ eventPulses[k].shift = IsShift(jtagState)
<1> DEFINE len == bitIdx + 1 - firstPendingBitIdx
<1>1. /\ bitIdx \in 0..(Len(tms) - 1) /\ firstPendingBitIdx \in 0..bitIdx
      /\ tms \in Seq(BOOLEAN) /\ len \in Nat
  BY ScanBit DEF IndInv, TypeOK
<1>2. ASSUME NEW k \in 1..len
      PROVE  LET n == firstPendingBitIdx + k IN
             /\ n \in 1..Len(tms) /\ tms[n] \in BOOLEAN
             /\ IsShift(jtagState) => (tms[n] <=> (n = bitIdx + 1 /\ leavingShift))
  <2> DEFINE n == firstPendingBitIdx + k
  <2>1. n \in 1..Len(tms) /\ n \in (firstPendingBitIdx + 1)..(bitIdx + 1)
    BY <1>1
  <2>2. tms[n] \in BOOLEAN
    BY <1>1, <2>1
  <2>3. CASE n = bitIdx + 1
    BY <2>1, <2>2, <2>3, ScanBit
  <2>4. CASE n # bitIdx + 1
    <3>1. n \in (firstPendingBitIdx + 1)..bitIdx
      BY <1>1, <2>1, <2>4
    <3>2. IsShift(jtagState) => ~tms[n]
      BY <3>1 DEF IndInv, PendingInv, InProcess
    <3> QED  BY <2>1, <2>2, <2>4, <3>2, Zenon
  <2> QED  BY <2>1, <2>2, <2>3, <2>4
<1>3. ASSUME NEW k \in 1..len
      PROVE  /\ eventPulses[k] = IF IsShift(jtagState)
                 THEN [tms |-> firstPendingBitIdx + k = bitIdx + 1 /\ leavingShift, shift |-> TRUE]
                 ELSE [tms |-> tms[firstPendingBitIdx + k], shift |-> FALSE]
  BY DEF eventPulses
<1>4. ASSUME NEW k \in 1..len
      PROVE  /\ eventPulses[k] \in Pulses
             /\ eventPulses[k].tms = tms[firstPendingBitIdx + k]
             /\ eventPulses[k].shift = IsShift(jtagState)
  <2>1. CASE IsShift(jtagState)
    <3>1. eventPulses[k] = [tms |-> firstPendingBitIdx + k = bitIdx + 1 /\ leavingShift, shift |-> TRUE]
      BY <1>3, <2>1
    <3>2. tms[firstPendingBitIdx + k] = (firstPendingBitIdx + k = bitIdx + 1 /\ leavingShift)
      BY <1>2, <2>1
    <3>3. IsShift(jtagState) = TRUE  BY <2>1 DEF IsShift
    <3>4. tms[firstPendingBitIdx + k] \in BOOLEAN  BY <1>2
    <3>5. eventPulses[k] = [tms |-> tms[firstPendingBitIdx + k], shift |-> TRUE]
      BY <3>1, <3>2, Zenon
    <3>6. eventPulses[k] \in Pulses  BY <3>4, <3>5 DEF Pulses
    <3>7. eventPulses[k].tms = tms[firstPendingBitIdx + k]  BY <3>5
    <3>8. eventPulses[k].shift = TRUE  BY <3>5
    <3> QED  BY <3>3, <3>6, <3>7, <3>8, Zenon
  <2>2. CASE ~IsShift(jtagState)
    <3>1. eventPulses[k] = [tms |-> tms[firstPendingBitIdx + k], shift |-> FALSE]
      BY <1>3, <2>2
    <3>2. tms[firstPendingBitIdx + k] \in BOOLEAN
      BY <1>2
    <3>3. IsShift(jtagState) = FALSE  BY <2>2 DEF IsShift
    <3>4. eventPulses[k] \in Pulses  BY <3>1, <3>2 DEF Pulses
    <3>5. eventPulses[k].tms = tms[firstPendingBitIdx + k]  BY <3>1
    <3>6. eventPulses[k].shift = FALSE  BY <3>1
    <3> QED  BY <3>3, <3>4, <3>5, <3>6, Zenon
  <2> QED  BY <2>1, <2>2
<1>5. eventPulses \in [1..len -> Pulses]
  BY <1>4 DEF eventPulses
<1> QED  BY <1>1, <1>4, <1>5

(* A bit that ends an event empties the pending range into `driven`.       *)
LEMMA ScanEventInd ==
  ASSUME IndInv, scan_event
  PROVE  IndInv'
<1>1. /\ pc = "scan" /\ bitIdx < Len(tms) /\ event /\ advance
      /\ driven' = driven \o eventPulses
      /\ firstPendingBitIdx' = bitIdx + 1
      /\ UNCHANGED <<state, op, pc, tms, clocked, tap, ones, lost>>
  BY DEF scan_event, CbAccepts
<1>2. /\ path' \in Seq(JtagStates) /\ bitIdx' = bitIdx + 1 /\ Len(path') = bitIdx + 1
      /\ jtagState' = nextJtagState /\ nextJtagState \in JtagStates
      /\ \A i \in 1..bitIdx : path'[i] = path[i]
      /\ path'[bitIdx + 1] = jtagState
      /\ \A i \in 0..bitIdx : StateAt(i)' = StateAt(i)
      /\ PathInv'
  BY <1>1, AdvancePath, ScanBit
<1>3. /\ bitIdx \in 0..(Len(tms) - 1) /\ firstPendingBitIdx \in 0..bitIdx
      /\ driven \in Seq(Pulses) /\ Len(driven) = firstPendingBitIdx
      /\ clocked \in 0..Len(driven) /\ InProcess /\ InProcess'
  BY <1>1, ScanBit DEF IndInv, TypeOK, DrivenInv, InProcess
<1>4. /\ eventPulses \in Seq(Pulses)
      /\ Len(eventPulses) = bitIdx + 1 - firstPendingBitIdx
      /\ \A k \in 1..(bitIdx + 1 - firstPendingBitIdx) :
           /\ eventPulses[k].tms = tms[firstPendingBitIdx + k]
           /\ eventPulses[k].shift = IsShift(jtagState)
  BY <1>1, EventPulses
<1>5. /\ driven' \in Seq(Pulses) /\ Len(driven') = bitIdx + 1
      /\ \A i \in 1..firstPendingBitIdx : driven'[i] = driven[i]
      /\ \A i \in (firstPendingBitIdx + 1)..(bitIdx + 1) :
           driven'[i] = eventPulses[i - firstPendingBitIdx]
  <2>1. driven' = driven \o eventPulses /\ driven \in Seq(Pulses) /\ eventPulses \in Seq(Pulses)
    BY <1>1, <1>3, <1>4
  <2>2. driven' \in Seq(Pulses) /\ Len(driven') = Len(driven) + Len(eventPulses)
    BY <2>1
  <2>3. ASSUME NEW i \in 1..Len(driven') 
        PROVE driven'[i] = IF i <= Len(driven) THEN driven[i] ELSE eventPulses[i - Len(driven)]
    BY <2>1, <2>2
  <2> QED  BY SMTT(30), <1>3, <1>4, <2>2, <2>3
<1>6. ASSUME NEW i \in 1..(bitIdx + 1)
      PROVE  driven'[i].tms = tms[i] /\ driven'[i].shift = IsShift(path'[i])
  <2>1. CASE i \in 1..firstPendingBitIdx
    <3>1. driven[i].tms = tms[i] /\ driven[i].shift = IsShift(path[i])
      BY <1>3, <2>1 DEF IndInv, DrivenInv
    <3>2. path'[i] = path[i] /\ driven'[i] = driven[i]
      BY <1>2, <1>3, <1>5, <2>1
    <3> QED  BY <3>1, <3>2
  <2>2. CASE i \in (firstPendingBitIdx + 1)..(bitIdx + 1)
    <3> DEFINE k == i - firstPendingBitIdx
    <3>1. k \in 1..(bitIdx + 1 - firstPendingBitIdx) /\ firstPendingBitIdx + k = i
      BY <1>3, <2>2
    <3>2. eventPulses[k].tms = tms[i] /\ eventPulses[k].shift = IsShift(jtagState)
      BY <1>4, <3>1
    <3>3. IsShift(path'[i]) = IsShift(jtagState)
      <4>1. CASE i = bitIdx + 1
        BY <1>2, <4>1
      <4>2. CASE i \in (firstPendingBitIdx + 1)..bitIdx
        <5>1. path'[i] = path[i]  BY <1>2, <1>3, <4>2
        <5>2. IsShift(path[i]) <=> IsShift(jtagState)
          BY <1>3, <4>2 DEF IndInv, PendingInv
        <5> QED  BY <5>1, <5>2 DEF IsShift
      <4> QED  BY <1>3, <2>2, <4>1, <4>2
    <3>4. driven'[i] = eventPulses[k]
      BY <1>5, <2>2
    <3> QED  BY <3>2, <3>3, <3>4
  <2> QED  BY <1>3, <2>1, <2>2
<1>7. TypeOK'
  BY <1>1, <1>2, <1>3, <1>5 DEF IndInv, TypeOK
<1>8. DrivenInv'
  BY <1>1, <1>2, <1>5, <1>6 DEF DrivenInv
<1>9. PendingInv'
  <2>1. (firstPendingBitIdx' + 1)..bitIdx' = {}
    BY <1>1, <1>2, <1>3
  <2> QED  BY <1>1, <1>2, <2>1 DEF PendingInv
<1>10. QuietInv' /\ SyncInv' /\ TracksTap'
  <2>1. StateAt(clocked)' = StateAt(clocked)
    <3>1. clocked \in 0..bitIdx /\ clocked' = clocked  BY <1>1, <1>3
    <3> QED  BY <1>2, <3>1 DEF StateAt
  <2> QED
    BY <1>1, <1>3, <2>1 DEF IndInv, QuietInv, SyncInv, TracksTap, InProcess
<1> QED  BY <1>2, <1>7, <1>8, <1>9, <1>10 DEF IndInv

(* The end of the scan, the flush, which makes the computed state the      *)
(* saved one, and the bail-out.                                            *)
LEMMA FinishInd ==
  ASSUME IndInv, end_of_scan \/ flush_all \/ bail_reset
  PROVE  IndInv'
<1> USE DEF IndInv
<1>1. CASE end_of_scan
  <2>1. InProcess /\ InProcess'  BY <1>1 DEF end_of_scan, InProcess
  <2>2. StateAt(clocked)' = StateAt(clocked) /\ \A i \in 1..bitIdx : StateAt(i)' = StateAt(i)
    BY <1>1 DEF end_of_scan, StateAt
  <2>3. TypeOK'  BY <1>1 DEF end_of_scan, TypeOK, Labels
  <2>4. PathInv' /\ PendingInv' /\ DrivenInv'
    BY <1>1, <2>1, <2>2 DEF end_of_scan, PathInv, PendingInv, DrivenInv
  <2>5. QuietInv' /\ SyncInv' /\ TracksTap'
    BY <1>1, <2>1, <2>2 DEF end_of_scan, QuietInv, SyncInv, TracksTap, InProcess
  <2> QED  BY <2>3, <2>4, <2>5
<1>2. CASE flush_all
  <2>1. InProcess /\ ~InProcess' /\ pc = "flush" /\ pc' = "idle"
    BY <1>2 DEF flush_all, InProcess
  <2>2. clocked = bitIdx
    BY <1>2, <2>1 DEF flush_all, CbFlushes, TypeOK, DrivenInv, PendingInv
  <2>3. StateAt(clocked) = jtagState
    BY <2>1, <2>2 DEF StateAt, PathInv, TypeOK
  <2>4. TypeOK'
    <3>1. driven' \in Seq(Pulses) /\ clocked' \in 0..Len(driven')
      BY <1>2 DEF flush_all, CbFlushes
    <3> QED  BY <1>2, <3>1 DEF flush_all, CbFlushes, TypeOK, Labels
  <2>5. SyncInv'
    BY <1>2, <2>1, <2>3 DEF flush_all, CbFlushes, SyncInv
  <2> QED
    BY <1>2, <2>1, <2>3, <2>4, <2>5 DEF flush_all, CbFlushes, QuietInv, PathInv, PendingInv,
      DrivenInv, TracksTap
<1>3. CASE bail_reset
  <2>1. TypeOK /\ CbFails  BY <1>3 DEF bail_reset
  <2>2. TypeOK'
    BY <1>3, <2>1, AfterFailure DEF bail_reset, TypeOK, Labels
  <2>3. pc' = "reset_tms" /\ ~InProcess'
    BY <1>3 DEF bail_reset, InProcess
  <2> QED
    BY <2>1, <2>2, <2>3, AfterFailure DEF QuietInv, PathInv, PendingInv, DrivenInv,
      SyncInv, TracksTap
<1> QED  BY <1>1, <1>2, <1>3

(* Every step of Next preserves the inductive invariant.                   *)
LEMMA NextInd == IndInv /\ [Next]_vars => IndInv'
<1> SUFFICES ASSUME IndInv, [Next]_vars PROVE IndInv'
  OBVIOUS
<1>1. CASE Clock  BY <1>1, ClockInd
<1>2. CASE SplitterStep
  BY <1>2, ResetActionsInd, ScanWithoutEventInd, ScanEventInd, FinishInd DEF SplitterStep
<1>3. CASE ApiCall  BY <1>3, ApiCallInd
<1>4. CASE UNCHANGED vars
  BY <1>4 DEF IndInv, TypeOK, QuietInv, PathInv, PendingInv, DrivenInv, SyncInv, TracksTap,
    InProcess, StateAt
<1> QED  BY <1>1, <1>2, <1>3, <1>4 DEF Next

-----------------------------------------------------------------------------
(* Every reachable state of the splitter satisfies the inductive invariant *)
(* (txvc_jtag_splitter_process, whatever callbacks fail), for vectors of   *)
(* any length.                                                             *)
THEOREM Invariance == Spec => []IndInv
BY InitIndInv, NextInd, PTL DEF Spec

(* Types and index ranges of txvc_jtag_splitter_process: no bit outside    *)
(* the vector is read, no range is empty or inverted.                      *)
THEOREM TypeCorrectness == Spec => []TypeOK
<1>1. IndInv => TypeOK  BY DEF IndInv
<1> QED  BY <1>1, Invariance, PTL

(* The events repeat exactly the client's TMS bits, up to the last one at  *)
(* the flush.                                                              *)
THEOREM EventsDriveClientTms == Spec => []DrivesClientTms
<1>1. IndInv => DrivesClientTms
  <2> SUFFICES ASSUME IndInv, InProcess PROVE DrivesClientTms
    BY DEF DrivesClientTms
  <2>1. Len(driven) = firstPendingBitIdx /\ \A i \in 1..Len(driven) : driven[i].tms = tms[i]
    BY DEF IndInv, DrivenInv
  <2>2. pc = "flush" => Len(driven) = Len(tms)
    BY <2>1 DEF IndInv, PendingInv
  <2> QED  BY <2>1, <2>2 DEF DrivesClientTms
<1> QED  BY <1>1, Invariance, PTL

(* The splitter's idea of the TAP state is right, except between a failed  *)
(* tapReset and the next five ones.                                        *)
THEOREM TapIsTracked == Spec => []TracksTap
<1>1. IndInv => TracksTap  BY DEF IndInv
<1> QED  BY <1>1, Invariance, PTL

(* Data is exchanged exactly on the TCKs on which the TAP shifts.          *)
THEOREM DataGoesWithShift == Spec => []DataWhenTapShifts
<1>1. IndInv => DataWhenTapShifts
  <2> SUFFICES ASSUME IndInv, InProcess, ~lost, clocked < Len(driven)
               PROVE  driven[clocked + 1].shift <=> IsShift(tap)
    BY DEF DataWhenTapShifts
  <2>1. clocked + 1 \in 1..Len(driven) /\ clocked < bitIdx
    BY DEF IndInv, TypeOK, DrivenInv
  <2>2. tap = path[clocked + 1]
    BY <2>1 DEF IndInv, TracksTap, StateAt, PathInv
  <2>3. driven[clocked + 1].shift = IsShift(path[clocked + 1])
    BY <2>1 DEF IndInv, DrivenInv
  <2> QED  BY <2>2, <2>3
<1> QED  BY <1>1, Invariance, PTL

-----------------------------------------------------------------------------
(* Refinement of JtagStream.                                               *)

(* The bits still to be clocked, as a sequence. *)
LEMMA TodoSeq ==
  ASSUME TypeOK, NEW n \in 0..Len(tms)
  PROVE  /\ SubSeq(tms, n + 1, Len(tms)) \in Seq(BOOLEAN)
         /\ Len(SubSeq(tms, n + 1, Len(tms))) = Len(tms) - n
         /\ n = Len(tms) => SubSeq(tms, n + 1, Len(tms)) = <<>>
         /\ n < Len(tms) =>
              /\ SubSeq(tms, n + 1, Len(tms)) # <<>>
              /\ Head(SubSeq(tms, n + 1, Len(tms))) = tms[n + 1]
              /\ Tail(SubSeq(tms, n + 1, Len(tms))) = SubSeq(tms, n + 2, Len(tms))
<1> DEFINE t == SubSeq(tms, n + 1, Len(tms))
<1>1. tms \in Seq(BOOLEAN) /\ n \in Nat /\ n <= Len(tms) /\ Len(tms) \in Nat
  BY DEF TypeOK
<1>2. t \in Seq(BOOLEAN) /\ Len(t) = Len(tms) - n
  BY <1>1
<1>3. n = Len(tms) => t = <<>>
  BY <1>1, <1>2
<1>4. ASSUME n < Len(tms)
      PROVE  t # <<>> /\ Head(t) = tms[n + 1] /\ Tail(t) = SubSeq(tms, n + 2, Len(tms))
  <2>0. t[1] = tms[n + 1]
    BY <1>1, <1>4
  <2>1. t # <<>> /\ Head(t) = tms[n + 1]
    <3> HIDE DEF t
    <3>1. t # <<>>  BY <1>1, <1>2, <1>4
    <3> QED  BY <1>2, <2>0, <3>1
  <2>2. Tail(t) \in Seq(BOOLEAN) /\ Len(Tail(t)) = Len(tms) - n - 1
    <3> HIDE DEF t
    <3> QED  BY <1>1, <1>2, <2>1
  <2> DEFINE u == SubSeq(tms, n + 2, Len(tms))
  <2>3. u \in Seq(BOOLEAN) /\ Len(u) = Len(tms) - n - 1
    BY <1>1, <1>4
  <2>4. ASSUME NEW i \in 1..(Len(tms) - n - 1) PROVE Tail(t)[i] = u[i]
    <3>1. t[i + 1] = tms[n + i + 1]
      BY SMTT(30), <1>1, <1>4
    <3>2. u[i] = tms[n + i + 1]
      BY <1>1, <1>4
    <3>3. Tail(t)[i] = t[i + 1]
      <4> HIDE DEF t
      <4> QED  BY <1>1, <1>2, <1>4, <2>1
    <3> QED  BY <3>1, <3>2, <3>3
  <2>5. Tail(t) = u
    <3> HIDE DEF t, u
    <3>1. Len(Tail(t)) = Len(u) /\ \A i \in 1..Len(Tail(t)) : Tail(t)[i] = u[i]
      BY <2>2, <2>3, <2>4
    <3> QED  BY <2>2, <2>3, <3>1, SeqEqual
  <2> QED  BY <2>1, <2>5
<1> QED  BY <1>2, <1>3, <1>4

(* The mapped phase and to-do list at each place of the code. *)
LEMMA MappedState ==
  ASSUME TypeOK
  PROVE  /\ pc = "off"  => streamPhase = "off" /\ streamTodo = <<>>
         /\ pc = "idle" => streamPhase = "ready" /\ streamTodo = <<>>
         /\ InProcess   => /\ streamPhase = "busy"
                           /\ streamTodo = SubSeq(tms, clocked + 1, Len(tms))
         /\ pc \in {"reset_tms", "reset_flush"} => streamPhase = "reset" /\ streamTodo = <<>>
BY DEF streamPhase, streamTodo, InProcess

(* Every step of the splitter is a step of the stream or changes nothing a *)
(* client of the stream sees.                                              *)
LEMMA StepRefines ==
  IndInv /\ IndInv' /\ [Next]_vars => [Stream!StreamNext]_(Stream!streamVars)
<1> SUFFICES ASSUME IndInv, IndInv', [Next]_vars
             PROVE  Stream!StreamNext \/ UNCHANGED <<streamPhase, streamTodo, tap>>
  BY DEF Stream!streamVars
<1> USE DEF Stream!StreamNext
<1>0. TypeOK /\ TypeOK'
  BY DEF IndInv
<1>1. ASSUME UNCHANGED <<pc, tms, clocked, tap>>
      PROVE  UNCHANGED <<streamPhase, streamTodo, tap>>
  BY <1>1 DEF streamPhase, streamTodo, InProcess
<1>2. CASE Clock
  <2> DEFINE high == driven[clocked + 1].tms
  <2>1. /\ clocked < Len(driven) /\ clocked' = clocked + 1 /\ tap' = next_state(tap, high)
        /\ UNCHANGED <<pc, tms, driven>>
    BY <1>2 DEF Clock
  <2>2. CASE InProcess
    <3>1. clocked \in 0..Len(tms) /\ clocked < Len(tms) /\ high = tms[clocked + 1]
      BY SMTT(30), <1>0, <2>1, <2>2 DEF IndInv, DrivenInv, TypeOK
    <3>2. InProcess' /\ clocked + 2 = clocked' + 1
      BY <2>1, <2>2, <3>1 DEF InProcess
    <3>3. /\ streamPhase = "busy" /\ streamPhase' = "busy"
          /\ streamTodo = SubSeq(tms, clocked + 1, Len(tms))
          /\ streamTodo' = SubSeq(tms, clocked + 2, Len(tms))
      BY <1>0, <2>1, <2>2, <3>2 DEF streamPhase, streamTodo, InProcess
    <3>4. /\ streamTodo # <<>> /\ Head(streamTodo) = high /\ Tail(streamTodo) = streamTodo'
      BY <1>0, <3>1, <3>3, TodoSeq
    <3>5. Stream!Tck
      BY <2>1, <3>3, <3>4 DEF Stream!Tck, Stream!next_state, next_state
    <3> QED  BY <3>5
  <2>3. CASE pc = "reset_flush"
    <3>1. high = TRUE
      BY SMTT(30), <1>0, <2>1, <2>3, ResetVector DEF IndInv, QuietInv, TypeOK
    <3>2. /\ streamPhase = "reset" /\ streamPhase' = "reset"
          /\ streamTodo = <<>> /\ streamTodo' = <<>>
      BY <2>1, <2>3 DEF streamPhase, streamTodo, InProcess
    <3>3. Stream!ResetTck
      BY <2>1, <3>1, <3>2 DEF Stream!ResetTck, Stream!next_state, next_state
    <3> QED  BY <3>3
  <2>4. CASE pc \in {"off", "idle", "reset_tms"}
    BY <2>1, <2>4 DEF IndInv, QuietInv
  <2> QED  BY <1>0, <2>2, <2>3, <2>4 DEF TypeOK, Labels, InProcess
<1>3. CASE tapReset_shift_tms
  <2>1. /\ streamPhase = "reset" /\ streamPhase' = "reset"
        /\ streamTodo = <<>> /\ streamTodo' = <<>> /\ tap' = tap
    BY <1>3 DEF tapReset_shift_tms, CbAccepts, streamPhase, streamTodo, InProcess
  <2> QED  BY <2>1
<1>4. CASE tapReset_returns_true
  <2>1. /\ streamPhase = "reset" /\ streamPhase' \in {"ready", "off"}
        /\ streamTodo = <<>> /\ streamTodo' = <<>> /\ tap' = tap
    BY <1>4 DEF tapReset_returns_true, CbFlushes, streamPhase, streamTodo, InProcess
  <2>2. tap = "TEST_LOGIC_RESET"
    <3>1. ones = ResetBits
      BY <1>4, ResetVector DEF tapReset_returns_true, CbFlushes, IndInv, QuietInv, TypeOK
    <3>2. tap \in JtagStates /\ OnesLeft(tap) + ones <= ResetBits
      BY DEF IndInv, SyncInv, TypeOK
    <3>3. OnesLeft(tap) = 0
      BY <3>1, <3>2, OnesLeftBound DEF ResetBits
    <3> QED  BY <3>2, <3>3, OnesLeftBound
  <2>3. Stream!ResetDone
    BY <2>1, <2>2 DEF Stream!ResetDone
  <2> QED  BY <2>3
<1>5. CASE tapReset_returns_false
  <2>1. /\ streamPhase = "reset" /\ streamPhase' \in {"ready", "off"}
        /\ streamTodo = <<>> /\ streamTodo' = <<>>
    BY <1>5 DEF tapReset_returns_false, CbFails, streamPhase, streamTodo, InProcess
  <2>2. Stream!ResetFailed
    BY <1>0, <2>1 DEF Stream!ResetFailed, Stream!JtagStates, JtagStates, TypeOK
  <2> QED  BY <2>2
<1>6. CASE scan_without_event \/ scan_event
  BY <1>1, <1>6 DEF scan_without_event, scan_event, CbAccepts
<1>7. CASE end_of_scan
  BY <1>7 DEF end_of_scan, streamPhase, streamTodo, InProcess
<1>8. CASE flush_all
  <2>1. /\ clocked = Len(tms) /\ InProcess /\ pc' = "idle" /\ tap' = tap
    BY <1>8 DEF flush_all, CbFlushes, InProcess, IndInv, TypeOK, DrivenInv, PendingInv
  <2>2. streamPhase = "busy" /\ streamPhase' = "ready" /\ streamTodo' = <<>>
    BY <1>0, <2>1, MappedState DEF streamPhase, streamTodo, InProcess
  <2>3. streamTodo = <<>>
    BY <1>0, <2>1, TodoSeq DEF streamTodo, TypeOK
  <2>4. Stream!Answer
    BY <2>1, <2>2, <2>3 DEF Stream!Answer
  <2> QED  BY <2>4
<1>9. CASE bail_reset
  <2>1. streamPhase = "busy" /\ streamPhase' = "reset" /\ streamTodo' = <<>>
    BY <1>9 DEF bail_reset, streamPhase, streamTodo, InProcess
  <2>2. Stream!GiveUp
    BY <1>0, <2>1 DEF Stream!GiveUp, Stream!JtagStates, JtagStates, TypeOK
  <2> QED  BY <2>2
<1>10. CASE txvc_jtag_splitter_init \/ txvc_jtag_splitter_deinit
  <2>1. /\ streamPhase \in {"off", "ready"} /\ streamPhase' = "reset"
        /\ streamTodo = <<>> /\ streamTodo' = <<>> /\ tap' = tap
    BY <1>10 DEF txvc_jtag_splitter_init, txvc_jtag_splitter_deinit, streamPhase,
      streamTodo, InProcess
  <2>2. Stream!StartReset
    BY <2>1 DEF Stream!StartReset
  <2> QED  BY <2>2
<1>11. ASSUME NEW v \in BitVectors, process(v) PROVE Stream!StreamNext
  <2>1. /\ streamPhase = "ready" /\ streamPhase' = "busy" /\ tap' = tap
        /\ clocked' = 0 /\ tms' = v /\ InProcess'
    BY <1>11 DEF process, IndInv, QuietInv, streamPhase, streamTodo, InProcess
  <2>2. v \in Seq(BOOLEAN)
    BY <1>0, <2>1 DEF TypeOK
  <2>3. streamTodo' = SubSeq(v, 1, Len(v))
    BY <2>1 DEF streamTodo
  <2>4. SubSeq(v, 1, Len(v)) = v
    BY <2>2
  <2>5. v \in Stream!BitVectors
    BY <1>11 DEF BitVectors, Stream!BitVectors
  <2>6. Stream!Accept(v)
    BY <2>1, <2>3, <2>4 DEF Stream!Accept
  <2> QED  BY <2>5, <2>6
<1>12. CASE UNCHANGED vars
  BY <1>1, <1>12
<1> QED
  BY <1>2, <1>3, <1>4, <1>5, <1>6, <1>7, <1>8, <1>9, <1>10, <1>11, <1>12
     DEF Next, SplitterStep, ApiCall

(* The splitter implements the plain JTAG stream: what the client sees is  *)
(* one TCK per bit of its vector, and an answer only after the last of     *)
(* them.                                                                   *)
THEOREM Refinement == Spec => ImplementsStream
<1>1. Init => Stream!StreamInit
  BY DEF Init, Stream!StreamInit, Stream!JtagStates, JtagStates, streamPhase, streamTodo, InProcess
<1> QED
  BY <1>1, Invariance, StepRefines, PTL DEF Spec, ImplementsStream, Stream!StreamSpec
=============================================================================
