----------------------------- MODULE JtagStream -----------------------------
(***************************************************************************)
(* What an XVC client may assume of a driver that accepts combined JTAG    *)
(* vectors: the TAP is clocked once per bit, in order, with the TMS level  *)
(* of that bit, and a vector is answered only when all of it was clocked.  *)
(* A driver that gives up may leave the TAP anywhere while it recovers; it *)
(* then either has reset the TAP or reports nothing about it.              *)
(*                                                                         *)
(* This is the abstract specification JtagSplitter implements.             *)
(***************************************************************************)
EXTENDS JtagTap, Sequences

CONSTANT MaxBits       \* longest vector of a request

VARIABLES
  phase,   \* "off", "ready", "busy" with a vector, or "reset"ting the TAP
  todo,    \* TMS bits of the request that the TAP has not seen yet
  dev      \* state of the device's TAP

streamVars == <<phase, todo, dev>>

BitVectors == UNION { [1..n -> BOOLEAN] : n \in 0..MaxBits }

StreamInit == phase = "off" /\ todo = <<>> /\ dev \in JtagStates

Accept(v) ==
  /\ phase = "ready"
  /\ phase' = "busy" /\ todo' = v /\ UNCHANGED dev

Tck ==
  /\ phase = "busy" /\ todo # <<>>
  /\ dev' = next_state(dev, Head(todo))
  /\ todo' = Tail(todo)
  /\ UNCHANGED phase

Answer ==
  /\ phase = "busy" /\ todo = <<>>
  /\ phase' = "ready" /\ UNCHANGED <<todo, dev>>

GiveUp ==
  /\ phase = "busy"
  /\ phase' = "reset" /\ todo' = <<>> /\ dev' \in JtagStates

StartReset ==
  /\ phase \in {"off", "ready"}
  /\ phase' = "reset" /\ UNCHANGED <<todo, dev>>

ResetTck ==
  /\ phase = "reset"
  /\ dev' = next_state(dev, TRUE)
  /\ UNCHANGED <<phase, todo>>

ResetDone ==
  /\ phase = "reset" /\ dev = "TEST_LOGIC_RESET"
  /\ phase' \in {"ready", "off"} /\ UNCHANGED <<todo, dev>>

ResetFailed ==
  /\ phase = "reset"
  /\ dev' \in JtagStates
  /\ phase' \in {"ready", "off"} /\ UNCHANGED todo

StreamNext ==
  \/ \E v \in BitVectors : Accept(v)
  \/ Tck \/ Answer \/ GiveUp \/ StartReset \/ ResetTck \/ ResetDone \/ ResetFailed

StreamSpec == StreamInit /\ [][StreamNext]_streamVars
=============================================================================
