------------------------------- MODULE Process -------------------------------
(***************************************************************************)
(* The state of one sequential process, and how the modules that model a   *)
(* program or a library in it write their steps.  A behaviour runs one of  *)
(* the programs; its memory is a record of the program's variables, which  *)
(* each module reads through operators named after them.                   *)
(***************************************************************************)
EXTENDS Integers, Sequences, SequencesExt, FiniteSetsExt, TLC

VARIABLES
  prog,    \* the program that runs
  input,   \* what it was started with
  pc,      \* where it is
  mem      \* its variables

vars == <<prog, input, pc, mem>>

(* return from main(), abort(), and the end by a signal or a trap *)
Ended == {"exit", "aborted", "crashed"}

Started(p, i, label, m) == prog = p /\ input = i /\ pc = label /\ mem = m

(* The fields of f, and those of g that f does not have. *)
Merge(f, g) == [x \in DOMAIN f \cup DOMAIN g |-> IF x \in DOMAIN f THEN f[x] ELSE g[x]]

(* One step of program p from a label to another that changes the          *)
(* variables in `changes`.                                                 *)
Step(p, from, to, changes) ==
  /\ prog = p /\ pc = from
  /\ pc' = to /\ mem' = Merge(changes, mem)
  /\ UNCHANGED <<prog, input>>

(* No variable changes. *)
Nothing == <<>>
=============================================================================
