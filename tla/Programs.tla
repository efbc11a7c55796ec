------------------------------ MODULE Programs ------------------------------
(***************************************************************************)
(* The sequential programs of the repository side by side: a behaviour is  *)
(* a run of txvc from main() to its end, of the player, of a program of    *)
(* unit tests, or a use of the logger or of the bit vector formatters.     *)
(***************************************************************************)
EXTENDS Txvc, Player, TestRunner, BitFormat

Init == TxvcInit \/ LogInit \/ PlayerInit \/ RunnerInit \/ FormatInit

Done == pc \in Ended /\ UNCHANGED vars

Next == TxvcNext \/ LogNext \/ PlayerNext \/ RunnerNext \/ FormatNext \/ Done

(* A process that can go on does. *)
Spec == Init /\ [][Next]_vars /\ WF_vars(Next)

(***************************************************************************)
(* Every program comes to its end: the formatters' loops, which have no    *)
(* way out once the output is full, are only entered with enough room, the *)
(* parser of a profile gets behind every separator, and no failed step     *)
(* leaves the process where it was.                                        *)
(***************************************************************************)
ProgramsEnd == <>(pc \in Ended)
=============================================================================
