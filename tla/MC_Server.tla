----------------------------- MODULE MC_Server -----------------------------
(***************************************************************************)
(* Sessions for model checking Server: every command after every other,    *)
(* vectors that grow and shrink over a byte boundary, sizes and periods    *)
(* that are refused, and garbage shorter and longer than a prefix.  The    *)
(* client may leave after any byte of them.                                *)
(***************************************************************************)
EXTENDS Server

GetInfo   == [cmd |-> "getinfo", val |-> 0]
SetTck(p) == [cmd |-> "settck", val |-> p]
Shift(n)  == [cmd |-> "shift", val |-> n]
Junk(n)   == [cmd |-> "junk", val |-> n]

AllSessions ==
  { <<GetInfo, SetTck(100), Shift(9)>>,
    <<Shift(8), Shift(9), Shift(1)>>,
    <<SetTck(0), GetInfo, GetInfo>>,
    <<Shift(1), SetTck(-1)>>,
    <<GetInfo, Shift(0)>>,
    <<SetTck(5), Junk(3)>>,
    <<Junk(9), GetInfo>> }

FewSessions ==
  { <<GetInfo, Shift(9)>>, <<SetTck(100), GetInfo>>, <<Shift(1), Junk(3)>> }
=============================================================================
