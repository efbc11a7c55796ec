-------------------------- MODULE MC_DriverWrapper --------------------------
(* Periods for model checking DriverWrapper: every small one, so that each *)
(* remainder of the division occurs, both sides of every limit, and both   *)
(* signs of a product that wraps.                                          *)
EXTENDS DriverWrapper

Edges == {1000, 1033, 2184500, 2184533, 2184534, MaxProduct, MaxProduct + 1,
           143165577, 143200000, MaxInt}

SomePeriods == 1..67 \cup Edges
SomeFixed   == {0, 1, 33, 34, 66, 100, 2184533, 2184534}

ZeroPeriod == {0, 100}
NoFixed    == {0}
=============================================================================
