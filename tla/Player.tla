------------------------------- MODULE Player -------------------------------
(***************************************************************************)
(* player/player.c: raw samples of the JTAG wires are read from a file,    *)
(* the bits at rising edges of TCK are collected and processed by the      *)
(* splitter whenever the buffer is full, and at the end of the file.  A    *)
(* sample is its TCK and TMS levels; TDI and TDO are stored beside TMS.    *)
(***************************************************************************)
EXTENDS Process

CONSTANTS
  MaxBits,       \* maxBits, 8192 in the code
  MaxSamples     \* bound: samples in the file
ASSUME PlayerAssumption == MaxBits \in Nat /\ MaxBits > 1

Samples == [tck : BOOLEAN, tms : BOOLEAN]

tms           == mem.tms
curBits       == mem.curBits
lastTckSample == mem.lastTckSample

PlayerInit ==
  Started("player", <<>>, "open",
          [ tms |-> [i \in 0..(MaxBits - 1) |-> FALSE], curBits |-> 0, lastTckSample |-> TRUE,
            samples |-> <<>>, processed |-> <<>> ])

open_samples ==
  \/ Step("player", "open", "read", Nothing)
  \/ Step("player", "open", "exit", Nothing)

(* A sample, and the splitter if it fills the buffer. *)
read_sample(s) ==
  /\ prog = "player" /\ pc = "read" /\ Len(mem.samples) < MaxSamples
  /\ \E edge \in {~lastTckSample /\ s.tck} :
     \E bits \in {IF edge THEN curBits + 1 ELSE curBits} :
     \E buffer \in {IF edge THEN [tms EXCEPT ![curBits] = s.tms] ELSE tms} :
     \E bufferFull \in {bits = MaxBits - 1} :
       Step("player", "read", "read",
            [ tms |-> buffer, lastTckSample |-> s.tck, samples |-> Append(mem.samples, s),
              curBits |-> IF bufferFull THEN 0 ELSE bits,
              processed |-> IF bufferFull THEN mem.processed \o [i \in 1..bits |-> buffer[i - 1]]
                                          ELSE mem.processed ])

(* Mutant: what is left in the buffer is not processed. *)
end_of_file_drops == Step("player", "read", "exit", [curBits |-> 0])

end_of_file ==
  /\ prog = "player" /\ pc = "read"
  /\ Step("player", "read", "exit",
          [ curBits |-> 0, processed |-> mem.processed \o [i \in 1..curBits |-> tms[i - 1]] ])

(* main() returns without processing what it has. *)
read_error == prog = "player" /\ Step("player", "read", "exit", Nothing)

PlayerNext == open_samples \/ (\E s \in Samples : read_sample(s)) \/ end_of_file \/ read_error

-----------------------------------------------------------------------------
(* Properties.                                                             *)

(* The samples at which TCK rose.                                          *)
Rising(s) == {i \in 2..Len(s) : s[i].tck /\ ~s[i - 1].tck}

(* The how-manieth of them sample i is.                                    *)
Ordinal(s, i) == Cardinality({j \in Rising(s) : j <= i})

(* What the splitter got, and then what is buffered for it.                *)
Fed == mem.processed \o [i \in 1..curBits |-> tms[i - 1]]

(***************************************************************************)
(* The splitter gets the level at every rising edge, once and in order,    *)
(* across the places where the buffer was full: what it processed and what *)
(* is still buffered are the edges read so far, the buffer never overruns, *)
(* and a file that was read to its end leaves nothing behind.              *)
(***************************************************************************)
PlayerFeedsEdges ==
  prog = "player" =>
    /\ curBits \in 0..(MaxBits - 2)
    /\ Len(Fed) = Cardinality(Rising(mem.samples))
    /\ \A i \in Rising(mem.samples) : Fed[Ordinal(mem.samples, i)] = mem.samples[i].tms
=============================================================================
