----------------------------- MODULE TestRunner -----------------------------
(***************************************************************************)
(* libtinytest: suites and cases register themselves, then every case is   *)
(* run between the actions of its suite.  A fatal check leaves the         *)
(* function it is in by longjmp(), to the last setjmp().                   *)
(***************************************************************************)
EXTENDS Process

CONSTANTS
  SuiteSizes,          \* programs: sequences of how many cases a suite has
  MAX_SUITES,
  MAX_CASES_PER_SUITE,
  StrbufSz,            \* sizeof(sb->str)
  MaxChecks,           \* bound: checks in a case
  Spans                \* operands of the checks, as sequences of bytes
ASSUME RunnerAssumption ==
  /\ SuiteSizes \subseteq Seq(Nat)
  /\ MAX_SUITES \in Nat /\ MAX_CASES_PER_SUITE \in Nat /\ StrbufSz \in Nat
  /\ Spans \subseteq Seq(0..255)

suites         == mem.suites           \* numCases of each that registered
restorePoint   == mem.restorePoint
failed         == mem.failed

RunnerInit ==
  \E sizes \in SuiteSizes :
    Started("tests", sizes, "register",
            [ suites |-> <<>>, suiteIdx |-> 1, caseIdx |-> 0, numCasesTotal |-> 0, numFailedCases |-> 0,
              restorePoint |-> "none", failed |-> FALSE, sz |-> 0,
              checks |-> 0, wrong |-> 0, wrongCases |-> 0, ran |-> <<>>, fatalIn |-> "none" ])

register_suite ==
  /\ prog = "tests" /\ pc = "register" /\ Len(suites) < Len(input)
  /\ suites # <<>> => Last(suites) = input[Len(suites)]
  /\ IF Len(suites) < MAX_SUITES
       THEN Step("tests", "register", "register", [suites |-> Append(suites, 0)])
       ELSE Step("tests", "register", "aborted", Nothing)

register_case ==
  /\ prog = "tests" /\ pc = "register" /\ suites # <<>> /\ Last(suites) < input[Len(suites)]
  /\ IF Last(suites) < MAX_CASES_PER_SUITE
       THEN Step("tests", "register", "register", [suites |-> [suites EXCEPT ![Len(suites)] = @ + 1]])
       ELSE Step("tests", "register", "aborted", Nothing)

-----------------------------------------------------------------------------
(* ttest_run_all() and run_case().                                         *)

(* The next case: in this suite, or in the next one that has any.          *)
CasesLeft == {n \in (1..Len(suites)) \X (1..MAX_CASES_PER_SUITE) :
                n[2] <= suites[n[1]] /\ (n[1] > mem.suiteIdx \/ (n[1] = mem.suiteIdx /\ n[2] > mem.caseIdx))}

IsNext(n) == n \in CasesLeft /\ \A m \in CasesLeft : n[1] < m[1] \/ (n[1] = m[1] /\ n[2] <= m[2])

registered == prog = "tests" /\ suites = input /\ Step("tests", "register", "run", Nothing)

begin_case ==
  /\ prog = "tests" /\ pc = "run"
  /\ \E n \in {m \in CasesLeft : IsNext(m)} :
       Step("tests", "run", "before",
            [ suiteIdx |-> n[1], caseIdx |-> n[2], numCasesTotal |-> mem.numCasesTotal + 1,
              failed |-> FALSE, sz |-> 0, restorePoint |-> "report",
              checks |-> 0, wrong |-> 0, ran |-> <<"before">>, fatalIn |-> "none" ])

(* A function returned: the next setjmp() and the function behind it.      *)
before_returns ==
  Step("tests", "before", "test", [restorePoint |-> "after", ran |-> Append(mem.ran, "test")])

(* Mutant: the third setjmp() is missing. *)
test_returns_no_setjmp == Step("tests", "test", "after", [ran |-> Append(mem.ran, "after")])

test_returns ==
  Step("tests", "test", "after", [restorePoint |-> "report", ran |-> Append(mem.ran, "after")])

after_returns == Step("tests", "after", "report", Nothing)

report ==
  /\ prog = "tests"
  /\ Step("tests", "report", "run",
          [ numFailedCases |-> IF failed THEN mem.numFailedCases + 1 ELSE mem.numFailedCases,
            wrongCases |-> IF mem.wrong > 0 THEN mem.wrongCases + 1 ELSE mem.wrongCases ])

all_run == prog = "tests" /\ pc = "run" /\ CasesLeft = {} /\ Step("tests", "run", "exit", Nothing)

-----------------------------------------------------------------------------
(* Checks (assertion.c).                                                   *)

(* check_equal_span(): the other checks compare values of one element.     *)
firstDifferent(p, q) ==
  LET differ == {i \in DOMAIN p : p[i] # q[i]} IN IF differ = {} THEN -1 ELSE Min(differ)

check_passes(expected, actual, invert) ==
  LET sameLen == Len(expected) = Len(actual)
      eq      == sameLen /\ firstDifferent(expected, actual) = -1
  IN  eq # invert

(* strbuf_vappend() of len characters: the new sz.                         *)
strbuf_vappend(sz, len) ==
  IF StrbufSz <= sz + 1 THEN sz
  ELSE sz + (IF len > StrbufSz - sz THEN StrbufSz - sz ELSE len)

(* Messages have some length, with a place before and a newline behind.    *)
Reports(sz) == {strbuf_vappend(strbuf_vappend(strbuf_vappend(sz, 2), len), 1) : len \in 0..StrbufSz}

Checking == prog = "tests" /\ pc \in {"before", "test", "after"} /\ mem.checks < MaxChecks

(* History: a check that should fail by the meaning of its operands. *)
Wrong(expected, actual, invert) == IF (expected = actual) # invert THEN mem.wrong ELSE mem.wrong + 1

check(expected, actual, invert) ==
  /\ Checking /\ check_passes(expected, actual, invert)
  /\ Step("tests", pc, pc, [checks |-> mem.checks + 1, wrong |-> Wrong(expected, actual, invert)])

(* longjmp() to the setjmp() before the after-action enters that action.   *)
check_fails(expected, actual, invert, isFatal) ==
  /\ Checking /\ ~check_passes(expected, actual, invert)
  /\ \E sz \in Reports(mem.sz) :
       Step("tests", pc, IF isFatal THEN restorePoint ELSE pc,
            Merge([ failed |-> TRUE, sz |-> sz, checks |-> mem.checks + 1,
                    wrong |-> Wrong(expected, actual, invert) ],
                  IF ~isFatal THEN Nothing
                  ELSE IF restorePoint = "after"
                  THEN [fatalIn |-> pc, restorePoint |-> "report", ran |-> Append(mem.ran, "after")]
                  ELSE [fatalIn |-> pc]))

RunnerNext ==
  \/ register_suite \/ register_case \/ registered
  \/ begin_case \/ before_returns \/ test_returns \/ after_returns \/ report \/ all_run
  \/ \E expected, actual \in Spans, invert \in BOOLEAN :
       \/ check(expected, actual, invert)
       \/ \E isFatal \in BOOLEAN : check_fails(expected, actual, invert, isFatal)

-----------------------------------------------------------------------------
(* Properties.                                                             *)

(* What a case should have run when it is reported: "fatal failed check in *)
(* pre-action will interrupt the whole case so that test itself and        *)
(* post-action will be cancelled", one "in the test will not cancel        *)
(* post-action" (test.h:35).                                               *)
Documented == IF mem.fatalIn = "before" THEN <<"before">> ELSE <<"before", "test", "after">>

(* The cases of a program whose suites have these sizes. *)
Cases(sizes) == UNION {{s} \X (1..sizes[s]) : s \in DOMAIN sizes}

(***************************************************************************)
(* Whichever checks fail, fatally or not, in whichever of the functions, a *)
(* case runs each function the documentation promises exactly once and no  *)
(* other, is failed if and only if one of its checks was wrong, and is     *)
(* counted once; a program that ended has run every registered case.       *)
(***************************************************************************)
CasesRunAsDocumented ==
  prog = "tests" =>
    /\ pc = "report" => mem.ran = Documented /\ (failed <=> mem.wrong > 0)
    /\ mem.sz <= StrbufSz
    /\ pc = "exit" => /\ mem.numCasesTotal = Cardinality(Cases(input))
                      /\ mem.numFailedCases = mem.wrongCases
=============================================================================
