------------------------------ MODULE LogProofs ------------------------------
(***************************************************************************)
(* The logger's decisions (libtxvc/log.c), for all tags and specs and any  *)
(* number of calls.                                                        *)
(***************************************************************************)
EXTENDS Programs, Induction, TLAPS

(* A step belongs to one program, and a behaviour of a program has steps   *)
(* of that program only.                                                   *)
LEMMA StepsBelong ==
  /\ TxvcNext => prog = "txvc"
  /\ LogNext => prog = "log"
  /\ PlayerNext => prog = "player"
  /\ RunnerNext => prog = "tests"
  /\ FormatNext => prog = "format"
<1>1. MainNext => prog = "txvc"
  BY DEF MainNext, main_root, main_begin, getopt_bad, Parsing, getopt_option, getopt_done, main_help,
     main_profile, main_tck, find_driver, wrapper_setup, serve, deactivate, deinit_pools, reset_mode, close,
     end_of_main, ResetMode, Step
<1>2. ProfileNext => prog = "txvc"
  BY DEF ProfileNext, parse_too_long, parse_driver_name, parse_too_many, parse_arg, parse_done, AtArg,
     ftdi_load_arg, ftdi_validate
<1>3. ActivateNext => prog = "txvc"
  BY DEF ActivateNext, FT_GetLibraryVersion, FT_SetVIDPID, FT_CreateDeviceInfoList, FT_GetDeviceInfoList,
     overrun_crashes, select_device, FT_Open, FT_Purge, FT_SetChars, FT_SetFlowControl, FT_SetLatencyTimer,
     FT_BITMODE_RESET, FT_BITMODE_MPSSE, init_pools, setup_device, splitter_init, bail_reset_mode,
     bail_usb_close, bail_cant_open, bail_noop, Goto, FailedCall, Step, ResetMode
<1>4. PlayerNext => prog = "player"
  BY DEF PlayerNext, open_samples, read_sample, end_of_file, read_error, Step
<1>5. RunnerNext => prog = "tests"
  BY DEF RunnerNext, register_suite, register_case, registered, begin_case, before_returns, test_returns,
     after_returns, report, all_run, check, check_fails, Checking, Step
<1>6. FormatNext => prog = "format"
  BY DEF FormatNext, logSubVector_too_long, format_begin, fetch_octet, put_bit, format_end, log_vector,
     bit_vector_equal
<1>7. LogNext => prog = "log"
  BY DEF LogNext, txvc_log_configure, log_below_level, log_resolved, log_unconfigured, log_resolve,
     log_report_spec, log_done, LogStep, Calls
<1> QED BY <1>1, <1>2, <1>3, <1>4, <1>5, <1>6, <1>7 DEF TxvcNext

LEMMA OwnSteps ==
  ASSUME [Next]_vars
  PROVE  /\ prog = "txvc" => TxvcNext \/ UNCHANGED vars
         /\ prog = "log" => LogNext \/ UNCHANGED vars
         /\ prog = "player" => PlayerNext \/ UNCHANGED vars
         /\ prog = "tests" => RunnerNext \/ UNCHANGED vars
         /\ prog = "format" => FormatNext \/ UNCHANGED vars
<1>1. UNCHANGED vars \/ TxvcNext \/ LogNext \/ PlayerNext \/ RunnerNext \/ FormatNext
  BY DEF Next, Done
<1> QED BY <1>1, StepsBelong

(* What a step does to the variables of its program.                       *)
LEMMA StepFields ==
  ASSUME NEW p, NEW from, NEW to, NEW c, NEW F, Step(p, from, to, c), DOMAIN mem = F, DOMAIN c \subseteq F
  PROVE  /\ prog = p /\ pc = from /\ pc' = to /\ input' = input /\ DOMAIN mem' = F
         /\ \A f \in F : mem'[f] = IF f \in DOMAIN c THEN c[f] ELSE mem[f]
BY DEF Step, Merge

LEMMA NothingChanges == DOMAIN Nothing = {}
BY DEF Nothing

(* It began in one of that program's initial states.                       *)
LEMMA OwnInits ==
  ASSUME Init
  PROVE  /\ prog = "txvc" => TxvcInit
         /\ prog = "log" => LogInit
         /\ prog = "player" => PlayerInit
         /\ prog = "tests" => RunnerInit
         /\ prog = "format" => FormatInit
BY DEF Init, TxvcInit, LogInit, PlayerInit, RunnerInit, FormatInit, Started

(* No step changes which program runs or what it was started with.         *)
LEMMA SameProgram ==
  ASSUME [Next]_vars
  PROVE  prog' = prog /\ input' = input
<1> USE DEF Step, Goto, Fail
<1>1. CASE MainNext
  BY <1>1 DEF MainNext, main_root, main_begin, getopt_bad, Parsing, getopt_option, getopt_done, main_help,
     main_profile, main_tck, find_driver, wrapper_setup, serve, deactivate, deinit_pools, reset_mode, close,
     end_of_main, ResetMode
<1>2. CASE ProfileNext
  BY <1>2 DEF ProfileNext, parse_too_long, parse_driver_name, parse_too_many, parse_arg, parse_done,
     ftdi_load_arg, ftdi_validate
<1>3. CASE ActivateNext
  BY <1>3 DEF ActivateNext, FT_GetLibraryVersion, FT_SetVIDPID, FT_CreateDeviceInfoList,
     FT_GetDeviceInfoList, overrun_crashes, select_device, FT_Open, FT_Purge, FT_SetChars,
     FT_SetFlowControl, FT_SetLatencyTimer, FT_BITMODE_RESET, FT_BITMODE_MPSSE, init_pools, setup_device, splitter_init,
     bail_reset_mode, bail_usb_close, bail_cant_open, bail_noop, FailedCall, ResetMode
<1>4. CASE PlayerNext
  BY <1>4 DEF PlayerNext, open_samples, read_sample, end_of_file, read_error
<1>5. CASE RunnerNext
  BY <1>5 DEF RunnerNext, register_suite, register_case, registered, begin_case, before_returns,
     test_returns, after_returns, report, all_run, check, check_fails
<1>6. CASE FormatNext
  BY <1>6 DEF FormatNext, logSubVector_too_long, format_begin, fetch_octet, put_bit, format_end, log_vector,
     bit_vector_equal
<1>7. CASE LogNext
  BY <1>7 DEF LogNext, txvc_log_configure, log_below_level, log_resolved, log_unconfigured, log_resolve,
     log_report_spec, log_done, LogStep
<1>8. CASE UNCHANGED vars
  BY <1>8 DEF vars
<1> QED BY <1>1, <1>2, <1>3, <1>4, <1>5, <1>6, <1>7, <1>8 DEF Next, Done, TxvcNext

-----------------------------------------------------------------------------
(* The inductive invariant.                                                *)

LogFields == {"gTagSpec", "gMinLevel", "gCurConfigId", "calls", "tags", "last"}

TagStates == [isEnabled : {Unresolved, "tag_enabled", "tag_disabled"}, curConfigId : Nat]

LogTypes ==
  /\ DOMAIN mem = LogFields
  /\ gCurConfigId \in Nat
  /\ gCurConfigId > 0 => gTagSpec \in Specs
  /\ tags \in [Tags -> TagStates]

(* What a tag has cached under the current configuration is what a scan of *)
(* the current spec would say; nothing is cached under an id that is still *)
(* to come.                                                                *)
CacheIsCurrent ==
  \A t \in Tags :
    /\ tags[t].curConfigId <= gCurConfigId
    /\ tags[t].curConfigId = 0 => tags[t].isEnabled = Unresolved
    /\ Cached(t) => (tags[t].isEnabled = "tag_enabled" <=> ScanSpec(gTagSpec, t) = 1)

(* The last message was decided by its level and by a scan of the spec.    *)
LastAsScanned ==
  pc = "running" /\ LastLog.tag # <<>> =>
    /\ LastLog.tag \in Tags
    /\ LastLog.level >= gMinLevel => gCurConfigId > 0
    /\ LastLog.printed <=> LastLog.level >= gMinLevel /\ ScanSpec(gTagSpec, LastLog.tag) = 1

(* Why a call did not return.                                              *)
KilledByReport ==
  pc \in {"aborted", "crashed"} =>
    \/ gCurConfigId = 0
    \/ LastLog.level = FATAL
    \/ \E t \in Tags : Reported(gTagSpec, t)

LogInv == prog = "log" => LogTypes /\ CacheIsCurrent /\ LastAsScanned /\ KilledByReport

LEMMA LogInitHolds ==
  ASSUME Init
  PROVE  LogInv
<1> SUFFICES ASSUME prog = "log" PROVE LogTypes /\ CacheIsCurrent /\ LastAsScanned /\ KilledByReport
  BY DEF LogInv
<1>1. LogInit
  BY OwnInits
<1> QED BY <1>1 DEF LogInit, Started, LogTypes, LogFields, TagStates, CacheIsCurrent, LastAsScanned,
           KilledByReport, gCurConfigId, gTagSpec, tags, Cached, LastLog, NotLogged, Unresolved

(* A call: what it changes, and that it counts itself.                     *)
LEMMA LogStepFields ==
  ASSUME NEW to, NEW changes, LogStep(to, changes), DOMAIN mem = LogFields,
         DOMAIN changes \subseteq LogFields \ {"calls"}
  PROVE  /\ pc = "running" /\ pc' = to /\ prog' = prog
         /\ DOMAIN mem' = LogFields
         /\ \A f \in LogFields \ {"calls"} : mem'[f] = IF f \in DOMAIN changes THEN changes[f] ELSE mem[f]
BY DEF LogStep, Step, Merge, LogFields

LEMMA ConfigureStep ==
  ASSUME LogTypes, CacheIsCurrent, NEW spec \in Specs, NEW minLevel, txvc_log_configure(spec, minLevel)
  PROVE  (LogTypes /\ CacheIsCurrent /\ LastAsScanned /\ KilledByReport)'
<1> DEFINE c == [gTagSpec |-> spec, gMinLevel |-> minLevel, last |-> NotLogged,
                 gCurConfigId |-> gCurConfigId + 1]
<1>1. /\ DOMAIN mem' = LogFields /\ pc' = "running"
      /\ \A f \in LogFields \ {"calls"} : mem'[f] = IF f \in DOMAIN c THEN c[f] ELSE mem[f]
  BY LogStepFields DEF txvc_log_configure, LogTypes, LogFields
<1>2. mem'.gTagSpec = spec /\ mem'.gCurConfigId = mem.gCurConfigId + 1 /\ mem'.tags = mem.tags
      /\ mem'.last = NotLogged
  BY <1>1 DEF LogFields, gCurConfigId
<1>3. LogTypes'
  BY <1>1, <1>2 DEF LogTypes, gCurConfigId, gTagSpec, tags
<1>4. CacheIsCurrent'
  BY <1>2 DEF LogTypes, CacheIsCurrent, Cached, gCurConfigId, gTagSpec, tags, TagStates
<1>5. LastAsScanned'
  BY <1>2 DEF LastAsScanned, LastLog, NotLogged
<1>6. KilledByReport'
  BY <1>1 DEF KilledByReport
<1> QED BY <1>3, <1>4, <1>5, <1>6

(* A message that leaves the spec and the tags alone.                      *)
LEMMA LoggedFields ==
  ASSUME LogTypes, NEW to, NEW tag, NEW level, NEW printed, LogStep(to, Logged(tag, level, printed))
  PROVE  /\ pc' = to
         /\ DOMAIN mem' = LogFields
         /\ mem'.gTagSpec = mem.gTagSpec /\ mem'.gMinLevel = mem.gMinLevel
         /\ mem'.gCurConfigId = mem.gCurConfigId /\ mem'.tags = mem.tags
         /\ mem'.last.tag = tag /\ mem'.last.level = level /\ mem'.last.printed = printed
<1> DEFINE c == Logged(tag, level, printed)
<1>1. DOMAIN c = {"last"} /\ c["last"] = [tag |-> tag, level |-> level, printed |-> printed]
  BY DEF Logged
<1>2. LogStep(to, c)
  OBVIOUS
<1> HIDE DEF c
<1>3. /\ DOMAIN mem' = LogFields /\ pc' = to
      /\ \A f \in LogFields \ {"calls"} : mem'[f] = IF f \in DOMAIN c THEN c[f] ELSE mem[f]
  BY <1>1, <1>2, LogStepFields DEF LogTypes, LogFields
<1> QED BY <1>1, <1>3 DEF LogFields

LEMMA QuietStep ==
  ASSUME LogTypes, CacheIsCurrent, NEW tag \in Tags, NEW level,
         \/ log_below_level(tag, level) \/ log_resolved(tag, level)
         \/ log_unconfigured(tag, level) \/ log_report_spec(tag, level)
  PROVE  (LogTypes /\ CacheIsCurrent /\ LastAsScanned /\ KilledByReport)'
<1> USE DEF gCurConfigId, gTagSpec, tags, gMinLevel, LastLog
<1>1. PICK to, printed : LogStep(to, Logged(tag, level, printed))
  BY Zenon DEF log_below_level, log_resolved, log_unconfigured, log_report_spec
<1>2. LogTypes' /\ CacheIsCurrent'
  BY <1>1, LoggedFields DEF LogTypes, CacheIsCurrent, Cached
<1>3. CASE log_below_level(tag, level)
  <2>1. ~(gMinLevel <= level) /\ LogStep("running", Logged(tag, level, FALSE))
    BY <1>3 DEF log_below_level, txvc_log_level_enabled
  <2>2. pc' = "running" /\ mem'.last.printed = FALSE /\ mem'.last.tag = tag /\ mem'.last.level = level
        /\ mem'.gMinLevel = mem.gMinLevel
    BY <2>1, LoggedFields
  <2>3. LastAsScanned' /\ KilledByReport'
    BY <2>1, <2>2 DEF LastAsScanned, KilledByReport
  <2> QED BY <1>2, <2>3
<1>4. CASE log_resolved(tag, level)
  <2> DEFINE p == tags[tag].isEnabled = "tag_enabled" \/ level = FATAL
  <2>1. gMinLevel <= level /\ Cached(tag) /\ LogStep(AfterMessage(level), Logged(tag, level, p))
    BY <1>4 DEF log_resolved, txvc_log_level_enabled
  <2>2. /\ mem'.last.printed = p /\ mem'.last.tag = tag /\ mem'.last.level = level
        /\ pc' = AfterMessage(level)
        /\ mem'.gMinLevel = mem.gMinLevel /\ mem'.gTagSpec = mem.gTagSpec
        /\ mem'.gCurConfigId = mem.gCurConfigId
    <3> HIDE DEF p
    <3> QED BY <2>1, LoggedFields
  <2>3. tags[tag].isEnabled = "tag_enabled" <=> ScanSpec(gTagSpec, tag) = 1
    BY <2>1 DEF CacheIsCurrent
  <2>4. gCurConfigId > 0
    BY <2>1 DEF CacheIsCurrent, Cached, LogTypes
  <2>5. LastAsScanned'
    BY <2>1, <2>2, <2>3, <2>4 DEF LastAsScanned, AfterMessage
  <2>6. KilledByReport'
    BY <2>2 DEF KilledByReport, AfterMessage
  <2> QED BY <1>2, <2>5, <2>6
<1>5. CASE log_unconfigured(tag, level)
  <2>1. gCurConfigId = 0 /\ LogStep("crashed", Logged(tag, level, FALSE))
    BY <1>5 DEF log_unconfigured
  <2>2. pc' = "crashed" /\ mem'.gCurConfigId = 0
    BY <2>1, LoggedFields
  <2> QED BY <1>2, <2>2 DEF LastAsScanned, KilledByReport
<1>6. CASE log_report_spec(tag, level)
  <2>1. Reported(gTagSpec, tag) /\ LogStep(ReportEnd(gTagSpec), Logged(tag, level, FALSE))
    BY <1>6 DEF log_report_spec
  <2>2. pc' = ReportEnd(gTagSpec) /\ mem'.gTagSpec = mem.gTagSpec
    BY <2>1, LoggedFields
  <2>5. pc' # "running"
    BY <2>2 DEF ReportEnd
  <2>3. LastAsScanned'
    BY <2>5 DEF LastAsScanned
  <2>4. KilledByReport'
    BY <2>1, <2>2 DEF KilledByReport
  <2> QED BY <1>2, <2>3, <2>4
<1> QED BY <1>3, <1>4, <1>5, <1>6

(* The first message of a tag under a configuration: its decision is       *)
(* cached.                                                                 *)
LEMMA ResolveStep ==
  ASSUME LogTypes, CacheIsCurrent, NEW tag \in Tags, NEW level, log_resolve(tag, level)
  PROVE  (LogTypes /\ CacheIsCurrent /\ LastAsScanned /\ KilledByReport)'
<1> USE DEF gCurConfigId, gTagSpec, tags, gMinLevel, LastLog
<1> DEFINE enabled == ScanSpec(gTagSpec, tag) = 1
           state == [isEnabled |-> IF enabled THEN "tag_enabled" ELSE "tag_disabled",
                     curConfigId |-> gCurConfigId]
           new == [tags |-> [tags EXCEPT ![tag] = state]]
           p == enabled \/ level = FATAL
           said == Logged(tag, level, p)
           c == Merge(new, said)
<1>1. gMinLevel <= level /\ gCurConfigId > 0 /\ LogStep(AfterMessage(level), c)
  BY DEF log_resolve, txvc_log_level_enabled
<1>2. /\ DOMAIN c = {"tags", "last"} /\ c["tags"] = [tags EXCEPT ![tag] = state]
      /\ c["last"] = [tag |-> tag, level |-> level, printed |-> p]
  <2> HIDE DEF state, enabled, p
  <2> QED BY DEF Merge, Logged
<1> HIDE DEF c
<1>3. /\ DOMAIN mem' = LogFields /\ pc' = AfterMessage(level)
      /\ \A f \in LogFields \ {"calls"} : mem'[f] = IF f \in DOMAIN c THEN c[f] ELSE mem[f]
  BY <1>1, <1>2, LogStepFields DEF LogTypes, LogFields
<1>4. /\ mem'.gTagSpec = mem.gTagSpec /\ mem'.gMinLevel = mem.gMinLevel
      /\ mem'.gCurConfigId = mem.gCurConfigId
      /\ mem'.tags = [mem.tags EXCEPT ![tag] = state]
      /\ mem'.last = [tag |-> tag, level |-> level, printed |-> p]
  <2> HIDE DEF state, enabled, p
  <2> QED BY <1>2, <1>3 DEF LogFields
<1>5. LogTypes'
  <2>1. state \in TagStates
    BY DEF TagStates, LogTypes
  <2> QED BY <1>3, <1>4, <2>1 DEF LogTypes
<1>6. CacheIsCurrent'
  <2> SUFFICES ASSUME NEW t \in Tags
               PROVE  /\ mem'.tags[t].curConfigId <= mem.gCurConfigId
                      /\ mem'.tags[t].curConfigId = 0 => mem'.tags[t].isEnabled = Unresolved
                      /\ mem'.tags[t].curConfigId = mem.gCurConfigId /\ mem'.tags[t].isEnabled # Unresolved
                         => (mem'.tags[t].isEnabled = "tag_enabled" <=> ScanSpec(mem.gTagSpec, t) = 1)
    BY <1>4 DEF CacheIsCurrent, Cached
  <2>1. CASE t = tag
    <3>1. mem'.tags[t] = state
      BY <1>4, <2>1 DEF LogTypes
    <3> QED BY <1>1, <2>1, <3>1 DEF LogTypes
  <2>2. CASE t # tag
    <3>1. mem'.tags[t] = mem.tags[t]
      BY <1>4, <2>2 DEF LogTypes
    <3> QED BY <3>1 DEF CacheIsCurrent, Cached
  <2> QED BY <2>1, <2>2
<1>7. LastAsScanned'
  <2>1. mem'.last.tag = tag /\ mem'.last.level = level /\ mem'.last.printed = p
    <3> HIDE DEF p
    <3> QED BY <1>4
  <2>2. pc' = "running" => (mem'.last.printed <=> ScanSpec(gTagSpec, tag) = 1)
    BY <1>3, <2>1 DEF AfterMessage
  <2> QED BY <1>1, <1>4, <2>1, <2>2 DEF LastAsScanned
<1>8. KilledByReport'
  BY <1>3, <1>4 DEF KilledByReport, AfterMessage
<1> QED BY <1>5, <1>6, <1>7, <1>8

LEMMA DoneStep ==
  ASSUME LogTypes, CacheIsCurrent, log_done
  PROVE  (LogTypes /\ CacheIsCurrent /\ LastAsScanned /\ KilledByReport)'
<1>1. pc' = "exit" /\ \A f \in LogFields : mem'[f] = mem[f]
  BY DEF log_done, Step, Merge, Nothing, LogTypes
<1>2. DOMAIN mem' = LogFields
  BY DEF log_done, Step, Merge, Nothing, LogTypes
<1> QED BY <1>1, <1>2 DEF LogTypes, CacheIsCurrent, LastAsScanned, KilledByReport, Cached, gCurConfigId,
           gTagSpec, tags, LogFields

LEMMA LogInvStep ==
  ASSUME LogInv, [Next]_vars
  PROVE  LogInv'
<1> SUFFICES ASSUME prog' = "log"
             PROVE  (LogTypes /\ CacheIsCurrent /\ LastAsScanned /\ KilledByReport)'
  BY DEF LogInv
<1>1. prog = "log"
  BY SameProgram
<1>2. LogTypes /\ CacheIsCurrent /\ LastAsScanned /\ KilledByReport
  BY <1>1 DEF LogInv
<1>3. CASE LogNext
  BY <1>2, <1>3, ConfigureStep, QuietStep, ResolveStep, DoneStep DEF LogNext
<1>4. CASE UNCHANGED vars
  <2>1. pc' = pc /\ mem' = mem
    BY <1>4 DEF vars
  <2> QED BY <1>2, <2>1 DEF LogTypes, CacheIsCurrent, LastAsScanned, KilledByReport, Cached, gCurConfigId,
             gTagSpec, tags, gMinLevel, LastLog
<1> QED BY <1>1, <1>3, <1>4, OwnSteps

-----------------------------------------------------------------------------
(* What the scan finds.                                                    *)

(* The scan enables a tag if and only if the last entry about it does, for *)
(* specs whose names are no abbreviations.                                 *)
LEMMA ScanIsLastEntry ==
  ASSUME NEW spec \in Specs, NEW tag, ~Abbreviates(spec, tag)
  PROVE  ScanSpec(spec, tag) = 1 <=>
           \E i \in Entries(spec, tag) : spec.items[i].res = "+" /\ \A j \in Entries(spec, tag) : j <= i
<1> DEFINE E == Entries(spec, tag)
<1>1. Hits(spec, tag) = E
  BY DEF Abbreviates
<1>2. spec.items \in Seq([name : Seq(STRING), res : {"+", "-"}])
  BY LogAssumption
<1>3. E \in SUBSET Nat /\ Len(spec.items) \in Nat /\ \A i \in E : i <= Len(spec.items)
  BY <1>2 DEF Entries
<1> HIDE DEF E
<1>4. CASE E = {}
  BY <1>1, <1>4 DEF ScanSpec, E
<1>5. CASE E # {}
  <2>1. PICK n \in E : \A m \in E : n >= m
    BY <1>3, <1>5, NatMaximum
  <2>2. Max(E) \in E /\ \A m \in E : Max(E) >= m
    BY <2>1 DEF Max
  <2>3. ASSUME NEW i \in E, \A j \in E : j <= i PROVE i = Max(E)
    <3>1. i \in Nat /\ Max(E) \in Nat
      BY <1>3, <2>2
    <3>2. Max(E) <= i /\ i <= Max(E)
      BY <2>2, <2>3, <3>1
    <3> HIDE DEF E
    <3> QED BY <3>1, <3>2
  <2>4. ScanSpec(spec, tag) = 1 <=> spec.items[Max(E)].res = "+"
    BY <1>1, <1>5 DEF ScanSpec
  <2>5. (\E i \in E : spec.items[i].res = "+" /\ \A j \in E : j <= i) <=> spec.items[Max(E)].res = "+"
    BY <1>3, <2>2, <2>3
  <2> QED BY <2>4, <2>5 DEF E
<1> QED BY <1>4, <1>5

(* An entry for all tags is found for every tag.                           *)
LEMMA AllIsFound ==
  ASSUME NEW spec, NEW tag, NEW i \in DOMAIN spec.items, spec.items[i].name = All
  PROVE  ScanSpec(spec, tag) # -1
<1>1. IsPrefix(All, All) /\ All # <<>>
  BY DEF IsPrefix, All
<1>2. i \in Hits(spec, tag)
  BY <1>1 DEF Hits, NameMatches
<1> QED BY <1>2 DEF ScanSpec

(* The configured decision is the printed one: DecisionFollowsSpec is an   *)
(* invariant of the logger (log.c:61 and :95) for any tags, specs and      *)
(* number of calls.                                                        *)
THEOREM DecisionsAreCurrent == Spec => []DecisionFollowsSpec
<1>1. Init => LogInv
  BY LogInitHolds
<1>2. LogInv /\ [Next]_vars => LogInv'
  BY LogInvStep
<1>3. LogInv => DecisionFollowsSpec
  <2> SUFFICES ASSUME LogInv, prog = "log", pc = "running", LastLog.tag # <<>>,
                      ~Abbreviates(gTagSpec, LastLog.tag)
               PROVE  LastLog.printed <=>
                        /\ LastLog.level >= gMinLevel
                        /\ \E i \in Entries(gTagSpec, LastLog.tag) :
                             /\ gTagSpec.items[i].res = "+"
                             /\ \A j \in Entries(gTagSpec, LastLog.tag) : j <= i
    BY DEF DecisionFollowsSpec
  <2>1. /\ LastLog.level >= gMinLevel => gTagSpec \in Specs
        /\ LastLog.printed <=> LastLog.level >= gMinLevel /\ ScanSpec(gTagSpec, LastLog.tag) = 1
    BY DEF LogInv, LastAsScanned, LogTypes
  <2>2. CASE LastLog.level >= gMinLevel
    BY <2>1, <2>2, ScanIsLastEntry
  <2>3. CASE ~(LastLog.level >= gMinLevel)
    BY <2>1, <2>3
  <2> QED BY <2>2, <2>3
<1> QED BY <1>1, <1>2, <1>3, PTL DEF Spec

(* A complete spec never ends the process, CompleteSpecNeverKills, whoever *)
(* logs what and when (log.c:74).                                          *)
THEOREM CompleteSpecsAreSafe == Spec => []CompleteSpecNeverKills
<1>1. Init => LogInv
  BY LogInitHolds
<1>2. LogInv /\ [Next]_vars => LogInv'
  BY LogInvStep
<1>3. LogInv => CompleteSpecNeverKills
  <2> SUFFICES ASSUME LogInv, prog = "log", pc \in {"aborted", "crashed"},
                      gCurConfigId # 0, LastLog.level # FATAL, gTagSpec.rest = <<>>,
                      NEW i \in DOMAIN gTagSpec.items, gTagSpec.items[i].name = All
               PROVE  FALSE
    BY DEF CompleteSpecNeverKills
  <2>1. PICK t \in Tags : Reported(gTagSpec, t)
    BY DEF LogInv, KilledByReport
  <2>2. ScanSpec(gTagSpec, t) # -1
    BY AllIsFound
  <2> QED BY <2>1, <2>2 DEF Reported
<1> QED BY <1>1, <1>2, <1>3, PTL DEF Spec
=============================================================================
