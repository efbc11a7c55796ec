--------------------------------- MODULE Log ---------------------------------
(***************************************************************************)
(* libtxvc/log.c: a tag is resolved by a scan of the tag spec when it is   *)
(* first used, and again after each txvc_log_configure(); in between the   *)
(* decision is cached in the tag.  A report about the spec itself is       *)
(* logged with a tag that has to be resolved, too.                         *)
(*                                                                         *)
(* A name is a sequence of letters, since the code compares prefixes.  A   *)
(* spec is [items, rest]: names with their resolution, "+" or "-", and the *)
(* letters behind the last resolution.                                     *)
(***************************************************************************)
EXTENDS Process

CONSTANTS
  Tags,          \* names of the program's tags
  Specs,         \* tag specs
  MaxLogCalls    \* bound: calls of the library
ASSUME LogAssumption ==
  /\ Tags \subseteq Seq(STRING) \ {<<>>}
  /\ \A s \in Specs : s.items \in Seq([name : Seq(STRING), res : {"+", "-"}])

NotLogged == [tag |-> <<>>, level |-> 0, printed |-> FALSE]

NoSpec == [items |-> <<>>, rest |-> <<>>]      \* gTagSpec is NULL
All    == <<"a", "l", "l">>
Logger == <<"l", "o", "g">>                    \* "logger"

(* enum txvc_log_level *)
VERBOSE == 0
INFO    == 1
ERROR   == 3
FATAL   == 4

-----------------------------------------------------------------------------
(* The scan.                                                               *)

(* Mutant: "all" is a tag like any other. *)
NameMatches_no_all(name, tag) == name # <<>> /\ IsPrefix(name, tag)

(* strncmp() over the length of the name *)
NameMatches(name, tag) == name # <<>> /\ (IsPrefix(name, tag) \/ IsPrefix(name, All))

Hits(spec, tag) == {i \in DOMAIN spec.items : NameMatches(spec.items[i].name, tag)}

(* -1, 0 or 1 as in the code: the last name that matches decides. *)
ScanSpec(spec, tag) ==
  IF Hits(spec, tag) = {} THEN -1
  ELSE IF spec.items[Max(Hits(spec, tag))].res = "+" THEN 1 ELSE 0

(* The spec is reported: text without a resolution, or nothing for the tag. *)
Reported(spec, tag) == spec.rest # <<>> \/ ScanSpec(spec, tag) = -1

(* How the process ends when the spec is reported for a tag: the report is *)
(* a FATAL message, but its own tag is resolved first, by the same scan,   *)
(* and reports again, until the stack is used up.                          *)
ReportEnd(spec) == IF Reported(spec, Logger) THEN "crashed" ELSE "aborted"

-----------------------------------------------------------------------------
gTagSpec     == mem.gTagSpec
gMinLevel    == mem.gMinLevel
gCurConfigId == mem.gCurConfigId
tags         == mem.tags       \* the tags' isEnabled and curConfigId

Unresolved == "txvc_log_tag_enabled"

LogInit ==
  Started("log", <<>>, "running",
          [ gTagSpec |-> NoSpec, gMinLevel |-> ERROR, gCurConfigId |-> 0, calls |-> 0,
            tags |-> [t \in Tags |-> [isEnabled |-> Unresolved, curConfigId |-> 0]],
            last |-> NotLogged ])

Calls == prog = "log" /\ mem.calls < MaxLogCalls

LogStep(to, changes) == Calls /\ Step("log", "running", to, Merge(changes, [calls |-> mem.calls + 1]))

(* Mutant: the tags are not told of the new spec. *)
txvc_log_configure_same_id(spec, minLevel) ==
  LogStep("running", [gTagSpec |-> spec, gMinLevel |-> minLevel, last |-> NotLogged,
                      gCurConfigId |-> IF gCurConfigId = 0 THEN 1 ELSE gCurConfigId])

txvc_log_configure(spec, minLevel) ==
  LogStep("running", [gTagSpec |-> spec, gMinLevel |-> minLevel, last |-> NotLogged,
                      gCurConfigId |-> gCurConfigId + 1])

txvc_log_level_enabled(level) == gMinLevel <= level

Logged(tag, level, printed) == [last |-> [tag |-> tag, level |-> level, printed |-> printed]]

(* After a message: FATAL ones are printed whatever the tag says, and end  *)
(* the process.                                                            *)
AfterMessage(level) == IF level = FATAL THEN "aborted" ELSE "running"

log_below_level(tag, level) ==
  /\ Calls /\ ~txvc_log_level_enabled(level)
  /\ LogStep("running", Logged(tag, level, FALSE))

Cached(tag) == tags[tag].curConfigId = gCurConfigId /\ tags[tag].isEnabled # Unresolved

log_resolved(tag, level) ==
  /\ Calls /\ txvc_log_level_enabled(level) /\ Cached(tag)
  /\ LogStep(AfterMessage(level),
             Logged(tag, level, tags[tag].isEnabled = "tag_enabled" \/ level = FATAL))

(* The scan starts at NULL. *)
log_unconfigured(tag, level) ==
  /\ Calls /\ txvc_log_level_enabled(level) /\ ~Cached(tag) /\ gCurConfigId = 0
  /\ LogStep("crashed", Logged(tag, level, FALSE))

log_resolve(tag, level) ==
  /\ Calls /\ txvc_log_level_enabled(level) /\ ~Cached(tag) /\ gCurConfigId > 0 /\ ~Reported(gTagSpec, tag)
  /\ \E enabled \in {ScanSpec(gTagSpec, tag) = 1} :
       LogStep(AfterMessage(level),
         Merge([ tags |-> [tags EXCEPT ![tag] = [isEnabled |-> IF enabled THEN "tag_enabled" ELSE "tag_disabled",
                                                 curConfigId |-> gCurConfigId]] ],
               Logged(tag, level, enabled \/ level = FATAL)))

log_report_spec(tag, level) ==
  /\ Calls /\ txvc_log_level_enabled(level) /\ ~Cached(tag) /\ gCurConfigId > 0 /\ Reported(gTagSpec, tag)
  /\ LogStep(ReportEnd(gTagSpec), Logged(tag, level, FALSE))

(* The program has no more to log. *)
log_done == prog = "log" /\ mem.calls = MaxLogCalls /\ Step("log", "running", "exit", Nothing)

LogNext ==
  \/ \E spec \in Specs, minLevel \in {VERBOSE, ERROR} : txvc_log_configure(spec, minLevel)
  \/ \E tag \in Tags, level \in {INFO, ERROR, FATAL} :
       \/ log_below_level(tag, level) \/ log_resolved(tag, level) \/ log_unconfigured(tag, level)
       \/ log_resolve(tag, level) \/ log_report_spec(tag, level)
  \/ log_done

-----------------------------------------------------------------------------
(* Properties.                                                             *)

(* The entries of a spec that are about a tag, as the help text has it: "a *)
(* sequence of tags names where each name is followed by '+' to enable or  *)
(* '-' to disable it", or all (txvc.c:50).                                 *)
Entries(spec, tag) == {i \in DOMAIN spec.items : spec.items[i].name \in {tag, All}}

(* The spec holds something that is no more than the beginning of a name. *)
Abbreviates(spec, tag) == Hits(spec, tag) # Entries(spec, tag)

LastLog == mem.last

(***************************************************************************)
(* A message is printed if and only if its level is, and its tag is by the *)
(* spec that is configured last: a decision that was cached under an       *)
(* earlier configuration is not used, however configurations and messages  *)
(* of several tags alternate.  Names that abbreviate others are left out.  *)
(***************************************************************************)
DecisionFollowsSpec ==
  prog = "log" /\ pc = "running" /\ LastLog.tag # <<>> /\ ~Abbreviates(gTagSpec, LastLog.tag) =>
    LET spec == gTagSpec
        mine == Entries(spec, LastLog.tag)
    IN  LastLog.printed <=>
          /\ LastLog.level >= gMinLevel
          /\ \E i \in mine : spec.items[i].res = "+" /\ \A j \in mine : j <= i

(***************************************************************************)
(* Logging itself ends the process only if nothing was configured yet, the *)
(* message is FATAL, or the spec is incomplete: a spec without loose text  *)
(* that says anything about all tags is safe for every message of every    *)
(* tag, in any order.                                                      *)
(***************************************************************************)
CompleteSpecNeverKills ==
  prog = "log" /\ pc \in {"aborted", "crashed"} =>
    \/ gCurConfigId = 0
    \/ LastLog.level = FATAL
    \/ gTagSpec.rest # <<>>
    \/ \A i \in DOMAIN gTagSpec.items : gTagSpec.items[i].name # All
=============================================================================
