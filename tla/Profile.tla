------------------------------- MODULE Profile -------------------------------
(***************************************************************************)
(* From the text of a hardware profile to the parameters of the FTDI       *)
(* driver: libtxvc/profile.c, the aliases of txvc/alias.c, and             *)
(* load_config() of libdrivers/ftdi_generic.c.  A text is a sequence of    *)
(* tokens: ":", ",", "=" and the words between them.                       *)
(***************************************************************************)
EXTENDS Log

CONSTANTS
  ScratchpadSz,   \* sizeof(out->privateScratchpad), in tokens
  MaxArgs,        \* 32 in the code
  UsbIds,         \* words that str_to_usb_id() takes
  Latencies       \* words that str_to_ftdi_latency() takes
ASSUME ProfileAssumption ==
  UsbIds \cap {"0", "-1"} = {} /\ Latencies \cap {"-1", "nothing"} = {}

(* The components' log tags, by their first letters. *)
TagTxvc     == <<"t", "x">>
TagProfile  == <<"p", "r">>
TagFtdi     == <<"f", "t">>
TagServer   == <<"s", "e">>
TagSplitter == <<"j", "t">>
TagMempool  == <<"m", "e">>

(* A message of the program: where it goes on, if the spec lets it. *)
Says(tag, next) == IF Reported(input.spec, tag) THEN ReportEnd(input.spec) ELSE next

Goto(from, to) == Step("txvc", from, to, Nothing)
Fail(from, to) == Step("txvc", from, to, [status |-> "EXIT_FAILURE"])

-----------------------------------------------------------------------------
(* txvc/alias.c and aliases_registry.inc *)

Arg(key, value) == <<key, "=", value, ",">>

Alias(device, vid, pid, channel, outs) ==
  <<"ftdi-generic", ":">> \o Arg("device", device) \o Arg("vid", vid) \o Arg("pid", pid)
  \o Arg("channel", channel) \o Arg("read_latency_millis", "1")
  \o Arg("d4", "ignored") \o Arg("d5", "ignored") \o Arg("d6", outs) \o Arg("d7", outs)

gAliases ==
  [ ft232h        |-> Alias("ft232h",  "0403", "6014", "A", "ignored"),
    mimas_a7      |-> Alias("ft2232h", "2a19", "1009", "B", "driver_low"),
    mimas_a7_mini |-> Alias("ft2232h", "2a19", "100E", "B", "driver_low"),
    narvi         |-> Alias("ft2232h", "2a19", "100D", "B", "driver_low") ]

IsAlias(text) == Len(text) = 1 /\ text[1] \in DOMAIN gAliases

-----------------------------------------------------------------------------
(* txvc_backend_profile_parse() *)

text   == mem.profile
cur    == mem.cur
args   == mem.args
params == mem.params

(* The place of the first c at or behind i, 0 for NULL. *)
strchr(s, i, c) ==
  LET at == {j \in i..Len(s) : s[j] = c} IN IF at = {} THEN 0 ELSE Min(at)

parse_too_long ==
  /\ prog = "txvc" /\ pc = "parse" /\ Len(text) > ScratchpadSz - 1
  /\ Fail("parse", Says(TagProfile, "exit"))

parse_driver_name ==
  /\ prog = "txvc" /\ pc = "parse" /\ Len(text) <= ScratchpadSz - 1
  /\ \E colon \in {strchr(text, 1, ":")} :
       Step("txvc", "parse", "arg",
            [ driverName |-> IF colon = 0 THEN text ELSE SubSeq(text, 1, colon - 1),
              cur |-> IF colon = 0 THEN 0 ELSE colon + 1 ])

AtArg == prog = "txvc" /\ pc = "arg" /\ cur # 0 /\ cur <= Len(text)

parse_too_many ==
  /\ AtArg /\ Len(args) >= MaxArgs
  /\ Fail("arg", Says(TagProfile, "exit"))

(* Mutant: the separator of key and value is looked for in all that is left. *)
parse_arg_unbounded ==
  /\ AtArg /\ Len(args) < MaxArgs
  /\ \E comma \in {strchr(text, cur, ",")}, eq \in {strchr(text, cur, "=")} :
     \E last \in {IF comma = 0 THEN Len(text) ELSE comma - 1} :
       Step("txvc", "arg", "arg",
            [ cur  |-> IF comma = 0 THEN 0 ELSE comma + 1,
              args |-> Append(args, [ key   |-> SubSeq(text, cur, IF eq = 0 THEN last ELSE eq - 1),
                                      value |-> IF eq = 0 THEN <<>> ELSE SubSeq(text, eq + 1, last) ]) ])

(* One argument, up to the next comma; "" is the value if it has no "=".   *)
parse_arg ==
  /\ AtArg /\ Len(args) < MaxArgs
  /\ \E comma \in {strchr(text, cur, ",")} :
     \E last \in {IF comma = 0 THEN Len(text) ELSE comma - 1} :
     \E eq \in {strchr(SubSeq(text, 1, last), cur, "=")} :
       Step("txvc", "arg", "arg",
            [ cur  |-> IF comma = 0 THEN 0 ELSE comma + 1,
              args |-> Append(args, [ key   |-> SubSeq(text, cur, IF eq = 0 THEN last ELSE eq - 1),
                                      value |-> IF eq = 0 THEN <<>> ELSE SubSeq(text, eq + 1, last) ]) ])

parse_done ==
  /\ prog = "txvc" /\ pc = "arg" /\ (cur = 0 \/ cur > Len(text))
  /\ Goto("arg", "find_driver")

-----------------------------------------------------------------------------
(* load_config() of the FTDI driver *)

Pins == [d4 |-> 4, d5 |-> 5, d6 |-> 6, d7 |-> 7]

ParamNames == {"device", "vid", "pid", "channel", "read_latency_millis"} \cup DOMAIN Pins

Defaults ==
  [ p \in ParamNames |-> CASE p = "device" -> "FT_DEVICE_UNKNOWN"
                           [] p \in {"vid", "pid"} -> "0"
                           [] p = "channel" -> "?"
                           [] p = "read_latency_millis" -> "16"
                           [] p \in DOMAIN Pins -> "PIN_ROLE_INVALID" ]

(* The words each converter takes. *)
Accepted(p) ==
  CASE p = "device" -> {"ft2232h", "ft232h"}
    [] p \in {"vid", "pid"} -> UsbIds
    [] p = "channel" -> {"A", "B"}
    [] p = "read_latency_millis" -> Latencies
    [] p \in DOMAIN Pins -> {"driver_low", "driver_high", "ignored"}

(* What a converter returns for anything else. *)
Refused(p) ==
  CASE p \in {"device", "vid", "pid", "read_latency_millis"} -> "-1"
    [] p = "channel" -> "?"
    [] p \in DOMAIN Pins -> "PIN_ROLE_INVALID"

Converted(p, value) ==
  CASE Len(value) = 1 /\ value[1] \in Accepted(p) -> value[1]
    [] p = "read_latency_millis" /\ value = <<>> -> "16"
    [] OTHER -> Refused(p)

(* The validations: an unknown device name, -1, passes the first one.      *)
Valid(p, v) ==
  \/ p = "device" /\ v # "FT_DEVICE_UNKNOWN"
  \/ p = "read_latency_millis" /\ v = "16"
  \/ v \in Accepted(p)

IsParam(key) == Len(key) = 1 /\ key[1] \in ParamNames

ftdi_load_arg ==
  /\ prog = "txvc" /\ pc = "load_config" /\ mem.loaded < Len(args)
  /\ \E arg \in {args[mem.loaded + 1]} :
       IF IsParam(arg.key)
         THEN Step("txvc", "load_config", "load_config",
                   [ params |-> [params EXCEPT ![arg.key[1]] = Converted(arg.key[1], arg.value)],
                     loaded |-> mem.loaded + 1 ])
         ELSE Step("txvc", "load_config", Says(TagFtdi, "load_config"), [loaded |-> mem.loaded + 1])

AllValid == \A p \in ParamNames : Valid(p, params[p])

(* The check of the channel that the switch over the chips makes, too.     *)
ChipTakesChannel ==
  \/ params["device"] = "ft2232h" /\ params["channel"] \in {"A", "B"}
  \/ params["device"] = "ft232h" /\ params["channel"] = "A"

ftdi_validate ==
  /\ prog = "txvc" /\ pc = "load_config" /\ mem.loaded = Len(args)
  /\ Goto("load_config",
          IF AllValid /\ ChipTakesChannel THEN "FT_GetLibraryVersion" ELSE Says(TagFtdi, "bail_noop"))

(* Levels and directions of the pins that the chip is set up with.         *)
setupCmds ==
  [ high |-> {3} \cup {Pins[p] : p \in {q \in DOMAIN Pins : params[q] = "driver_high"}},
    out  |-> {0, 1, 3} \cup {Pins[p] : p \in {q \in DOMAIN Pins : params[q] # "ignored"}} ]

ProfileNext ==
  \/ parse_too_long \/ parse_driver_name \/ parse_too_many \/ parse_arg \/ parse_done
  \/ ftdi_load_arg \/ ftdi_validate
=============================================================================
