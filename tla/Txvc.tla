-------------------------------- MODULE Txvc --------------------------------
(***************************************************************************)
(* The life of the txvc process: main() of txvc/txvc.c with the driver's   *)
(* activate() and deactivate() (libdrivers/ftdi_generic.c and echo.c).     *)
(* Every D2XX call may fail, the process may run out of memory, and a      *)
(* message may end it.  Serving clients is one step here: Server.tla has   *)
(* its detail.                                                             *)
(***************************************************************************)
EXTENDS Profile, TckPeriod

CONSTANTS
  Launches      \* how the process is started, see TxvcInit
ASSUME TxvcAssumption ==
  \A l \in Launches :
    /\ l.root \in BOOLEAN
    /\ Len(l.options) \in Nat
    /\ \A i \in 1..Len(l.options) :
         /\ l.options[i].opt \in {"p", "t", "h", "D", "A", "?"}
         /\ l.options[i].opt = "p" => l.options[i].arg \in Seq(STRING)
         /\ l.options[i].opt = "t" => l.options[i].arg \in Seq(MinInt..MaxInt)
    /\ l.devices \in Seq(Seq(STRING))

MaxDevices == 4         \* elements of connectedDevices

config  == mem.config
devices == input.devices

DefaultConfig ==
  [help |-> FALSE, helpDrivers |-> FALSE, helpAliases |-> FALSE, profile |-> <<>>, tckPeriodNanos |-> 0]

(* l.options are the command line's, the argument of -t a sequence of the  *)
(* number it is, if any; l.operand: there is one more word; l.spec is      *)
(* the environment's TXVC_LOG_SPEC; l.devices are the serial numbers that  *)
(* D2XX lists, as sequences that end in the channel's letter, or empty.    *)
TxvcInit ==
  \E l \in Launches :
    Started("txvc", l, "main",
            [ config |-> DefaultConfig, parsed |-> 0,
              profile |-> <<>>, driverName |-> <<>>, cur |-> 0, args |-> <<>>,
              params |-> Defaults, loaded |-> 0,
              lastStatus |-> "FT_OK", overrun |-> FALSE, selected |-> 0, opened |-> 0,
              handle |-> FALSE, mode |-> "unknown", bitModeFailed |-> FALSE, pools |-> 0,
              setup |-> [high |-> {}, out |-> {}], active |-> FALSE, fatal |-> FALSE, status |-> "none" ])

-----------------------------------------------------------------------------
(* main(), up to the profile *)

main_root == prog = "txvc" /\ pc = "main" /\ input.root /\ Fail("main", "exit")

main_begin == prog = "txvc" /\ pc = "main" /\ ~input.root /\ Goto("main", "getopt")

Parsing == prog = "txvc" /\ pc = "getopt" /\ mem.parsed < Len(input.options)

getopt_bad == Parsing /\ input.options[mem.parsed + 1].opt = "?" /\ Fail("getopt", "exit")

parse_int(word) == IF word = <<>> THEN MinInt ELSE word[1]

(* A flag, or the last argument of an option. *)
getopt_option ==
  /\ Parsing
  /\ \E o \in {input.options[mem.parsed + 1]} :
       /\ o.opt # "?"
       /\ Step("txvc", "getopt", "getopt",
               [ parsed |-> mem.parsed + 1,
                 config |-> CASE o.opt = "p" -> [config EXCEPT !.profile = o.arg]
                              [] o.opt = "t" -> [config EXCEPT !.tckPeriodNanos = parse_int(o.arg)]
                              [] o.opt = "h" -> [config EXCEPT !.help = TRUE]
                              [] o.opt = "D" -> [config EXCEPT !.helpDrivers = TRUE]
                              [] o.opt = "A" -> [config EXCEPT !.helpAliases = TRUE] ])

getopt_done ==
  /\ prog = "txvc" /\ pc = "getopt" /\ mem.parsed = Len(input.options)
  /\ IF input.operand THEN Fail("getopt", "exit") ELSE Goto("getopt", "help")

(* Whether it printed anything. *)
print_help == config.help \/ config.helpDrivers \/ config.helpAliases

main_help ==
  /\ prog = "txvc" /\ pc = "help"
  /\ \/ print_help /\ Step("txvc", "help", "exit", [status |-> "EXIT_SUCCESS"])
     \/ ~print_help /\ Goto("help", "profile")

(* The logger is configured; an alias is replaced, which is logged.        *)
main_profile ==
  /\ prog = "txvc" /\ pc = "profile"
  /\ \/ config.profile = <<>> /\ Fail("profile", "exit")
     \/ /\ IsAlias(config.profile)
        /\ Step("txvc", "profile", Says(TagTxvc, "tck"), [profile |-> gAliases[config.profile[1]]])
     \/ /\ config.profile # <<>> /\ ~IsAlias(config.profile)
        /\ Step("txvc", "profile", "tck", [profile |-> config.profile])

main_tck ==
  /\ prog = "txvc" /\ pc = "tck"
  /\ \/ config.tckPeriodNanos < 0 /\ Fail("tck", "exit")
     \/ config.tckPeriodNanos >= 0 /\ Goto("tck", "parse")

(* txvc_enumerate_drivers() over gDrivers, and the driver's activate().    *)
find_driver ==
  /\ prog = "txvc" /\ pc = "find_driver"
  /\ \/ mem.driverName = <<"echo">> /\ Step("txvc", "find_driver", "wrapper_setup", [active |-> TRUE])
     \/ mem.driverName = <<"ftdi-generic">> /\ Goto("find_driver", "load_config")
     \/ /\ mem.driverName \notin {<<"echo">>, <<"ftdi-generic">>}
        /\ Fail("find_driver", Says(TagTxvc, "exit"))

-----------------------------------------------------------------------------
(* activate() of the FTDI driver, behind load_config()                     *)

(* REQUIRE_D2XX_SUCCESS_(): the failure is logged, then the clean-up.      *)
FailedCall(fn, bail, changes) ==
  \E s \in {"FT_OTHER_ERROR", "FT_DEVICE_NOT_OPENED"} :
    Step("txvc", fn, Says(TagFtdi, bail), Merge([lastStatus |-> s], changes))

FT_GetLibraryVersion ==
  \/ Goto("FT_GetLibraryVersion", Says(TagFtdi, "FT_SetVIDPID"))
  \/ FailedCall("FT_GetLibraryVersion", "bail_noop", Nothing)

FT_SetVIDPID ==
  \/ Goto("FT_SetVIDPID", "FT_CreateDeviceInfoList")
  \/ FailedCall("FT_SetVIDPID", "bail_noop", Nothing)

FT_CreateDeviceInfoList ==
  \/ Goto("FT_CreateDeviceInfoList", "FT_GetDeviceInfoList")
  \/ FailedCall("FT_CreateDeviceInfoList", "bail_noop", Nothing)

(* The list has as many entries as devices were counted, whatever the size *)
(* of the array on the stack of activate().                                *)
FT_GetDeviceInfoList ==
  \/ Step("txvc", "FT_GetDeviceInfoList", "select", [overrun |-> Len(devices) > MaxDevices])
  \/ FailedCall("FT_GetDeviceInfoList", "bail_noop", Nothing)

(* What activate() does once the entries behind the array overwrote its    *)
(* other variables and its return address is undefined: it may crash at    *)
(* any place up to its return, select any device or none, and open another *)
(* one than it selected.                                                   *)
BehindOverrun ==
  {"select", "FT_Open", "FT_Purge", "FT_SetChars", "FT_SetFlowControl", "FT_SetLatencyTimer",
   "FT_BITMODE_RESET", "FT_BITMODE_MPSSE", "pools", "setup", "splitter_init", "bail_noop"}

overrun_crashes == prog = "txvc" /\ mem.overrun /\ pc \in BehindOverrun /\ Goto(pc, "crashed")

(* Which devices the loop may stop at: what is before an empty serial      *)
(* number may be any letter.                                               *)
Matches == {i \in DOMAIN devices : devices[i] # <<>> /\ Last(devices[i]) = params["channel"]}
Unclear == {i \in DOMAIN devices : devices[i] = <<>>}

Selectable ==
  IF mem.overrun THEN DOMAIN devices
  ELSE IF params["device"] = "ft232h" THEN DOMAIN devices \cap {1}
  ELSE {i \in Matches \cup Unclear : \A j \in Matches : i <= j}

NoneFound ==
  \/ mem.overrun
  \/ IF params["device"] = "ft232h" THEN devices = <<>> ELSE Matches = {}

select_device ==
  /\ prog = "txvc" /\ pc = "select"
  /\ \/ \E i \in Selectable : Step("txvc", "select", Says(TagFtdi, "FT_Open"), [selected |-> i])
     \/ NoneFound /\ Goto("select", Says(TagFtdi, "bail_noop"))

(* FT_OpenEx() takes the first device with the serial number (external).   *)
WithSerialOf(i) == Min({j \in DOMAIN devices : devices[j] = devices[i]})

(* Mutant: the first device is opened, whichever was selected. *)
DeviceToOpen_first == {1}

DeviceToOpen ==
  IF mem.overrun THEN DOMAIN devices
  ELSE {IF Len(devices) = 1 THEN 1 ELSE WithSerialOf(mem.selected)}

FT_Open ==
  /\ prog = "txvc" /\ pc = "FT_Open"
  /\ \/ \E i \in DeviceToOpen : Step("txvc", "FT_Open", "FT_Purge", [handle |-> TRUE, opened |-> i])
     \/ FailedCall("FT_Open", "bail_cant_open", Nothing)

FT_Purge ==
  \/ Goto("FT_Purge", "FT_SetChars") \/ FailedCall("FT_Purge", "bail_usb_close", Nothing)

FT_SetChars ==
  \/ Goto("FT_SetChars", "FT_SetFlowControl") \/ FailedCall("FT_SetChars", "bail_usb_close", Nothing)

FT_SetFlowControl ==
  \/ Goto("FT_SetFlowControl", "FT_SetLatencyTimer")
  \/ FailedCall("FT_SetFlowControl", "bail_usb_close", Nothing)

FT_SetLatencyTimer ==
  \/ Goto("FT_SetLatencyTimer", "FT_BITMODE_RESET")
  \/ FailedCall("FT_SetLatencyTimer", "bail_usb_close", Nothing)

(* A call that fails may have switched the chip, or not. *)
ModeFailed(m) == [bitModeFailed |-> TRUE, mode |-> m]

FT_BITMODE_RESET ==
  \/ Step("txvc", "FT_BITMODE_RESET", "FT_BITMODE_MPSSE", [mode |-> "reset"])
  \/ \E m \in {"unknown", "reset"} : FailedCall("FT_BITMODE_RESET", "bail_usb_close", ModeFailed(m))

FT_BITMODE_MPSSE ==
  \/ Step("txvc", "FT_BITMODE_MPSSE", "pools", [mode |-> "mpsse"])
  \/ \E m \in {"reset", "mpsse"} : FailedCall("FT_BITMODE_MPSSE", "bail_usb_close", ModeFailed(m))

(* d->pool and that of cmdBuffer; no memory is fatal.                      *)
init_pools ==
  /\ prog = "txvc" /\ pc = "pools"
  /\ \/ Step("txvc", "pools", IF mem.pools = 0 THEN "pools" ELSE "setup", [pools |-> mem.pools + 1])
     \/ Step("txvc", "pools", Says(TagMempool, "aborted"), [fatal |-> TRUE])

(* The pins, check_device_in_sync(), txvc_jtag_splitter_init(): each of    *)
(* them exchanges commands with the chip and may fail.                     *)
setup_device ==
  /\ prog = "txvc" /\ pc = "setup"
  /\ \/ Step("txvc", "setup", "splitter_init", [setup |-> setupCmds])
     \/ Goto("setup", Says(TagFtdi, "bail_reset_mode"))

(* Mutant: the chip is left in MPSSE mode. *)
splitter_init_keeps_mode ==
  \/ Step("txvc", "splitter_init", "wrapper_setup", [active |-> TRUE])
  \/ prog = "txvc" /\ Goto("splitter_init", Says(TagSplitter, "bail_usb_close"))

splitter_init ==
  \/ Step("txvc", "splitter_init", "wrapper_setup", [active |-> TRUE])
  \/ prog = "txvc" /\ Goto("splitter_init", Says(TagSplitter, "bail_reset_mode"))

(* FT_SetBitMode(RESET) at the end, whose result nobody looks at.          *)
ResetMode(from, to) ==
  \/ Step("txvc", from, to, [mode |-> "reset"])
  \/ prog = "txvc" /\ Step("txvc", from, to, [bitModeFailed |-> TRUE])

bail_reset_mode == ResetMode("bail_reset_mode", "bail_usb_close")
bail_usb_close  == Step("txvc", "bail_usb_close", "bail_cant_open", [handle |-> FALSE])

(* The hint about ftdi_sio. *)
bail_cant_open ==
  /\ prog = "txvc" /\ pc = "bail_cant_open"
  /\ Goto("bail_cant_open", IF mem.lastStatus = "FT_DEVICE_NOT_OPENED" THEN Says(TagFtdi, "bail_noop")
                            ELSE "bail_noop")

(* activate() returns false *)
bail_noop == prog = "txvc" /\ Fail("bail_noop", Says(TagTxvc, "exit"))

-----------------------------------------------------------------------------
(* txvc_driver_wrapper_setup(): the period of -t is set at once, and what  *)
(* comes of it is ignored.  set_tck_period() of the FTDI driver traps when *)
(* the product it divides wrapped to a negative one, warns about the first *)
(* and the last divider, and exchanges commands with the chip, which may   *)
(* fail.                                                                   *)
wrapper_setup ==
  /\ prog = "txvc" /\ pc = "wrapper_setup"
  /\ \/ /\ config.tckPeriodNanos = 0 \/ mem.driverName = <<"echo">>
        /\ Goto("wrapper_setup", "serve")
     \/ /\ config.tckPeriodNanos > 0 /\ mem.driverName # <<"echo">>
        /\ \/ /\ rawDivider(config.tckPeriodNanos) < 0
              /\ Goto("wrapper_setup", "crashed")
           \/ /\ rawDivider(config.tckPeriodNanos) >= 0
              /\ Goto("wrapper_setup", Says(TagFtdi, "serve"))
           \/ /\ divider(config.tckPeriodNanos) \in 1..(MaxDivider - 1)
              /\ Goto("wrapper_setup", "serve")

(* txvc_run_server() logs something in any case.  It returns at the user's *)
(* interrupt, or when it cannot listen; or the process ends in it.         *)
serve ==
  /\ prog = "txvc" /\ pc = "serve"
  /\ \/ Goto("serve", Says(TagServer, "deactivate"))
     \/ \E e \in {"aborted", "crashed"} : Step("txvc", "serve", e, [fatal |-> TRUE])

deactivate ==
  /\ prog = "txvc" /\ pc = "deactivate"
  /\ IF mem.driverName = <<"echo">> THEN Goto("deactivate", "end")
     ELSE \/ Goto("deactivate", "deinit_pools")
          \/ Goto("deactivate", Says(TagSplitter, "deinit_pools"))

deinit_pools == Step("txvc", "deinit_pools", "reset_mode", [pools |-> 0])
reset_mode   == ResetMode("reset_mode", "close")
close        == Step("txvc", "close", "end", [handle |-> FALSE])
end_of_main  == Step("txvc", "end", "exit", [active |-> FALSE, status |-> "EXIT_SUCCESS"])

MainNext ==
  \/ main_root \/ main_begin \/ getopt_bad \/ getopt_option \/ getopt_done \/ main_help
  \/ main_profile \/ main_tck \/ find_driver
  \/ wrapper_setup \/ serve \/ deactivate \/ deinit_pools \/ reset_mode \/ close \/ end_of_main

ActivateNext ==
  \/ FT_GetLibraryVersion \/ FT_SetVIDPID \/ FT_CreateDeviceInfoList \/ FT_GetDeviceInfoList
  \/ overrun_crashes
  \/ select_device \/ FT_Open \/ FT_Purge \/ FT_SetChars \/ FT_SetFlowControl \/ FT_SetLatencyTimer
  \/ FT_BITMODE_RESET \/ FT_BITMODE_MPSSE \/ init_pools \/ setup_device \/ splitter_init
  \/ bail_reset_mode \/ bail_usb_close \/ bail_cant_open \/ bail_noop

TxvcNext == MainNext \/ ProfileNext \/ ActivateNext

-----------------------------------------------------------------------------
(* Properties.                                                             *)

(* The tokens at which an argument with this key begins: right behind the  *)
(* first colon or behind a comma, and the key is all that it consists of.  *)
WrittenAt(key) ==
  LET colon == SelectInSeq(text, LAMBDA c : c = ":")
  IN  {i \in (colon + 1)..Len(text) :
         /\ colon > 0 /\ text[i] = key
         /\ i = colon + 1 \/ text[i - 1] = ","
         /\ i = Len(text) \/ text[i + 1] \in {"=", ","}}

(* What the user last wrote for a parameter, if anything: the tokens       *)
(* behind the "=", up to a comma.                                          *)
Written(key) ==
  IF WrittenAt(key) = {} THEN <<"nothing">>
  ELSE LET at   == Max(WrittenAt(key))
           upTo == Max({j \in at..Len(text) : \A k \in at..j : text[k] # ","})
       IN  SubSeq(text, at + 2, upTo)

WrittenWord(key) == IF Len(Written(key)) = 1 THEN Written(key)[1] ELSE "no word"

(***************************************************************************)
(* Whatever the profile looks like (no value, an empty argument, the same  *)
(* key twice, values with "=" in them, an alias), a device is opened only  *)
(* with all parameters given, and is set up as they were last written:     *)
(* the pins that are driven are those the user wants driven, and high if   *)
(* the user wants them high.                                               *)
(***************************************************************************)
ProfileAsWritten ==
  prog = "txvc" =>
    /\ mem.handle =>
         /\ \A p \in ParamNames \ {"read_latency_millis"} : params[p] = WrittenWord(p)
         /\ params["read_latency_millis"] =
               (IF Written("read_latency_millis") \in {<<>>, <<"nothing">>} THEN "16"
                ELSE WrittenWord("read_latency_millis"))
    /\ mem.active /\ mem.driverName # <<"echo">> =>
         /\ mem.setup.out = {0, 1, 3} \cup {Pins[p] : p \in {q \in DOMAIN Pins :
                                        WrittenWord(q) \in {"driver_low", "driver_high"}}}
         /\ mem.setup.high = {3} \cup {Pins[p] : p \in {q \in DOMAIN Pins : WrittenWord(q) = "driver_high"}}

(* The device that is open is the first one of the configured channel (the *)
(* first at all for a chip with one channel, whose serial number has no    *)
(* letter for it).                                                         *)
ChannelOpened ==
  IF WrittenWord("device") = "ft232h" THEN devices[mem.opened] = devices[1]
  ELSE /\ devices[mem.opened] # <<>> /\ Last(devices[mem.opened]) = WrittenWord("channel")
       /\ \A j \in 1..(mem.opened - 1) :
            devices[j] # <<>> => Last(devices[j]) # WrittenWord("channel")

(* The list of devices is no longer than the array it is written to.       *)
FitsArray == Len(devices) <= MaxDevices

(***************************************************************************)
(* With several boards and channels connected, the right device is opened, *)
(* though it is selected from a list and opened by its serial number or by *)
(* its index.  Only one kind of device can be opened in its place: one     *)
(* that is itself listed without a serial number, for which the loop takes *)
(* the byte before the empty string for the letter of the channel          *)
(* (ftdi_generic.c:627).  A list longer than its array is undefined        *)
(* behaviour, see overrun_crashes.                                         *)
(***************************************************************************)
RightDeviceOpened ==
  prog = "txvc" /\ mem.opened # 0 /\ FitsArray => ChannelOpened \/ devices[mem.opened] = <<>>

CompleteSpec(spec) == spec.rest = <<>> /\ \E i \in DOMAIN spec.items : spec.items[i].name = All

(***************************************************************************)
(* However main() returns, the device is closed, it was switched back from *)
(* MPSSE mode unless D2XX refused to switch, and a driver that was active  *)
(* has freed its pools.  With a complete log spec the process ends no      *)
(* other way, unless it is out of memory, the server ends it, there are    *)
(* more devices than the list has room for, or -t is more than 71582788 ns *)
(* (MaxProduct): some of those periods trap in set_tck_period(), which     *)
(* leaves the chip open in MPSSE mode.                                     *)
(***************************************************************************)
DeviceReleased ==
  prog = "txvc" /\ pc \in Ended =>
    /\ pc = "exit" =>
         /\ ~mem.handle
         /\ mem.mode = "mpsse" => mem.bitModeFailed
         /\ mem.status = "EXIT_SUCCESS" => mem.pools = 0
    /\ /\ CompleteSpec(input.spec) /\ ~mem.fatal /\ ~mem.overrun
       /\ config.tckPeriodNanos <= MaxProduct
       => pc = "exit"
=============================================================================
