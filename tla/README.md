# A TLA+ development for TinyXVC

TinyXVC lets a JTAG client (Vivado, over the Xilinx Virtual Cable protocol) reach a device
through an FTDI chip: a TCP server takes TMS/TDI vectors, a driver shifts them and returns the
TDO vector. This directory models that path from the socket to the chip, checks it with TLC, and
proves the safety properties with TLAPS. Paths below are relative to `src/`.

## 1. Inventory

| Component | State | Operations | What makes it correct |
|---|---|---|---|
| XVC server, `libtxvc/server.c` | shutdown flag, listening and connection socket, the three vectors of a connection | accept loop, command loop with `MSG_PEEK`, `cmd_getinfo`, `cmd_settck`, `cmd_shift`, `send_data`, `recv_data` | never loses its place in the byte stream; shifts only whole vectors; vectors always fit; a client that reads gets an answer to every complete command; a client that left is noticed; SIGINT stops it |
| main and signals, `txvc/txvc.c` | `shouldTerminate`, configuration, active driver | option loop, alias, profile, activate, wrapper setup, serve, deactivate, `sigint_handler` | an activated driver is deactivated on every orderly way out |
| Driver wrapper, `txvc/driver_wrapper.c` | the global wrapper's two replaceable methods | setup with or without `-t`, `onetime_*`, `noop_set_tck_period` | nothing is shifted before a period was chosen; an enforced period stays |
| JTAG splitter, `libtxvc/jtag_splitter.c` | tracked TAP state, callback | init, process (with bail-out), deinit, `tapReset` | the events repeat the client's TMS bits; the tracked state is the device's; TDI goes with shift states only |
| FTDI driver, `libdrivers/ftdi_generic.c` | command buffer (TX, RX, observers, pool), extras pool, chip handle | `append_tms_*`, `append_tdi_*`, flush, `set_tck_period`, activate, deactivate | every bit shifted once and sampled once however it is cut; read-back fits the chip; failures reported; the pools suffice |
| Memory pool, `libtxvc/mempool.c` | start, head, end | init, aligned and unaligned allocation, reclaim | blocks are disjoint, aligned, inside the pool |
| FTDI activation and parameters, `libdrivers/ftdi_generic.c` | parameters, handle, chip mode, pools | `load_config`, device selection, the D2XX calls of `activate` with four clean-up labels, `deactivate` | the parameters are those written; the right device is opened; whatever fails, the chip is released |
| Log, `libtxvc/log.c` | level, tag specification, per-tag cache | configure, resolve, print | the cached decision is that of the specification; logging does not end the process |
| Profile parser `libtxvc/profile.c`, aliases `txvc/alias.c`, registry `libdrivers/drivers.c`, echo driver | one call's locals | split a text, look a name up | arguments are those written |
| Bit vectors `libtxvc/bit_vector.c`, `logSubVector`, `log_vector` | one call's locals | format, compare | each bit once, inside the buffer, and the loops end |
| Player `player/player.c` | bit buffer, last TCK level | read a sample, process | no edge is lost |
| Unit test framework `libtinytest/` | suites, the case's context and jump target | register, run, check, jump | before, test and after run as documented |

How they interact: the server thread is the only thread. It calls the driver's `set_tck_period`
and `shift_bits` through the wrapper; `shift_bits` of the FTDI driver is
`txvc_jtag_splitter_process`, which calls the driver back with `shift_tms`, `shift_tdi` and
`flush_all` events; the driver turns events into MPSSE commands in `ft_buffer`, whose flush runs
the observers that copy samples into the server's TDO vector. The signal handler shares
`shouldTerminate` with the server.

What is hard here: the signal handler against the blocking calls; a server that sends before it receives on, and may
sleep in either; the byte stream, which arrives
in any pieces and may end anywhere; the state that outlives a failed call (tracked TAP state,
buffered commands, observers holding pointers, the chip's parser); methods that replace one
another across connections; two pools of a fixed size behind requests of any shape; index ranges
that must meet exactly at octet boundaries. `PROJECT.json` lists these hazards line by line with
the properties aimed at them.

## 2. Modules

| Module | Models | Remarks |
|---|---|---|
| `JtagTap` | `next_state`, the state enum; the distance to TEST_LOGIC_RESET in ones | used by the two below |
| `JtagStream` | abstract specification: one TCK per client bit, answered after the last | implemented by the splitter |
| `JtagSplitter` | `jtag_splitter.c` over a callback that accumulates | also a module TLC runs directly |
| `JtagSplitterProofs` | theorems about it | |
| `Server` | `server.c` and main's life cycle, peer, network, SIGINT | |
| `ServerProofs` | theorems about it | EXTENDS `Induction` |
| `Induction` | induction over a set of natural numbers, and what it says of the streams | |
| `TckPeriod` | arithmetic of `set_tck_period` | |
| `DriverWrapper` | `driver_wrapper.c` over it | EXTENDS `TckPeriod` |
| `DriverWrapperProofs` | theorems about both | |
| `Mempool` | `mempool.c`: what an allocation does to the head | EXTENDed by `FtdiDriver` |
| `FtdiDriver` | `ftdi_generic.c` from events to the chip, with both pools | |
| `FtdiDriverProofs` | theorems about it | |
| `JtagSink` | abstract specification: what the splitter expects of its callback | implemented by `FtdiDriver` until a failure |
| `Process` | the state of one sequential program: label and variables | EXTENDed by the modules below |
| `Log`, `BitFormat`, `Player`, `TestRunner` | `log.c`; `bit_vector.c` and its callers; `player.c`; `libtinytest` | one program each |
| `Profile`, `Txvc` | profile text, aliases and `load_config`; `main()`, `activate()`, `deactivate()` | `Txvc` EXTENDS `Profile` EXTENDS `Log` |
| `Programs` | one behaviour is a run of one of these programs | composes them |
| `LogProofs` | theorems about `Log`, and what the other programs' proofs share | EXTENDS `Programs`, `Induction` |
| `ToolProofs` | theorems about `Player`, `TestRunner` and `BitFormat` | EXTENDS `LogProofs` |
| `TxvcProofs` | theorems about `Profile` and `Txvc` | EXTENDS `LogProofs` |
| `MC_*` | values of the constants for TLC | |

### JtagSplitter
`pc` is the place in an API call, one action per step of the code: `scan_without_event` and
`scan_event` are one round of the inner loop, `flush_all` and `bail_reset` the end of
`process`, `tapReset_*` the two callback calls of `tapReset` with what each of its three callers does
afterwards. The two nested loops (octets, bits) are one loop over bits: which bit of which octet
`tmsByte` holds is the index `bitIdx`. The callback is the environment: it appends TCKs to `driven`, `Clock` lets
the device see them one by one at any time, and `flush_all` returns when all were made. A
callback that fails leaves the device in any TAP state: a pulse of what was accumulated may or
may not have been made. This is what `jtag_splitter.h` promises to users of the splitter; that
the FTDI driver keeps to it only as long as USB does not fail is what `FtdiDriver` shows.
`path`, `ones` and `lost` are history variables.

### Server
One action per system call or driver call of the thread. A call that cannot return makes the
thread `blocked`; SIGINT sets the flag at any time and makes the call return with an error only
if it is `blocked`. The peer connects, its bytes arrive one by one, it may leave after any of
them. `send()` can sleep like `recv()` and `accept()`: `room` is what the socket buffers take of the response, left open
(all of it; a part; nothing, when earlier responses fill them) until the client reads (`Read`). A byte is what it stands
for, not its value; the four bytes of an integer travel as one (where an integer is cut makes no difference to `recv`
with `MSG_WAITALL`). The driver is left open: it succeeds, fails or ends the process. To leave is to close both directions of the socket. `killed` is the end by
SIGPIPE (a send after the connection was reset, or one that was asleep with nothing sent); `aborted` is the end by a failed
allocation, by the driver's `FATAL`, or by the trap in `set_tck_period`, be it that of `-t` (`wrapper_setup`, between
`activate` and `listen`) or of a client; `pipelined` remembers that the client was ahead of the answers when it left.

### DriverWrapper
The wrapper's methods are two variables that hold the name of the function behind each. A
call of the driver's `set_tck_period` is a set of outcomes: it may fail before or after the chip
got the command. `TckPeriod` assumes that a product that overflows an int wraps: that is undefined in C, but what
two's complement machines do without sanitizers, and `cmake/Txvc.cmake` asks for none.

### FtdiDriver
`events` are those the splitter issues for one request; `append_*` are the steps of
the two append functions, one per MPSSE command, each with the flush that
`ft_buffer_ensure_can_append` may need before it. A command is the range of bits it shifts and
its numbers of TX and RX bytes; the chip is a parser that checks that the bits of a request come
in order, and answers with the ranges it sampled. Observers of bit-mode commands refer to their
extra by its address in `d->pool`, so that an extra overwritten after the pool was reclaimed is
seen. A failing FT_Write may have sent any number of the commands, a failing FT_Read may have
taken any number of bytes. `scenario` fixes the chip, the pools, the requests and the number of
failures of a behaviour. `Init` is the state after a successful `activate()`. Blocks of the command pool
(TX and RX buffer, observer nodes, extras of the simple observers) have the addresses `Mempool` gives them, so
that an overlap would be seen; `lastTdi` and `chip.tdi` name the bit whose level the driver believes, and the
chip has, on the TDI wire while TMS is shifted. `ImplementsSink` maps the driver to `JtagSink`: bits handed
over are made in order, and all of them before `flush_all` returns true.

### Process and the programs
`mem` is a record of the program's variables; `Step(p, from, to, changes)` is one statement or call, which gives the
variables in `changes` new values and keeps the others (`Merge`).
- `Txvc`: one action per statement of `main()` that can go two ways, one per D2XX call of `activate()`, each of
  which may fail with any status, and one per clean-up label. `FT_SetBitMode` that fails may have switched the chip or not.
  A device is its serial number; the byte before an empty one (`serial[len - 1]` with `len = 0`) is any letter;
  a list with more than four devices overruns the array on the stack of `activate()` (`mem.overrun`), which from then up to
  its return may crash anywhere, select any device or none, and open another. `wrapper_setup` sets the period of `-t` on
  the active driver: it exchanges commands, warns, or traps where the product wraps negative. Each message goes through
  `Says`: a log spec that does not resolve its tag ends the process there. `serve` is all of `txvc_run_server()` in one
  step: it returns or ends the process.
- `Profile`: texts are sequences of tokens; a converter is the set of words it takes and what it returns for others.
- `Log`: names are sequences of letters, since the code compares prefixes ("f" is all tags that begin with f).
- `BitFormat`: both formatters are one loop that runs up or down, an octet fetched at a time.
- `Player`: the buffer holds TMS only, TDI and TDO are stored at the same index.
- `TestRunner`: `restorePoint` is the label behind the last `setjmp()`. What a check compares are spans.

## 3. Runs

| Run | Question | Bounds |
|---|---|---|
| `splitter` | Do the events repeat the client's stream, is the TAP tracked, does the splitter implement `JtagStream`, does every call return? | all vectors of 0 to 3 bits, any number of calls, any TAP state at the start, any callback may fail at any time |
| `server` | Are replies, vectors, life cycle and progress right for every cut of the stream, every moment of SIGINT or leaving, and clients that read late or never? | two connections, seven sessions of two or three commands |
| `server_sigint` (violation) | Does one SIGINT stop the server? | one connection |
| `server_peer` (violation) | Is every client that left noticed? | one connection |
| `ftdi` | Do ranges, commands, flushes and copies add up to the request; are failures reported; does the command pool suffice? | two calls; see below |
| `ftdi_pool` (violation) | Does a vector below the advertised maximum always fit the pools? | one call |
| `ftdi_resync` (violation) | Is a success after a failure a success? | one failing call |
| `ftdi_stale` (violation) | Do observers write only into vectors of their own call? | two failing calls |
| `programs` | Does each program do what its input says and come to its end, whatever fails? | see below |
| `wrapper` | Is there a period before the first shift, and is it the right one? | three calls; every period up to 67 ns and the edges |
| `wrapper_enforced` (violation) | Does `-t` inhibit changes? | two calls |
| `wrapper_zero` (violation) | Is the trap behind a negative divider unreachable? | period 0 |

Why the bounds are enough:

- *splitter*: an event boundary depends on two consecutive TAP states and on whether the bit is the last;
  three bits hold a pending range of more than one bit and the event that ends it, or both ends of a shift. The TAP
  state is kept between calls and the number of calls is not bounded, so every walk through the TAP occurs. The
  theorems do without the bound.
- *server*: the two connections show what one leaves to the next; sessions have every command after
  every other, vectors that grow over and shrink below an octet boundary, refused numbers, and
  garbage shorter and longer than a prefix. A send may find no room, or room for a part of its response, at every
  response; the buffers have no size of their own, since all that matters is whether `send()` sleeps.
- *ftdi*: the chip buffer of 4 bytes forces flushes before, inside and after a shift; the
  offsets are all of an octet, the lengths the ones around one, two, three and four octets
  and one that exceeds the chip buffer. The scenarios for the pools are an FT2232H scaled by 1/64 (64
  bytes of chip buffer, 2 KiB and 1 KiB of pool), since TLC cannot follow thousands of commands; a
  command costs the same in both, so the proportions stay. An FT232H, whose buffer is a quarter of that, is
  scaled the same way (16 bytes). The densest load found is a TMS
  command and a shift with a leading, an inner, a trailing and a last range: its nodes and extras
  take less than nine pool bytes for each TX byte, and a full buffer fits.
  Only patterns of this kind are tried, not every request.
- *wrapper*: 1 to 67 ns give every remainder of the division that the first divider steps have;
  the rest lie at the limits of the divider and of an int, some of them where the product wraps.
- *programs*: `txvc` is started with 18 profiles (the four aliases; values missing, empty, doubled, with "=" inside;
  too long, with too many arguments) times six sets of devices (none, one, both channels of a board, two boards,
  empty serial numbers, five devices), with four log specs, with command lines that fail, and with `-t` of the first and the
  last divider, the last product that does not wrap, one that wraps to a negative and one that wraps to a small number. The scratchpad and the
  argument array are scaled to 50 tokens and 11 arguments. The logger makes five calls with seven specs and three tags, one the prefix
  of another. The player's buffer has 3 bits instead of 8192, so that eight samples fill it twice. The formatters get
  all ranges of vectors of up to 17 bits, with a buffer of 10 and rows of 4. The test runner has suites of up to two
  cases (and inputs that exceed its limits), two checks per case, and a message buffer of 5 characters.

Deadlock checking is off where behaviours end by a bound on calls (`ftdi`, `wrapper`); there,
`CallsReturn` is what tells a call that hangs from one that is over.

### Fairness
- *JtagSplitter*: weak fairness of the splitter's own steps (a single thread in a call goes on)
  and of `Clock` (a callback that returns true has made the TCKs). No one has to make a call.
- *Server*: weak fairness of the thread, system calls included: they return when they can. Clients,
  network and user promise nothing. Two properties have a premise of their own: `RepeatedSigintStops` a user who
  interrupts again while the server sleeps, `CommandsAnswered` a client that reads (`WF_vars(Read)`): a client that only
  sends fills the buffers of both directions and can hold the server in `send()` for ever (`server.c:77`).
- *FtdiDriver*: weak fairness of a call's steps. FT_Read returns only if the chip answered.
- *Programs*: weak fairness of the one process. That `serve` is over at some time is the user's doing.

## 4. Proofs

`JtagSplitterProofs` assumes only `MaxBits \in Nat`. It proves, for vectors of any length:
`IndInv` is invariant; hence `TypeOK`, `DrivesClientTms`, `TracksTap`, `DataWhenTapShifts`; and
the splitter implements `JtagStream` (`Refinement`). None of these is inductive on its own:
- `DrivesClientTms` needs to know that the bits not handed over yet are all of one kind and have TMS
  low while shifting (`PendingInv`), since a `shift_tdi` event leaves the levels implicit;
- `TracksTap` compares the device, which lags behind, with the state the scan had at the same
  bit: `PathInv` keeps the scan's states, `DrivenInv` ties them to the TCKs handed over, `QuietInv`
  says that nothing is left over between calls;
- the recovery after a failed reset needs `SyncInv`: with `OnesLeft(s)` the number of ones from state
  `s` to TEST_LOGIC_RESET, `OnesLeft + ones <= 5` holds for the device and for the tracked state, each on its
  own, so that the fifth one in a row brings both to the same state.

The proof is one lemma per action and conjunct group; `JtagTap` facts (what ones do to the
distance, when a shift state is entered) are lemmas of their own.

`DriverWrapperProofs` assumes `WrapperAssumption` (periods are those an int holds). `NearestGreater` is the arithmetic: the period made is never shorter than asked for and the
next smaller divider would be too fast, for all periods up to the longest; `LongestUntilOverflow`: from there on
it is the longest one, until the product overflows. `Invariance` proves
`IndInv`: who has set a period can be read off which methods are installed (`WatchInv`), and the
last suggestion is what the chip runs at (`SuggestionInv`). From it follow `PeriodBeforeShift`,
`TypeOK`, `ClientPeriodHonoured` and `EnforcedPeriodKept`. Of the chip's period `TypeOK` says only that it is no longer
than the largest divider makes it, which holds for products that wrap, too.

`ServerProofs` assumes `SessionsAssumption` (a session is a sequence of requests, garbage in it is at least a
byte long); sessions, their number and length, vectors and the number of connections are arbitrary. `Invariance` proves
`IndInv`, and each safety property of the `server` run follows: `TypeOK`, `RepliesInOrder`, `ShiftsWholeVectors`,
`VectorsFit`, `DriverReleased`, `SigpipeNeedsPipelining`. What the invariant adds to them:
- `InStep` ties the place in the code to the place in the byte stream: at the top of the command loop exactly the bytes
  of the answered commands were consumed, inside a handler the prefix and the fields read so far as well. Without it a
  handler could answer the wrong command;
- `VectorsHeld` ties `vectors` to `vectorNumBytes`, also across a failed allocation and the end of a connection;
- `InControl` says who can be where: blocked only in calls that block, no room only where `send()` sleeps, active driver,
  peer there while served;
- `OneUnanswered` counts: a client that closed with one command unanswered is reset by the first send, and only another
  send after it raises SIGPIPE, for which another command must have arrived; and a send that sleeps with nothing sent has
  earlier answers before it that the client did not read.

The stream of a session is a recursive function. That a command's bytes lie between `Start(k)` and `Start(k + 1)`, that
starts grow, and that a prefix found at the current place is the current command's, are lemmas proved with
`Induction`: induction stated about a set of naturals, derived from the well-foundedness of `<`.

`FtdiDriverProofs` assumes `DriverAssumption`: the chip's buffer holds at least the 4 bytes the code asserts, and a
request is a chain of `tms` and `tdi` ranges that starts at bit 0, which is what the splitter hands over
(`EventsDriveClientTms` of `JtagSplitterProofs`). Buffer and pool sizes, requests, the number of calls and of failures are
arbitrary. `Invariance` proves `IndInv`; from it follow `TypeOK`, `FailuresReported`, `ReadbackFitsChip`,
`OkMeansDoneUntilFailure`, and `Refinement`: the driver implements `JtagSink`. The idea of the invariant is that the
driver never knows where the chip is, only where it will be: *a flush of what is buffered would bring the chip to where the driver is*.
- `SyncAt(buf, chip, copied)` says so: for the chip that results from feeding it `buf.tx` (`Fed`), `Ready` holds (it
  expects the next bit of this request, has the TDI level the driver believes, waits for the announced octets or for
  none), it has answered exactly `rxNumBytes` bytes, and what is stored already together with what the observers would
  store tiles the TDI bits handed over: each once, each with its own sample.
- A command that is appended extends the fed commands by one (`FedAppend`), so a step has to show only what this command
  does to a ready chip (`TmsAdvances`, `BitsAdvance`, `OctetsAdvance`, `PayloadAdvances`, `TckAdvances`) and which bits its
  observer adds (`BitsVector`, `PayloadVector`). A flush in between changes nothing in the statement (`FlushSync`).
- `Progress` keeps what is left of the request as its suffix, and says that an event is only ever left at its start, at its
  last bit or at an octet boundary. With the arithmetic of the four ranges (`TdiRanges`, `InnerOctets`) this is why they meet.
- `BufferHolds` and the extras below `extrasHead` staying untouched are why observers find their own data.
- `FailureKept` says that a failure inside a call is remembered by `resetting` until the call returns.

After a failure only types, bounds and `FailuresReported` are claimed: the runs `ftdi_resync` and `ftdi_stale` show that more would be false.

The command pool has an invariant of its own on top, `PoolInv == IndInv /\ Arena(buf, failures)`, which holds after
failures, too. `Arena` says that the live blocks (TX and RX buffer, observer nodes, extras) lie below the head and
apart from one another, that objects are aligned, that the head is at most the bytes of the live blocks plus one TX
buffer per failure (a failed flush drops `txBuffer` without reclaiming it), and that there are at most as many
observers as announced bytes. A step does one of four things to the buffer (`Moves`): nothing, appending a command to
it or to an empty one, emptying it, or what a failed flush leaves. Two theorems follow:
- `BlocksLieApart`: `LiveBlocksApart`, for any sizes, requests and failures;
- `LargePoolSuffices`: a pool of 66 chip buffers and a TX buffer per failure never runs out. A chip buffer of C bytes
  bounds the two buffers by 4C and, since each observer waits for a byte, the nodes and extras by 62C. 128 KiB are
  enough for an FT232H (1024 bytes) and twenty failures, whatever the chain of events.

`LogProofs` assumes `LogAssumption`: tags are non-empty names, and a spec is a list of names with `+` or `-`. Tags,
specs, levels and the number of calls are arbitrary. `DecisionsAreCurrent` proves `DecisionFollowsSpec`,
`CompleteSpecsAreSafe` proves `CompleteSpecNeverKills`. The invariant is `LogInv`: what a tag has cached under the
current configuration is what a scan of the current spec would say, and nothing is cached under an id that is still to
come (`CacheIsCurrent`), and a call that does not return is due to its level, to a missing configuration or to a tag
the spec leaves open (`KilledByReport`). `ScanIsLastEntry` relates the scan, a recursive function, to the last entry
that matches.

`ToolProofs` proves, each from an invariant of the program:
- `EveryEdgeIsFed` (`PlayerFeedsEdges`), from `PlayerAssumption`: a buffer of at least two bits. Whatever the number
  of samples, the bits processed and those in the buffer are together the TMS levels at the rising edges so far
  (`FeedsEdgesOf(Fed, samples)`), and the remembered level of TCK is that of the last sample. An appended sample adds
  one edge or none (`OneEdge`, `NoEdge`), which is a statement about cardinalities.
- `CasesRunRight` (`CasesRunAsDocumented`), from `RunnerAssumption`: any suites and limits. The invariant ties the
  jump target to the function that runs (`CaseSoFar`) and counts the cases as the finite set of those at or before the
  current one (`CasesCounted`).
- `EveryBitIsLogged` (`LoggedBits`), from `FormatAssumption`: vectors, buffer and rows of any size. The octet held is
  the one of the current bit, the text so far is the range passed, up or down (`Formatting`), and the rows logged are
  those that fit before the current one (`RowsOut`).

`TxvcProofs` assumes `TxvcAssumption` (options are those `getopt` returns, a profile and a serial number are sequences
of words, the argument of `-t` is an int) and `ProfileAssumption` (the words that stand for "no value" are not valid values). Profiles, devices, log
specs and failing calls are arbitrary. `TxvcInv` holds what is true at each label: which resources are held
(`Resources`), what is configured (`Configured`), how far the text is parsed and loaded (`ParsedAt`). From it follow:
- `ProfileIsFollowed` (`ProfileAsWritten`): the driver of an open device has the parameters written in the profile, an
  active one has set the pins accordingly. The property is about the text; the lemmas up to `ArgAppended` show that
  the arguments found by `strchr` are those the grammar has at the same places, and `LoadedIsWritten` that of several
  for one parameter the last one wins;
- `DeviceIsRight` (`RightDeviceOpened`): from a list that fits its array, the device opened is the first of the channel
  asked for (the first at all for a chip without channels), or one that itself has no serial number. The exception is
  real: the model opens such a device in place of the right one. Longer lists are undefined behaviour, and nothing is
  said of them;
- `DeviceIsReleased` (`DeviceReleased`): however `main()` returns, the handle is closed, the mode is reset unless D2XX
  refused, and after a success the pools are given back; with a complete log spec the process ends no other way,
  unless it is out of memory, the server ends it, there are more than four devices, or `-t` is above 71582788 ns. Up to there
  the period is set without a trap (`NoTrap`); above, some periods trap and leave the chip open in MPSSE mode.

Only model-checked:
- liveness (`CallsReturn`, the three of `Server`, `ProgramsEnd`), which the proof system does not reach;
- `CommandPoolSuffices` where the pool is not large in the sense above, which is the case of an FT2232H (4096 bytes).
  There it is false for chains of events no TAP can produce (one-bit shifts without TMS between them): a proof would
  need the alternation of events that the splitter keeps, and how many commands each pair of events costs.

## 5. Where code and documentation disagree

The violation runs show seven points; `PROJECT.json` quotes the lines.
1. A SIGINT between the test of the flag and the blocking call is not noticed (`server_sigint`).
2. A client that leaves inside a command prefix makes the server spin for ever (`server_peer`).
3. Many short shifts in one vector exhaust `d->pool`, which is fatal (`ftdi_pool`).
4. After a failed exchange a later call may report success for wrong bits (`ftdi_resync`).
5. Observers of a failed call write into its vectors in a later call (`ftdi_stale`).
6. `-t` does not inhibit changes unless a divider makes the period exactly (`wrapper_enforced`).
7. `settck:` with 0 reaches `TXVC_UNREACHABLE` (`wrapper_zero`).

Met while modelling, without a run of their own:
- A tag spec that resolves neither the tag of a message nor `logger` makes the report about it recurse until the stack
  is used up; text behind the last `+` or `-` always does, so that its message never appears (`log.c:101-108`).
- Names in a tag spec match as prefixes, also of `all`: `a-` disables everything (`log.c:94`).
- A period above 71582788 ns overflows the product: undefined in C, and if it wraps, 143165577 ns, for instance, is made
  the fastest clock (`ftdi_generic.c:733`).
- Products that wrap to a negative value reach the trap (`ftdi_generic.c:734`), for `settck:` as for `-t`: with
  `-t 80000000` the process ends with the chip open in MPSSE mode.
- A client that pipelines commands without reading the answers holds the server in `send()` (`server.c:77`).
- For an empty serial number (a device that has none in its EEPROM, or that another process has open) the byte before the
  string is compared with the letter of the channel; if it is that letter, this device is opened, whatever channel it is
  (`ftdi_generic.c:627`).
- More than four connected devices overrun `connectedDevices` (`ftdi_generic.c:615-618`).
- A failed `FT_SetBitMode(MPSSE)` is not followed by a reset of the mode (`ftdi_generic.c:653`).
- `main()` returns success although the server could not listen (`txvc.c:275`).
- A read error makes the player drop the bits it has (`player.c:66`).

## 6. Not modelled

- TMS levels inside MPSSE commands (the duplicated last bit) and partial failures inside one command.
- Vectors close to INT_MAX bits (`JtagSplitter`).
- A device unplugged between the listing and the opening; the type and the IDs D2XX reports, at which the code does not look.
- Texts: help, messages, colours, timestamps; `strtol` and the splitting of characters into tokens.
- `txvc_bit_vector_random`, which the tests use, and the data path of the echo driver, a `memcpy`.
- The composition of `Server` with `FtdiDriver` in one state space: `Server` leaves the driver open, and the
  wrapper and the driver are checked against any order of calls.

## 7. Plan

Done, in this order: `JtagTap`, `JtagStream`, `JtagSplitter`, its proofs; `Server`; `FtdiDriver`;
`TckPeriod`, `DriverWrapper`, their proofs; `Mempool` and the wire level of TDI in `FtdiDriver`, `JtagSink` and its
refinement; the programs.

Then the proofs of `Server`, of `FtdiDriver` and of the types of `DriverWrapper`; last, those of the command pool and of the programs.

What is left:
1. `CommandPoolSuffices` for the FT2232H, from an assumption that a request's events alternate as the splitter's do.
2. `Server` with `FtdiDriver` behind it as its driver, in place of one that succeeds or fails as it likes.
