----------------------------- MODULE FtdiDriver -----------------------------
(***************************************************************************)
(* libdrivers/ftdi_generic.c between the splitter's events and the chip:   *)
(* append_tms_shift_to_transaction and append_tdi_shift_to_transaction cut *)
(* an event into MPSSE commands, ft_buffer collects the commands and the   *)
(* observers that copy read-back bits into the client's TDO vector, and a  *)
(* flush exchanges everything with the chip over USB, which may fail.      *)
(*                                                                         *)
(* A command is abstracted to the range of vector bits it shifts and the   *)
(* number of bytes it puts into the TX and RX buffers; the chip is a       *)
(* parser of commands that checks that the bits of a request come in order *)
(* and answers each with the range of samples it took.                     *)
(***************************************************************************)
EXTENDS Integers, Sequences, FiniteSets, FiniteSetsExt, SequencesExt, Mempool

CONSTANTS
  Scenarios,         \* set of records, see DriverAssumption
  MaxCalls           \* bound: driver calls per behaviour

Events == [kind : {"tms", "tdi", "reset", "divisor", "sync"}, from : Nat, to : Nat]

(* Ranges that follow one another from the first bit on. *)
IsChain(evs) ==
  /\ evs \in Seq(Events) /\ evs # <<>> /\ evs[1].from = 0
  /\ \A i \in 1..Len(evs) :
       IF evs[i].kind \in {"divisor", "sync"} THEN evs[i].from = evs[i].to ELSE evs[i].from < evs[i].to
  /\ \A i \in 2..Len(evs) : evs[i].from = evs[i - 1].to

(* A vector as the splitter hands it over. *)
IsVector(evs) == IsChain(evs) /\ \A i \in 1..Len(evs) : evs[i].kind \in {"tms", "tdi"}

ASSUME DriverAssumption ==
  /\ MaxCalls \in Nat
  /\ \A s \in Scenarios :
       /\ s.chipBufferBytes \in Nat
       /\ s.chipBufferBytes >= 4       \* ft_buffer_ensure_can_append's assertion
       /\ s.poolBytes \in Nat          \* size of cmdBuffer.pool
       /\ s.poolExtras \in Nat         \* how many bit copier extras fit into d->pool
       /\ s.maxFailures \in Nat        \* bound: failing D2XX calls
       /\ \A evs \in s.requests : IsVector(evs)

VARIABLES
  scenario,   \* the chip that activate() found and what is done with it
  pc,         \* "idle", "event" or "payload" inside a call, "deinit", "off", "aborted"
  call,       \* "shift_bits", "set_tck_period" or "deactivate"
  req,        \* number of the call: stands for the memory its observers write to
  request,    \* what it asks for, as the splitter's events
  events,     \* events still to be handled; the first one is in progress
  curIdx,     \* next vector bit to hand to the chip
  resetting,  \* the splitter is in bail_reset
  result,     \* what the last call returned
  lastTdi,    \* the bit of which request d->lastTdi is
  buf,        \* d->cmdBuffer
  extras,     \* bit copier extras in d->pool ...
  extrasHead, \* ... and the pool's head
  chip,       \* the MPSSE engine
  copied,     \* history: what observers wrote during this call
  failures,   \* how many D2XX calls failed so far ...
  failedBefore \* ... and before this driver call

callVars == <<scenario, call, req, request, failedBefore>>
poolVars == <<extras, extrasHead>>
vars == <<pc, callVars, events, curIdx, resetting, result, lastTdi, buf, poolVars, chip, copied, failures>>

chipBufferBytes  == scenario.chipBufferBytes
maxTxBufferBytes == 3 * chipBufferBytes
maxRxBufferBytes == chipBufferBytes

min(a, c) == IF a < c THEN a ELSE c

EmptyBuffer ==
  [ tx |-> <<>>, txNumBytes |-> 0, txBuffer |-> NULL,
    rxNumBytes |-> 0, rxBuffer |-> NULL, observers |-> <<>>, head |-> reclaim_all ]

(* activate() has just succeeded: its own commands were flushed. *)
Init ==
  /\ scenario \in Scenarios
  /\ pc = "idle" /\ call = "shift_bits" /\ req = 0 /\ request = <<>>
  /\ events = <<>> /\ curIdx = 0 /\ resetting = FALSE /\ result = "ok"
  /\ lastTdi = <<0, 0>> /\ buf = EmptyBuffer /\ extras = <<>> /\ extrasHead = 0
  /\ chip = [req |-> 0, expect |-> 0, next |-> 0, tdi |-> <<0, 0>>, bad |-> FALSE, out |-> <<>>]
  /\ copied = <<>> /\ failures = 0 /\ failedBefore = 0

-----------------------------------------------------------------------------
(* The chip (external).  `expect` data bytes of a byte-mode shift are      *)
(* still to come, `next` is the next bit of the current request req, `out` *)
(* holds the bytes read back, `tdi` is the bit whose level is on the TDI   *)
(* wire, and `bad` remembers that during the current call it was fed       *)
(* anything but the next bits of that call's vectors, or TDI moved while   *)
(* only TMS was to.                                                        *)

(* The bytes that n octets of samples come back in. *)
Octets(r, from, n) == [i \in 1..n |-> [req |-> r, from |-> from + 8 * (i - 1), n |-> 8]]

ShiftBits(c, w, n, samples) ==
  [c EXCEPT !.bad = c.bad \/ w.req # c.req \/ w.from # c.next,
            !.next = w.from + n, !.tdi = <<w.req, w.from + n - 1>>, !.out = c.out \o samples]

ShiftTms(c, w) ==
  [c EXCEPT !.bad = c.bad \/ w.req # c.req \/ w.from # c.next \/ w.tdi # c.tdi,
            !.next = w.from + w.n, !.tdi = w.tdi]

(* Bytes of a command taken for the data that an earlier command announced. *)
Swallow(c, w) ==
  LET n == min(c.expect, w.tx)
  IN  [c EXCEPT !.bad = TRUE, !.expect = c.expect - n, !.out = c.out \o Octets(0, 0, n)]

ChipStep(c, w) ==
  CASE c.expect > 0 /\ w.kind = "payload" /\ w.n = c.expect ->
         [ShiftBits(c, w, 8 * w.n, Octets(w.req, w.from, w.n)) EXCEPT !.expect = 0]
    [] c.expect > 0 /\ ~(w.kind = "payload" /\ w.n = c.expect) -> Swallow(c, w)
    [] c.expect = 0 /\ w.kind = "tms"     -> ShiftTms(c, w)
    [] c.expect = 0 /\ w.kind = "bits"    ->
         ShiftBits(c, w, w.n, << [req |-> w.req, from |-> w.from, n |-> w.n] >>)
    [] c.expect = 0 /\ w.kind = "octets"  -> [c EXCEPT !.expect = w.n]
    [] c.expect = 0 /\ w.kind = "sync"    -> [c EXCEPT !.out = c.out \o Octets(w.req, 0, 2)]
    [] c.expect = 0 /\ w.kind = "payload" -> [c EXCEPT !.bad = TRUE]
    [] c.expect = 0 /\ w.kind \in {"reset", "divisor"} -> c

-----------------------------------------------------------------------------
(* ft_buffer_append(), and what its _simple variant allocates before.      *)

NodeSz == 32            \* sizeof(struct rx_observer_node)
ByteExtraSz == 16       \* sizeof(struct byte_copier_rx_observer_extra)

(* The heads of the pool after each allocation that a command w needs in   *)
(* buffer b, the extra of the _simple variant having left it at h.         *)
TxHead(b, h)      == IF b.txBuffer = NULL THEN alloc_unaligned(h, maxTxBufferBytes) ELSE h
RxHead(b, w, h)   == IF w.rx > 0 /\ b.rxBuffer = NULL
                       THEN alloc_unaligned(TxHead(b, h), maxRxBufferBytes) ELSE TxHead(b, h)
NodeHead(b, w, h) == IF w.rx > 0 THEN alloc_object(RxHead(b, w, h), NodeSz) ELSE RxHead(b, w, h)

(* An observer of bit-mode data finds its extra in d->pool, by its number  *)
(* there, an observer of octets at `extra`, below h.                       *)
Observer(b, w, h) ==
  [ data |-> b.rxNumBytes, node |-> NodeHead(b, w, h) - NodeSz, extra |-> h - ByteExtraSz,
    simple |-> w.simple, addr |-> extrasHead + 1, dst |-> w.req, toBit |-> w.from, n |-> w.rx ]

AppendWith(b, w, h) ==
  [ tx |-> Append(b.tx, w), txNumBytes |-> b.txNumBytes + w.tx,
    txBuffer |-> IF b.txBuffer = NULL THEN TxHead(b, h) - maxTxBufferBytes ELSE b.txBuffer,
    rxNumBytes |-> b.rxNumBytes + w.rx,
    rxBuffer |-> IF w.rx > 0 /\ b.rxBuffer = NULL THEN RxHead(b, w, h) - maxRxBufferBytes ELSE b.rxBuffer,
    observers |-> IF w.rx > 0 THEN Append(b.observers, Observer(b, w, h)) ELSE b.observers,
    head |-> NodeHead(b, w, h) ]

ExtraHead(b, w) == IF w.simple THEN alloc_object(b.head, ByteExtraSz) ELSE b.head

(* Mutant: the extra is allocated before the buffer is flushed. *)
ft_buffer_append_extra_first(b, w) ==
  LET before == AppendWith(b, w, ExtraHead(buf, w))
      after  == AppendWith(b, w, b.head)
  IN  IF b = buf \/ ~w.simple THEN before
      ELSE [after EXCEPT !.observers = Append(b.observers, [Last(@) EXCEPT !.extra = Last(before.observers).extra])]

ft_buffer_append(b, w) == AppendWith(b, w, ExtraHead(b, w))

(* What an observer writes, and whether these are the samples of those bits. *)
bit_copier_rx_observer_fn(x, sample) ==
  [dst |-> x.dst, toBit |-> x.toBit, numBits |-> x.numBits,
   good |-> sample = [req |-> x.dst, from |-> x.toBit, n |-> x.numBits] /\ x.fromBit = 8 - sample.n]

byte_copier_rx_observer_fn(o, samples) ==
  [dst |-> o.dst, toBit |-> o.toBit, numBits |-> 8 * o.n,
   good |-> samples = Octets(o.dst, o.toBit, o.n)]

Copy(o, rxData) ==
  IF o.simple THEN byte_copier_rx_observer_fn(o, SubSeq(rxData, o.data + 1, o.data + o.n))
              ELSE bit_copier_rx_observer_fn(extras[o.addr], rxData[o.data + 1])

(***************************************************************************)
(* ft_buffer_flush().  A failing FT_Write may have sent any part of the    *)
(* data and leaves the buffer as it was; a failing FT_Read may have lost   *)
(* any part of the answer and leaves the RX half as it was.  FT_Read waits *)
(* for all the bytes it asks for: there is no outcome when they never come.*)
(***************************************************************************)

(* What the chip, one of cs, is after command w; and after each number of  *)
(* the commands tx, chip c at first (as sets).                             *)
StepOf(cs, w) == {ChipStep(c, w) : c \in cs}
Fed(c, tx) ==
  LET after[n \in 0..Len(tx)] == IF n = 0 THEN {c} ELSE StepOf(after[n - 1], tx[n]) IN after

Sent(n) == Fed(chip, buf.tx)[n]
AllSent == Sent(Len(buf.tx))

ReadFrom(c, n) == [c EXCEPT !.out = SubSeq(@, n + 1, Len(@))]

MayFail == failures < scenario.maxFailures

WriteFails ==
  { [ok |-> FALSE, buf |-> buf, copies |-> <<>>, chip |-> c] :
      c \in IF MayFail /\ buf.txBuffer # NULL THEN UNION {Sent(n) : n \in 0..Len(buf.tx)} ELSE {} }

ReadFails ==
  { [ok |-> FALSE, buf |-> [buf EXCEPT !.tx = <<>>, !.txNumBytes = 0, !.txBuffer = NULL],
     copies |-> <<>>, chip |-> c] :
      c \in IF MayFail /\ buf.rxBuffer # NULL
              THEN UNION { {ReadFrom(d, n) : n \in 0..min(Len(d.out), buf.rxNumBytes)} : d \in AllSent }
              ELSE {} }

(* Mutant: txvc_mempool_reclaim_all() is left out. *)
Reclaimed_keeps_head == [EmptyBuffer EXCEPT !.head = buf.head]

Reclaimed == EmptyBuffer

Exchanged ==
  { [ok |-> TRUE, buf |-> Reclaimed, chip |-> ReadFrom(c, buf.rxNumBytes),
     copies |-> [i \in 1..Len(buf.observers) |-> Copy(buf.observers[i], c.out)]] :
      c \in {d \in AllSent : Len(d.out) >= buf.rxNumBytes} }

ft_buffer_flush == WriteFails \cup ReadFails \cup Exchanged

(* The effect of a flush, whatever becomes of the call. *)
Flush(o) ==
  /\ chip' = o.chip
  /\ copied' = copied \o o.copies
  /\ failures' = IF o.ok THEN failures ELSE failures + 1

-----------------------------------------------------------------------------
(* How a call goes on.                                                     *)

event == Head(events)

ResetEvent == [kind |-> "reset", from |-> 0, to |-> 5]

Return(res) ==
  /\ pc' = IF call = "deactivate" THEN "deinit" ELSE "idle"
  /\ events' = <<>> /\ resetting' = FALSE /\ result' = res
  /\ UNCHANGED <<curIdx, lastTdi>>

(* A callback returned false: the splitter bails out into tapReset, once;  *)
(* every other caller gives up.                                            *)
CallbackFails ==
  \/ /\ call = "shift_bits" /\ ~resetting
     /\ events' = <<ResetEvent>> /\ curIdx' = 0 /\ resetting' = TRUE /\ pc' = "event"
     /\ UNCHANGED <<result, lastTdi>>
  \/ /\ ~(call = "shift_bits" /\ ~resetting)
     /\ Return("failed")

(* Bits up to `to` are handed over, lastTdi is tdi; the next event begins  *)
(* where it says.                                                          *)
HandedOver(to, tdi) ==
  /\ curIdx' = IF to = event.to /\ Len(events) > 1 THEN events[2].from ELSE to
  /\ events' = IF to = event.to THEN Tail(events) ELSE events
  /\ pc' = "event" /\ lastTdi' = tdi

(* Mutant: the read-back bytes are not accounted for. *)
shouldFlush_tx_only(w) == buf.txNumBytes + w.tx > maxTxBufferBytes

(* ft_buffer_ensure_can_append(): flush first if the command does not fit. *)
shouldFlush(w) ==
  \/ buf.txNumBytes + w.tx > maxTxBufferBytes
  \/ buf.rxNumBytes + w.rx > maxRxBufferBytes

(* Mutant: a command without read-back is appended first and flushed with  *)
(* the others.                                                             *)
AddWrite_flush_after(w, Continue) ==
  /\ UNCHANGED <<callVars, resetting, result>>
  /\ Continue
  /\ \/ /\ ~shouldFlush(w)
        /\ buf' = ft_buffer_append(buf, w)
        /\ UNCHANGED <<chip, copied, failures>>
     \/ /\ shouldFlush(w)
        /\ \E o \in Exchanged :
             /\ buf' = IF w.rx = 0 THEN o.buf ELSE ft_buffer_append(o.buf, w)
             /\ Flush([o EXCEPT !.chip = IF w.rx = 0 THEN ChipStep(o.chip, w) ELSE o.chip])

(* Adding command w to the buffer; if that works the call does Continue.   *)
AddWrite(w, Continue) ==
  /\ UNCHANGED callVars
  /\ \/ /\ ~shouldFlush(w)
        /\ buf' = ft_buffer_append(buf, w)
        /\ Continue
        /\ UNCHANGED <<resetting, result, chip, copied, failures>>
     \/ /\ shouldFlush(w)
        /\ \E o \in ft_buffer_flush :
             /\ Flush(o)
             /\ \/ /\ o.ok
                   /\ buf' = ft_buffer_append(o.buf, w)
                   /\ Continue
                   /\ UNCHANGED <<resetting, result>>
                \/ /\ ~o.ok
                   /\ buf' = o.buf
                   /\ CallbackFails

(* The pool of the command buffer has room for w. *)
PoolFits(w) ==
  \A b \in {IF shouldFlush(w) THEN Reclaimed ELSE buf} :
    NodeHead(b, w, ExtraHead(b, w)) <= scenario.poolBytes

(* The next extra in d->pool, for the observer of a bit-mode command. *)
AllocExtra(x) ==
  /\ extrasHead' = extrasHead + 1
  /\ extras' = IF extrasHead < Len(extras) THEN [extras EXCEPT ![extrasHead + 1] = x]
                                           ELSE Append(extras, x)

Command(kind, n, tx, rx, simple) ==
  [kind |-> kind, req |-> req, from |-> curIdx, n |-> n, tdi |-> lastTdi,
   tx |-> tx, rx |-> rx, simple |-> simple]

Handling(kinds) == pc = "event" /\ events # <<>> /\ event.kind \in kinds

-----------------------------------------------------------------------------
(* append_tms_shift_to_transaction()                                       *)

maxTmsBitsPerCommand == 6

bitsToTransfer == min(event.to - curIdx, maxTmsBitsPerCommand)

tmsWrite == Command(event.kind, bitsToTransfer, 3, 0, FALSE)

append_tms ==
  /\ Handling({"tms", "reset"}) /\ PoolFits(tmsWrite)
  /\ AddWrite(tmsWrite, HandedOver(curIdx + bitsToTransfer, lastTdi))
  /\ UNCHANGED poolVars

-----------------------------------------------------------------------------
(* append_tdi_shift_to_transaction(): a leading range up to an octet       *)
(* boundary, inner octets, a trailing range and the last bit, which goes   *)
(* with a TMS command because it may have to leave the shift state.        *)

lastBitIdx        == event.to - 1
numRegularBits    == lastBitIdx - event.from
numFirstOctetBits == 8 - (event.from % 8)
numLeadingBits    == min(IF numFirstOctetBits = 8 THEN 0 ELSE numFirstOctetBits, numRegularBits)
leadingOnly       == numLeadingBits = numRegularBits
(* Mutant: the inner range reaches over the last bit. *)
innerEndIdx_rounds_up == IF leadingOnly THEN -1 ELSE lastBitIdx + 8 - (lastBitIdx % 8)

innerEndIdx       == IF leadingOnly THEN -1 ELSE lastBitIdx - (lastBitIdx % 8)
numTrailingBits   == IF leadingOnly THEN 0 ELSE lastBitIdx % 8
innerOctetsToSend == min((innerEndIdx - curIdx) \div 8, chipBufferBytes)

AtLeading  == Handling({"tdi"}) /\ curIdx = event.from /\ numLeadingBits > 0
AtInner    == Handling({"tdi"}) /\ ~AtLeading /\ curIdx < lastBitIdx /\ curIdx < innerEndIdx
(* Mutant: a single trailing bit is overlooked. *)
AtTrailing_misses_one ==
  Handling({"tdi"}) /\ curIdx < lastBitIdx /\ curIdx = innerEndIdx /\ numTrailingBits > 1

AtTrailing == Handling({"tdi"}) /\ curIdx < lastBitIdx /\ curIdx = innerEndIdx /\ numTrailingBits > 0
AtLast     == Handling({"tdi"}) /\ curIdx = lastBitIdx

bitsWrite(n) == Command("bits", n, 3, 1, FALSE)
innerWrite   == Command("octets", innerOctetsToSend, 3, 0, FALSE)
payloadWrite == Command("payload", innerOctetsToSend, innerOctetsToSend, innerOctetsToSend, TRUE)

(* Mutant: samples are taken from the low end of the read-back byte. *)
append_bits_from_lsb(n, tdi) ==
  /\ extrasHead < scenario.poolExtras /\ PoolFits(bitsWrite(n))
  /\ AllocExtra([fromBit |-> 0, dst |-> req, toBit |-> curIdx, numBits |-> n])
  /\ AddWrite(bitsWrite(n), HandedOver(curIdx + n, tdi))

(* A bit-mode command of n bits: the extra is taken from d->pool first.    *)
append_bits(n, tdi) ==
  /\ extrasHead < scenario.poolExtras /\ PoolFits(bitsWrite(n))
  /\ AllocExtra([fromBit |-> 8 - n, dst |-> req, toBit |-> curIdx, numBits |-> n])
  /\ AddWrite(bitsWrite(n), HandedOver(curIdx + n, tdi))

append_tdi_leading  == AtLeading  /\ append_bits(numLeadingBits, lastTdi)
append_tdi_trailing == AtTrailing /\ append_bits(numTrailingBits, lastTdi)
append_tdi_last     == AtLast     /\ append_bits(1, <<req, lastBitIdx>>)

append_tdi_inner ==
  /\ AtInner /\ PoolFits(innerWrite)
  /\ AddWrite(innerWrite, pc' = "payload" /\ UNCHANGED <<events, curIdx, lastTdi>>)
  /\ UNCHANGED poolVars

append_tdi_payload ==
  /\ pc = "payload" /\ PoolFits(payloadWrite)
  /\ AddWrite(payloadWrite, HandedOver(curIdx + 8 * innerOctetsToSend, lastTdi))
  /\ UNCHANGED poolVars

-----------------------------------------------------------------------------
(* The flush_all event: d->pool is reclaimed whether or not the flush      *)
(* succeeded.                                                              *)

(* Mutant: the outcome of the flush is ignored. *)
flush_all_ignores_outcome ==
  /\ pc = "event" /\ events = <<>> /\ call # "set_tck_period"
  /\ \E o \in ft_buffer_flush : Flush(o) /\ buf' = o.buf
  /\ Return(IF resetting THEN "failed" ELSE "ok")
  /\ extrasHead' = 0
  /\ UNCHANGED <<callVars, extras>>

flush_all ==
  /\ pc = "event" /\ events = <<>> /\ call # "set_tck_period"
  /\ \E o \in ft_buffer_flush :
       /\ Flush(o) /\ buf' = o.buf
       /\ \/ o.ok /\ Return(IF resetting THEN "failed" ELSE "ok")
          \/ ~o.ok /\ CallbackFails
  /\ extrasHead' = 0
  /\ UNCHANGED <<callVars, extras>>

-----------------------------------------------------------------------------
(* set_tck_period() and check_device_in_sync(): the divisor command, then  *)
(* a bad opcode whose two-byte answer goes to a local variable.            *)

divisorWrite == Command("divisor", 0, 4, 0, FALSE)
syncWrite    == Command("sync", 0, 1, 2, TRUE)

add_divisor ==
  /\ Handling({"divisor"}) /\ PoolFits(divisorWrite)
  /\ AddWrite(divisorWrite, HandedOver(event.to, lastTdi))
  /\ UNCHANGED poolVars

add_sync ==
  /\ Handling({"sync"}) /\ PoolFits(syncWrite)
  /\ AddWrite(syncWrite, HandedOver(event.to, lastTdi))
  /\ UNCHANGED poolVars

check_device_in_sync ==
  /\ pc = "event" /\ events = <<>> /\ call = "set_tck_period"
  /\ \E o \in ft_buffer_flush :
       /\ Flush(o) /\ buf' = o.buf
       /\ Return(IF o.ok /\ Last(o.copies).good THEN "ok" ELSE "failed")
  /\ UNCHANGED <<callVars, poolVars>>

-----------------------------------------------------------------------------
(* Calls of the driver, by the server and by main().                       *)

Begin(c, evs) ==
  /\ pc = "idle" /\ req < MaxCalls
  /\ pc' = "event" /\ call' = c /\ req' = req + 1 /\ request' = evs
  /\ events' = evs /\ curIdx' = Head(evs).from /\ resetting' = FALSE
  /\ chip' = [chip EXCEPT !.req = req + 1, !.next = 0, !.bad = FALSE]
  /\ copied' = <<>> /\ failedBefore' = failures
  /\ UNCHANGED <<scenario, result, lastTdi, buf, poolVars, failures>>

shift_bits(evs) == Begin("shift_bits", evs)

SetTckEvents == << [kind |-> "divisor", from |-> 0, to |-> 0], [kind |-> "sync", from |-> 0, to |-> 0] >>

set_tck_period == Begin("set_tck_period", SetTckEvents)

(* deactivate(): the splitter's deinit is a tapReset, then ft_buffer_deinit. *)
deactivate == Begin("deactivate", <<ResetEvent>>)

ft_buffer_deinit ==
  /\ pc = "deinit"
  /\ \E o \in ft_buffer_flush : Flush(o) /\ buf' = o.buf
  /\ pc' = "off"
  /\ UNCHANGED <<callVars, events, curIdx, resetting, result, lastTdi, poolVars>>

(* d->pool can not hold another extra, or cmdBuffer.pool what the next     *)
(* command needs: FATAL.                                                   *)
ExtrasExhausted == (AtLeading \/ AtTrailing \/ AtLast) /\ extrasHead >= scenario.poolExtras

nextWrite ==
  CASE Handling({"tms", "reset"})         -> tmsWrite
    [] AtLeading \/ AtTrailing \/ AtLast  -> bitsWrite(1)
    [] AtInner                            -> innerWrite
    [] pc = "payload"                     -> payloadWrite
    [] Handling({"divisor"})              -> divisorWrite
    [] OTHER                              -> syncWrite

Writing == pc = "payload" \/ (pc = "event" /\ events # <<>>)

CommandPoolExhausted == Writing /\ ~PoolFits(nextWrite)

fatal_oom ==
  /\ ExtrasExhausted \/ CommandPoolExhausted
  /\ pc' = "aborted"
  /\ UNCHANGED <<callVars, events, curIdx, resetting, result, lastTdi, buf, poolVars, chip, copied,
                 failures>>

CallStep ==
  \/ append_tms
  \/ append_tdi_leading \/ append_tdi_inner \/ append_tdi_payload
  \/ append_tdi_trailing \/ append_tdi_last
  \/ flush_all
  \/ add_divisor \/ add_sync \/ check_device_in_sync
  \/ ft_buffer_deinit \/ fatal_oom

DriverCall == (\E evs \in scenario.requests : shift_bits(evs)) \/ set_tck_period \/ deactivate

Next == CallStep \/ DriverCall

Spec     == Init /\ [][Next]_vars
(* A call runs to its end on the only thread: nothing can hold it up but   *)
(* the chip.                                                               *)
FairSpec == Spec /\ WF_vars(CallStep)

-----------------------------------------------------------------------------
(* Properties.                                                             *)

AboutToFlush == (pc = "event" /\ events = <<>>) \/ (Writing /\ shouldFlush(nextWrite))

WriteCommands ==
  { w \in [kind : {"tms", "bits", "octets", "payload", "reset", "divisor", "sync"},
            req : Nat, from : Nat, n : Nat, tdi : Nat \X Nat, tx : Nat, rx : Nat, simple : BOOLEAN] :
      w.kind = "bits" => w.n \in 1..8 }
Observers == [data : Nat, node : Int, extra : Int, simple : BOOLEAN, addr : Nat, dst : Nat, toBit : Nat, n : Nat]
Buffers ==
  [tx : Seq(WriteCommands), txNumBytes : Nat, txBuffer : Int, rxNumBytes : Nat, rxBuffer : Int,
   observers : Seq(Observers), head : Nat]
Extras  == [fromBit : 0..8, dst : Nat, toBit : Nat, numBits : 1..8]
Samples == [req : Nat, from : Nat, n : 1..8]
Chips   == [req : Nat, expect : Nat, next : Nat, tdi : Nat \X Nat, bad : BOOLEAN, out : Seq(Samples)]
Copies  == [dst : Nat, toBit : Nat, numBits : Nat, good : BOOLEAN]

(* Variables have their types, and an index never runs past its event.     *)
TypeOK ==
  /\ scenario \in Scenarios
  /\ pc \in {"idle", "event", "payload", "deinit", "off", "aborted"}
  /\ call \in {"shift_bits", "set_tck_period", "deactivate"}
  /\ req \in 0..MaxCalls /\ failures \in 0..scenario.maxFailures /\ failedBefore \in 0..failures
  /\ request \in Seq(Events) /\ events \in Seq(Events)
  /\ curIdx \in Nat /\ (events # <<>> => curIdx \in event.from..event.to)
  /\ resetting \in BOOLEAN /\ lastTdi \in Nat \X Nat /\ result \in {"ok", "failed"}
  /\ buf \in Buffers /\ buf.head <= scenario.poolBytes
  /\ chip \in Chips /\ copied \in Seq(Copies) /\ extras \in Seq(Extras)
  /\ extrasHead \in 0..Len(extras) /\ Len(extras) <= scenario.poolExtras

(***************************************************************************)
(* The comment in ft_buffer_init(): what is buffered never makes the chip  *)
(* answer more than its own buffer holds, so a write can not block; and as *)
(* long as USB works, a flush reads exactly the bytes the chip answers.    *)
(***************************************************************************)
ReadbackFitsChip ==
  failures = 0 =>
    /\ buf.txNumBytes <= maxTxBufferBytes
    /\ buf.rxNumBytes <= chipBufferBytes
    /\ AboutToFlush => \A c \in AllSent : Len(c.out) = buf.rxNumBytes

tdiBits == UNION {e.from..(e.to - 1) : e \in {x \in Range(request) : x.kind = "tdi"}}

Covers(c, b) == c.toBit <= b /\ b < c.toBit + c.numBits

(***************************************************************************)
(* shift_bits() that returned true has put every bit of the vectors on the *)
(* wires, in order and once, TDI at rest wherever only TMS moves, and has  *)
(* stored the sample of every TDI bit, and nothing else, in the TDO        *)
(* vector, however the events were cut into commands and the commands into *)
(* flushes.                                                                *)
(***************************************************************************)
OkMeansDone ==
  pc = "idle" /\ req > 0 /\ call = "shift_bits" /\ result = "ok" =>
    /\ ~chip.bad /\ chip.expect = 0 /\ chip.next = Last(request).to
    /\ \A i \in DOMAIN copied : copied[i].good
    /\ \A b \in 0..(Last(request).to + 7) :
         Cardinality({i \in DOMAIN copied : Covers(copied[i], b)}) = IF b \in tdiBits THEN 1 ELSE 0

(* The same, as long as no D2XX call failed.                               *)
OkMeansDoneUntilFailure == failures = 0 => OkMeansDone

(* A D2XX failure during a call is reported by that call, whichever of the *)
(* buffered writes, flushes or resets met it.                              *)
FailuresReported == pc = "idle" /\ failures > failedBefore => result = "failed"

(***************************************************************************)
(* 128 KiB are enough for whatever the command buffer collects between two *)
(* flushes: TX and RX buffer, observer nodes and their extras.             *)
(***************************************************************************)
CommandPoolSuffices == ~CommandPoolExhausted

(* What a command buffer b points to in its pool: of each observer, the    *)
(* node and perhaps the extra, and the two buffers.                        *)
Block(of, i, at, size) == [of |-> of, i |-> i, at |-> at, size |-> size]

Simple(b)  == {i \in 1..Len(b.observers) : b.observers[i].simple}
Objects(b) ==
  {Block("node", i, b.observers[i].node, NodeSz) : i \in 1..Len(b.observers)}
    \cup {Block("extra", i, b.observers[i].extra, ByteExtraSz) : i \in Simple(b)}

LiveBlocks(b) ==
  Objects(b) \cup (IF b.txBuffer = NULL THEN {} ELSE {Block("tx", 0, b.txBuffer, maxTxBufferBytes)})
             \cup (IF b.rxBuffer = NULL THEN {} ELSE {Block("rx", 0, b.rxBuffer, maxRxBufferBytes)})

(* What all that takes, the bytes skipped to align an object included.     *)
LiveBytes(b) ==
  (IF b.txBuffer = NULL THEN 0 ELSE maxTxBufferBytes) + (IF b.rxBuffer = NULL THEN 0 ELSE maxRxBufferBytes)
  + (NodeSz + Align - 1) * Len(b.observers) + (ByteExtraSz + Align - 1) * Cardinality(Simple(b))

(* The blocks are below the head and do not overlap.                       *)
Packed(blocks, head) ==
  /\ \A b \in blocks : b.at >= 0 /\ b.at + b.size <= head
  /\ \A b, c \in blocks : b = c \/ b.at + b.size <= c.at \/ c.at + c.size <= b.at

(***************************************************************************)
(* Whatever was flushed, reclaimed or left over by a failed flush, the two *)
(* buffers, the observers and their extras are apart from one another,     *)
(* aligned and in the used part of the pool, the bytes collected fit their *)
(* buffer, and no more than one TX buffer per failure is used by nothing.  *)
(***************************************************************************)
LiveBlocksApart ==
  /\ \A live \in {LiveBlocks(buf)} : Packed(live, buf.head)
  /\ \A b \in Objects(buf) : b.at % Align = 0
  /\ buf.head <= maxTxBufferBytes * failures + LiveBytes(buf)
  /\ buf.txNumBytes <= maxTxBufferBytes /\ buf.rxNumBytes <= maxRxBufferBytes

-----------------------------------------------------------------------------
(* The inductive invariant of the proofs.                                  *)

InCall == pc \in {"event", "payload"}

IsCall(c, evs) ==
  CASE c = "shift_bits"     -> evs \in scenario.requests
    [] c = "set_tck_period" -> evs = SetTckEvents
    [] c = "deactivate"     -> evs = <<ResetEvent>>

(* What is left of a call is the end of its request, or of the reset after *)
(* a failure, and an event that is cut into commands is left at a place    *)
(* from which the next cut can go on.                                      *)
Progress ==
  /\ req > 0 => IsCall(call, request)
  /\ InCall => req > 0
  /\ pc = "idle" => call # "deactivate"
  /\ ~InCall /\ pc # "aborted" =>
       events = <<>> /\ (req > 0 /\ failures = 0 => curIdx = request[Len(request)].to)
  /\ InCall /\ ~resetting =>
       /\ Len(events) <= Len(request)
       /\ \A i \in 1..Len(events) : events[i] = request[i + Len(request) - Len(events)]
       /\ events = <<>> => curIdx = request[Len(request)].to
  /\ resetting => events \in {<<ResetEvent>>, <<>>}
  /\ pc = "event" /\ events # <<>> =>
       /\ event.kind \in {"tms", "reset", "tdi"} => curIdx < event.to
       /\ event.kind = "tdi" => curIdx \in {event.from, lastBitIdx} \/ curIdx % 8 = 0
  /\ pc = "payload" =>
       /\ events # <<>> /\ event.kind = "tdi" /\ ~resetting /\ curIdx < lastBitIdx
       /\ curIdx % 8 = 0 /\ curIdx + 8 <= innerEndIdx

(* A failure is remembered until the call returns. *)
FailureKept ==
  /\ resetting => (InCall \/ pc = "aborted") /\ call = "shift_bits" /\ failures > failedBefore
  /\ InCall /\ failures > failedBefore => resetting
  /\ FailuresReported

(* An observer refers to bytes below rxNumBytes, and to an extra there is. *)
ObserverHolds(o, rxNumBytes) ==
  /\ o.n > 0 /\ o.data + o.n <= rxNumBytes
  /\ ~o.simple => o.n = 1 /\ o.addr \in 1..Len(extras)
  /\ ~o.simple /\ failures = 0 => o.addr <= extrasHead

(* What was appended fits the buffer, and so do the observers. *)
BufferHolds ==
  /\ buf.txNumBytes <= maxTxBufferBytes /\ buf.rxNumBytes <= maxRxBufferBytes
  /\ \A i \in 1..Len(buf.observers) : ObserverHolds(buf.observers[i], buf.rxNumBytes)

(* What the client's vector, of which cp is stored, will hold once buffer b *)
(* is flushed and the chip is c.                                           *)
Stored(b, cp, c) ==
  [ i \in 1..(Len(cp) + Len(b.observers)) |->
      IF i <= Len(cp) THEN cp[i] ELSE Copy(b.observers[i - Len(cp)], c.out) ]

BitsOf(x) == x.toBit..(x.toBit + x.numBits - 1)

Tiles(stored, bits) ==
  /\ \A i \in DOMAIN stored : stored[i].good
  /\ \A i, j \in DOMAIN stored : i # j => BitsOf(stored[i]) \cap BitsOf(stored[j]) = {}
  /\ UNION {BitsOf(stored[i]) : i \in DOMAIN stored} = bits

(* Bits of the vectors handed over: a reset has none. *)
handedOver == IF call = "deactivate" THEN 0 ELSE curIdx

(* Chip c is where the driver is in the call. *)
Ready(c) ==
  /\ c.req = req /\ ~c.bad /\ c.next = handedOver
  /\ events = <<>> \/ event.kind # "tdi" => c.tdi = lastTdi
  /\ c.expect = IF pc = "payload" THEN innerOctetsToSend ELSE 0

(* There a flush of buffer b would bring chip k, and every TDI bit handed  *)
(* over would be stored once, and good, in addition to cp.                 *)
SyncAt(b, k, cp) ==
  \A c \in Fed(k, b.tx)[Len(b.tx)] :
    /\ Ready(c) /\ Len(c.out) = b.rxNumBytes
    /\ req > 0 /\ call = "shift_bits" => Tiles(Stored(b, cp, c), {i \in tdiBits : i < curIdx})

(* As long as no D2XX call failed, driver, buffer and chip agree.          *)
InSync ==
  failures = 0 =>
    /\ ~chip.bad /\ chip.next <= handedOver
    /\ pc = "idle" => buf = EmptyBuffer
    /\ pc # "aborted" => SyncAt(buf, chip, copied)

(***************************************************************************)
(* Of request, command buffer, observers and chip, what every step of a    *)
(* call keeps (ftdi_generic.c:235).                                        *)
(***************************************************************************)
IndInv == TypeOK /\ Progress /\ FailureKept /\ BufferHolds /\ InSync

-----------------------------------------------------------------------------
(* Neither pool is ever exhausted (txvc_mempool_alloc_*() would be FATAL). *)
NoAbort == pc # "aborted"

(* Observers write only into vectors of the call in progress: the ones of  *)
(* an earlier call may have been freed by the server since.                *)
OwnVectorsOnly == \A i \in DOMAIN copied : copied[i].dst = req

(***************************************************************************)
(* Unless a D2XX call fails, every call returns or aborts: the ranges of a *)
(* vector lead to its end, and FT_Read is never asked to wait for a byte   *)
(* the chip has no reason to send.                                         *)
(***************************************************************************)
CallsReturn == pc = "event" ~> (pc \in {"idle", "off", "aborted"} \/ failures > 0)

(***************************************************************************)
(* The driver is the sink the splitter expects (jtag_splitter_callback()): *)
(* the chip is given the bits in order, none before the driver was, none   *)
(* is still buffered when flush_all returned true, and the next vector     *)
(* starts on an idle chip.  A chip that was misled has shifted -1 bits.    *)
(***************************************************************************)
Sink == INSTANCE JtagSink WITH handed <- curIdx, made <- IF chip.bad THEN -1 ELSE chip.next,
                               failed <- failures > 0
ImplementsSink == Sink!Spec
=============================================================================
