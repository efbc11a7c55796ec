------------------------------- MODULE Server -------------------------------
(***************************************************************************)
(* libtxvc/server.c and the part of txvc/txvc.c around it: activate the    *)
(* driver, serve one XVC connection after the other until SIGINT, and      *)
(* deactivate the driver.                                                  *)
(*                                                                         *)
(* Three parties interleave: the server thread, one action per system call *)
(* or driver call; the peer, which connects, has its bytes delivered one   *)
(* by one and may vanish between any two of them; and the signal handler,  *)
(* which runs between any two steps of the server and interrupts it only   *)
(* if it is blocked inside a system call.                                  *)
(***************************************************************************)
EXTENDS Integers, Sequences

CONSTANTS
  Sessions,    \* what clients may send: a set of sequences of commands
  MaxConns     \* bound: connections per behaviour
ASSUME MaxConnsAssumption == MaxConns \in Nat

-----------------------------------------------------------------------------
(* The XVC byte stream.  A command is [cmd, val]: val is the integer that  *)
(* follows "settck:" and "shift:", unused otherwise.  A byte is a pair of  *)
(* what it belongs to and a position or owner, enough to tell all bytes of *)
(* a session apart; the four bytes of an integer travel as one.            *)

Commands == {"getinfo", "settck", "shift"}
Request  == [cmd : Commands \cup {"junk"}, val : Int]

(* Clients send commands and garbage; garbage is a byte at least. *)
ASSUME SessionsAssumption ==
  /\ Sessions \subseteq Seq(Request)
  /\ \A s \in Sessions : \A k \in 1..Len(s) : s[k].cmd = "junk" => s[k].val > 0

PrefixSz == [getinfo |-> 8, settck |-> 7, shift |-> 6]
PeekSz   == 16                                   \* sizeof(command)

bytesPerVector(n) == n \div 8 + (IF n % 8 # 0 THEN 1 ELSE 0)

Prefix(cmd) == [i \in 1..PrefixSz[cmd] |-> <<cmd, i>>]

(* The bytes of command number k of a session. *)
Encode(c, k) ==
  CASE c.cmd = "getinfo" -> Prefix("getinfo")
    [] c.cmd = "settck"  -> Append(Prefix("settck"), <<"int", c.val>>)
    [] c.cmd = "shift"   ->
         LET n == IF c.val > 0 THEN bytesPerVector(c.val) ELSE 0
         IN  Append(Prefix("shift"), <<"int", c.val>>)
               \o [i \in 1..n |-> <<"tms", k>>] \o [i \in 1..n |-> <<"tdi", k>>]
    [] OTHER             -> [i \in 1..c.val |-> <<"junk", k>>]

(* Streams[s][k]: the bytes of the first k commands of session s. *)
StreamOf(s) ==
  LET upTo[k \in 0..Len(s)] == IF k = 0 THEN <<>> ELSE upTo[k - 1] \o Encode(s[k], k)
  IN  upTo
Streams == [s \in Sessions \cup {<<>>} |-> StreamOf(s)]

-----------------------------------------------------------------------------
VARIABLES
  pc,               \* place of the server thread
  blocked,          \* ... and whether it sleeps in the system call there
  shouldTerminate,
  driver,           \* "inactive" or "active"
  peer,             \* "none", "connected", "closed", "reset"
  room,             \* what the socket buffers take of a response: "all", "part", "none"
  pipelined,        \* history: the client was ahead of the answers when it left
  conns,            \* connections made so far
  session, arrived, \* the client's commands and how many bytes arrived here
  consumed,         \* how many of them the server took
  numBits,          \* local of cmd_shift
  vectorNumBytes,   \* struct connection
  vectors,          \* heap blocks it owns
  tmsVector, tdiVector,
  response,         \* what is about to be sent
  replies           \* history: responses sent in this connection

wireVars == <<peer, room, pipelined, conns, session, arrived>>
connVars == <<consumed, numBits, vectorNumBytes, vectors, tmsVector, tdiVector, response, replies>>
vars == <<pc, blocked, shouldTerminate, driver, wireVars, connVars>>

(* main() returned, SIGPIPE ended the process, or FATAL() or a trap did. *)
Ended == {"exit", "killed", "aborted"}

Recvs == {"peek", "settck", "shift", "recv_tms", "recv_tdi"}

(* A connection is being served. *)
Serving == pc \in {"command_loop", "getinfo", "shift_bits", "send", "dealloc"} \cup Recvs

bytes     == Streams[session][Len(session)]
available == arrived - consumed
gone      == peer \in {"closed", "reset"}

Init ==
  /\ pc = "activate" /\ blocked = FALSE /\ shouldTerminate = FALSE
  /\ driver = "inactive"
  /\ peer = "none" /\ room = "all" /\ pipelined = FALSE /\ conns = 0 /\ session = <<>> /\ arrived = 0
  /\ consumed = 0 /\ numBits = 0 /\ vectorNumBytes = 0 /\ vectors = 0
  /\ tmsVector = <<>> /\ tdiVector = <<>> /\ response = <<>> /\ replies = <<>>

-----------------------------------------------------------------------------
(* Client and network (external).                                          *)

Connect ==
  /\ peer = "none" /\ conns < MaxConns
  /\ pc \notin {"activate", "setup", "listen"} \cup Ended
  /\ peer' = "connected" /\ conns' = conns + 1
  /\ session' \in Sessions /\ arrived' = 0 /\ pipelined' = FALSE
  /\ UNCHANGED <<pc, blocked, shouldTerminate, driver, room, connVars>>

Deliver ==
  /\ peer = "connected" /\ arrived < Len(bytes)
  /\ arrived' = arrived + 1
  /\ UNCHANGED <<pc, blocked, shouldTerminate, driver, peer, room, pipelined, conns, session, connVars>>

(* The client reads what was sent to it: the rest of the response fits. *)
Read ==
  /\ peer = "connected" /\ room # "all"
  /\ room' = "all"
  /\ UNCHANGED <<pc, blocked, shouldTerminate, driver, peer, pipelined, conns, session,
                 arrived, connVars>>

(* The commands of the session that arrived in full. *)
ArrivedCommands ==
  {k \in 1..Len(session) : arrived >= Len(Streams[session][k])}

(* The client closes its socket, both directions of it, maybe in the       *)
(* middle of a command, maybe ahead of the answers: with more than one     *)
(* command unanswered, or before it read the answer to an earlier one.     *)
Close ==
  /\ peer = "connected"
  /\ peer' = "closed"
  /\ pipelined' = \/ room = "none"
                   \/ \E k \in ArrivedCommands : k > (IF Serving THEN Len(replies) ELSE 0) + 1
  /\ UNCHANGED <<pc, blocked, shouldTerminate, driver, room, conns, session, arrived, connVars>>

-----------------------------------------------------------------------------
(* System calls.  The server is at a call when pc names it; it completes   *)
(* when it can, sleeps when it cannot, and fails when a signal finds it    *)
(* asleep.                                                                 *)

(* Mutant: the peek waits for its whole buffer, as with MSG_WAITALL. *)
Wanted_whole_buffer ==
  CASE pc = "peek"                    -> PeekSz
    [] pc \in {"recv_tms", "recv_tdi"} -> bytesPerVector(numBits)
    [] OTHER                          -> 1

Wanted ==            \* bytes a receiving call asks for
  IF pc \in {"recv_tms", "recv_tdi"} THEN bytesPerVector(numBits) ELSE 1

(* recv returns once the bytes are there, or the end of the stream is;     *)
(* send once the socket buffers took the response, or the client is gone.  *)
CanReturn ==
  CASE pc = "accept" -> peer # "none"
    [] pc = "send"   -> room = "all" \/ gone
    [] OTHER         -> available >= Wanted \/ gone

(* The response fits in part, or not at all since earlier ones of the      *)
(* connection fill the buffers: send sleeps until the client reads.        *)
Block ==
  /\ ~blocked /\ blocked' = TRUE
  /\ \/ pc \in Recvs \cup {"accept"} /\ ~CanReturn /\ UNCHANGED room
     \/ pc = "send" /\ ~gone /\ room' \in IF replies = <<>> THEN {"part"} ELSE {"part", "none"}
  /\ UNCHANGED <<pc, shouldTerminate, driver, peer, pipelined, conns, session, arrived, connVars>>

(* Mutant: interrupted calls are restarted, as with SA_RESTART. *)
sigint_handler_restarts ==
  /\ pc \notin Ended
  /\ shouldTerminate' = TRUE
  /\ UNCHANGED <<pc, blocked, driver, wireVars, connVars>>

(* sigint_handler(): no SA_RESTART, so that a sleeping call returns EINTR, *)
(* or send what it managed to send; accept is then tried again, the other  *)
(* calls give up the connection.                                           *)
sigint_handler ==
  /\ pc \notin Ended
  /\ shouldTerminate' = TRUE
  /\ IF blocked /\ ~CanReturn
       THEN /\ blocked' = FALSE /\ room' = "all"
            /\ pc' = IF pc = "accept" THEN "accept_loop" ELSE "dealloc"
       ELSE UNCHANGED <<pc, blocked, room>>
  /\ UNCHANGED <<driver, peer, pipelined, conns, session, arrived, connVars>>

-----------------------------------------------------------------------------
(* main() and run_with_address()                                           *)

Goto(label) == pc' = label /\ blocked' = FALSE

activate ==
  /\ pc = "activate"
  /\ \/ driver' = "active" /\ Goto("setup")
     \/ driver' = driver /\ Goto("exit")
  /\ UNCHANGED <<shouldTerminate, wireVars, connVars>>

(* txvc_driver_wrapper_setup(): the -t period is set and what comes of it  *)
(* ignored, but a period for which the driver has no divider is a trap     *)
(* (modules TckPeriod and Txvc).                                           *)
wrapper_setup ==
  /\ pc = "setup"
  /\ Goto("listen") \/ Goto("aborted")
  /\ UNCHANGED <<shouldTerminate, driver, wireVars, connVars>>

(* Mutant: a server that can not listen leaves at once. *)
listen_exits ==
  /\ pc = "listen"
  /\ Goto("accept_loop") \/ Goto("exit")
  /\ UNCHANGED <<shouldTerminate, driver, wireVars, connVars>>

(* txvc_run_server(): the address is bad, or socket, bind or listen fails. *)
listen ==
  /\ pc = "listen"
  /\ Goto("accept_loop") \/ Goto("deactivate")
  /\ UNCHANGED <<shouldTerminate, driver, wireVars, connVars>>

accept_loop ==
  /\ pc = "accept_loop"
  /\ Goto(IF shouldTerminate THEN "deactivate" ELSE "accept")
  /\ UNCHANGED <<shouldTerminate, driver, wireVars, connVars>>

accept ==
  /\ pc = "accept" /\ CanReturn
  /\ Goto("command_loop")
  /\ consumed' = 0 /\ vectorNumBytes' = 0 /\ tmsVector' = <<>> /\ tdiVector' = <<>>
  /\ replies' = <<>>
  /\ UNCHANGED <<shouldTerminate, driver, wireVars, numBits, vectors, response>>

(* accept fails for another reason, e.g. the connection was aborted. *)
accept_fails ==
  /\ pc = "accept" /\ CanReturn
  /\ Goto("accept_loop")
  /\ peer' = "none"
  /\ UNCHANGED <<shouldTerminate, driver, room, pipelined, conns, session, arrived, connVars>>

(* run_connectin() returned: deallocate_vectors(), shutdown(), close(). *)
end_connection ==
  /\ pc = "dealloc"
  /\ Goto("accept_loop")
  /\ vectors' = 0 /\ vectorNumBytes' = 0
  /\ peer' = "none"
  /\ UNCHANGED <<shouldTerminate, driver, room, pipelined, conns, session, arrived,
                 consumed, numBits, tmsVector, tdiVector, response, replies>>

deactivate ==
  /\ pc = "deactivate"
  /\ driver' = "inactive" /\ Goto("exit")
  /\ UNCHANGED <<shouldTerminate, wireVars, connVars>>

-----------------------------------------------------------------------------
(* run_connectin()                                                         *)

command_loop ==
  /\ pc = "command_loop"
  /\ Goto(IF shouldTerminate THEN "dealloc" ELSE "peek")
  /\ UNCHANGED <<shouldTerminate, driver, wireVars, connVars>>

sockRead == IF available < PeekSz THEN available ELSE PeekSz
command  == SubSeq(bytes, consumed + 1, consumed + sockRead)

(* Mutant: as much of a prefix as is there is compared. *)
matches_partial(cmd) ==
  LET n == IF sockRead < PrefixSz[cmd] THEN sockRead ELSE PrefixSz[cmd]
  IN  SubSeq(command, 1, n) = SubSeq(Prefix(cmd), 1, n)

matches(cmd) == sockRead >= PrefixSz[cmd] /\ SubSeq(command, 1, PrefixSz[cmd]) = Prefix(cmd)

(* More of a prefix may be under way as long as fewer bytes than the       *)
(* longest prefix are here, whatever they are.                             *)
tooShort(cmd) == sockRead < PrefixSz[cmd]

(* Mutant: end of the stream is taken for "nothing there yet". *)
peek_end_of_stream_ignored ==
  /\ pc = "peek" /\ available = 0 /\ gone
  /\ Goto("command_loop")
  /\ UNCHANGED <<shouldTerminate, driver, wireVars, connVars>>

peek_end_of_stream ==
  /\ pc = "peek" /\ available = 0 /\ gone
  /\ Goto("dealloc")
  /\ UNCHANGED <<shouldTerminate, driver, wireVars, connVars>>

(* The prefix is popped from the socket and its handler entered. *)
peek_command(cmd) ==
  /\ pc = "peek" /\ available > 0 /\ CanReturn /\ matches(cmd)
  /\ consumed' = consumed + PrefixSz[cmd]
  /\ Goto(cmd)
  /\ UNCHANGED <<shouldTerminate, driver, wireVars, numBits, vectorNumBytes, vectors,
                 tmsVector, tdiVector, response, replies>>

peek_no_command ==
  /\ pc = "peek" /\ available > 0 /\ CanReturn /\ \A cmd \in Commands : ~matches(cmd)
  /\ Goto(IF \E cmd \in Commands : tooShort(cmd) THEN "command_loop" ELSE "dealloc")
  /\ UNCHANGED <<shouldTerminate, driver, wireVars, connVars>>

(* Mutant: what a short recv_data() left in the vector is used. *)
recv_short_accepted ==
  /\ pc \in Recvs \ {"peek"} /\ available < Wanted /\ gone
  /\ consumed' = arrived
  /\ Goto(IF pc = "recv_tms" THEN "recv_tdi" ELSE IF pc = "recv_tdi" THEN "shift_bits" ELSE "dealloc")
  /\ UNCHANGED <<shouldTerminate, driver, wireVars, numBits, vectorNumBytes, vectors,
                 tmsVector, tdiVector, response, replies>>

(* recv_data() comes back short: end of the stream, or an error. *)
recv_short ==
  /\ pc \in Recvs \ {"peek"} /\ available < Wanted /\ gone
  /\ consumed' = arrived
  /\ Goto("dealloc")
  /\ UNCHANGED <<shouldTerminate, driver, wireVars, numBits, vectorNumBytes, vectors,
                 tmsVector, tdiVector, response, replies>>

-----------------------------------------------------------------------------
(* Handlers                                                                *)

Respond(r) == response' = r /\ Goto("send")

nextInt == bytes[consumed + 1][2]

(* A driver without a vector limit is refused. *)
cmd_getinfo ==
  /\ pc = "getinfo"
  /\ \/ Respond(<<"info", 0>>)
     \/ Goto("dealloc") /\ UNCHANGED response
  /\ UNCHANGED <<shouldTerminate, driver, wireVars, consumed, numBits, vectorNumBytes, vectors,
                 tmsVector, tdiVector, replies>>

(* Mutant: a refused period is passed over. *)
cmd_settck_skips ==
  /\ pc = "settck" /\ available >= Wanted
  /\ consumed' = consumed + 1
  /\ \/ nextInt >= 0 /\ Respond(<<"period", nextInt>>)
     \/ Goto("command_loop") /\ UNCHANGED response
     \/ nextInt >= 0 /\ Goto("aborted") /\ UNCHANGED response
  /\ UNCHANGED <<shouldTerminate, driver, wireVars, numBits, vectorNumBytes, vectors,
                 tmsVector, tdiVector, replies>>

(* The driver may refuse the period, or trap on it (module TckPeriod). *)
cmd_settck ==
  /\ pc = "settck" /\ available >= Wanted
  /\ consumed' = consumed + 1
  /\ \/ nextInt >= 0 /\ Respond(<<"period", nextInt>>)
     \/ Goto("dealloc") /\ UNCHANGED response
     \/ nextInt >= 0 /\ Goto("aborted") /\ UNCHANGED response
  /\ UNCHANGED <<shouldTerminate, driver, wireVars, numBits, vectorNumBytes, vectors,
                 tmsVector, tdiVector, replies>>

(* Mutant: vectors are allocated once per connection. *)
allocate_vectors_once(numBytes) ==
  IF vectorNumBytes = 0
    THEN vectorNumBytes' = numBytes /\ vectors' = 3
    ELSE UNCHANGED <<vectorNumBytes, vectors>>

(* allocate_vectors() releases what it had and takes three blocks. *)
allocate_vectors(numBytes) ==
  IF numBytes > vectorNumBytes
    THEN vectorNumBytes' = numBytes /\ vectors' = 3
    ELSE UNCHANGED <<vectorNumBytes, vectors>>

cmd_shift ==
  /\ pc = "shift" /\ available >= Wanted
  /\ consumed' = consumed + 1
  /\ numBits' = nextInt
  /\ \/ nextInt <= 0 /\ Goto("dealloc") /\ UNCHANGED <<vectorNumBytes, vectors>>
     \/ nextInt > 0 /\ Goto("recv_tms") /\ allocate_vectors(bytesPerVector(nextInt))
     \/ nextInt > 0 /\ Goto("aborted") /\ UNCHANGED <<vectorNumBytes, vectors>>   \* FATAL: OOM
  /\ UNCHANGED <<shouldTerminate, driver, wireVars, tmsVector, tdiVector, response, replies>>

Received == SubSeq(bytes, consumed + 1, consumed + Wanted)

cmd_shift_recv_tms ==
  /\ pc = "recv_tms" /\ available >= Wanted
  /\ tmsVector' = Received /\ consumed' = consumed + Wanted
  /\ Goto("recv_tdi")
  /\ UNCHANGED <<shouldTerminate, driver, wireVars, numBits, vectorNumBytes, vectors,
                 tdiVector, response, replies>>

cmd_shift_recv_tdi ==
  /\ pc = "recv_tdi" /\ available >= Wanted
  /\ tdiVector' = Received /\ consumed' = consumed + Wanted
  /\ Goto("shift_bits")
  /\ UNCHANGED <<shouldTerminate, driver, wireVars, numBits, vectorNumBytes, vectors,
                 tmsVector, response, replies>>

(* driver->shift_bits() may fail, or end the process (FATAL in FtdiDriver). *)
cmd_shift_shift_bits ==
  /\ pc = "shift_bits"
  /\ \/ Respond(<<"tdo", bytesPerVector(numBits)>>)
     \/ (Goto("dealloc") \/ Goto("aborted")) /\ UNCHANGED response
  /\ UNCHANGED <<shouldTerminate, driver, wireVars, consumed, numBits, vectorNumBytes, vectors,
                 tmsVector, tdiVector, replies>>

-----------------------------------------------------------------------------
(* send_data().  Sending to a client that is gone succeeds at first and    *)
(* makes its host answer with a reset; sending after that raises SIGPIPE,  *)
(* which nobody handles.  A send that the reset finds asleep returns what  *)
(* it sent of the response, and raises SIGPIPE when that is nothing.       *)

Sent ==
  /\ peer # "reset" /\ room = "all"
  /\ replies' = Append(replies, response) /\ Goto("command_loop")
  /\ peer' \in IF peer = "closed" THEN {"closed", "reset"} ELSE {peer}

Sigpipe ==
  /\ peer = "reset" \/ room = "none"
  /\ Goto("killed") /\ UNCHANGED <<replies, peer>>

(* Mutant: what a short send() left is sent by another one. *)
send_data_in_parts ==
  /\ pc = "send" /\ CanReturn
  /\ \/ Sent
     \/ /\ peer # "reset"
        /\ Goto("send") /\ UNCHANGED replies
        /\ peer' \in IF peer = "closed" THEN {"closed", "reset"} ELSE {peer}
     \/ Sigpipe
  /\ room' = "all"
  /\ UNCHANGED <<shouldTerminate, driver, pipelined, conns, session, arrived,
                 consumed, numBits, vectorNumBytes, vectors, tmsVector, tdiVector, response>>

send_data ==
  /\ pc = "send" /\ CanReturn
  /\ \/ Sent
     \/ /\ peer # "reset"                        \* error, or not in full
        /\ Goto("dealloc") /\ UNCHANGED <<replies, peer>>
     \/ Sigpipe
  /\ room' = "all"
  /\ UNCHANGED <<shouldTerminate, driver, pipelined, conns, session, arrived,
                 consumed, numBits, vectorNumBytes, vectors, tmsVector, tdiVector, response>>

-----------------------------------------------------------------------------
Handlers ==
  \/ cmd_getinfo \/ cmd_settck
  \/ cmd_shift \/ cmd_shift_recv_tms \/ cmd_shift_recv_tdi \/ cmd_shift_shift_bits
  \/ send_data

ServerStep ==
  \/ activate \/ wrapper_setup \/ listen \/ accept_loop \/ accept \/ accept_fails \/ end_connection \/ deactivate
  \/ command_loop \/ peek_end_of_stream \/ peek_no_command
  \/ \E cmd \in Commands : peek_command(cmd)
  \/ recv_short \/ Handlers \/ Block

Client == Connect \/ Deliver \/ Read \/ Close

Done == pc \in Ended /\ UNCHANGED vars

Next == ServerStep \/ Client \/ sigint_handler \/ Done

(* The thread runs whenever it can; clients and users promise nothing.     *)
Spec     == Init /\ [][Next]_vars
FairSpec == Spec /\ WF_vars(ServerStep)

-----------------------------------------------------------------------------
(* Properties.                                                             *)

Labels ==
  {"activate", "setup", "listen", "accept_loop", "accept", "command_loop", "getinfo",
   "shift_bits", "send", "dealloc", "deactivate"} \cup Recvs \cup Ended

Responses == {"info", "period", "tdo", "none"} \X Int

(* Variables have their types, and the server is never ahead of the wire.  *)
TypeOK ==
  /\ pc \in Labels /\ blocked \in BOOLEAN /\ shouldTerminate \in BOOLEAN
  /\ driver \in {"inactive", "active"}
  /\ peer \in {"none", "connected", "closed", "reset"}
  /\ room \in {"all", "part", "none"} /\ pipelined \in BOOLEAN
  /\ conns \in 0..MaxConns
  /\ session \in Sessions \cup {<<>>} /\ arrived \in 0..Len(bytes)
  /\ numBits \in Int /\ vectorNumBytes \in Nat /\ vectors \in {0, 3}
  /\ replies \in Seq(Responses)
  /\ Serving => consumed \in 0..arrived

(* The answer the protocol has for a command the server answers. *)
Answer(c) ==
  CASE c.cmd = "getinfo" -> <<"info", 0>>
    [] c.cmd = "settck"  -> <<"period", c.val>>
    [] c.cmd = "shift"   -> <<"tdo", bytesPerVector(c.val)>>
    [] OTHER             -> <<"none", 0>>

(***************************************************************************)
(* However the bytes are cut up on their way, the n-th response of a       *)
(* connection answers the client's n-th command: the server never loses    *)
(* its place in the byte stream, and a command that fails is not skipped   *)
(* but ends the connection.                                                *)
(***************************************************************************)
RepliesInOrder ==
  Serving => /\ Len(replies) <= Len(session)
             /\ \A i \in 1..Len(replies) : replies[i] = Answer(session[i])

(***************************************************************************)
(* The driver is asked to shift only vectors that arrived in full, TMS and *)
(* TDI of one and the same command, for the number of bits it announced: a *)
(* client that vanishes or a signal in the middle of the vectors never     *)
(* makes the device see a part of them.                                    *)
(***************************************************************************)
ShiftsWholeVectors ==
  pc = "shift_bits" =>
    LET k == Len(replies) + 1
        n == bytesPerVector(numBits)
    IN  /\ k <= Len(session) /\ session[k] = [cmd |-> "shift", val |-> numBits]
        /\ tmsVector = [i \in 1..n |-> <<"tms", k>>]
        /\ tdiVector = [i \in 1..n |-> <<"tdi", k>>]

(***************************************************************************)
(* The three vectors are allocated and large enough whenever bytes are     *)
(* received into them, shifted or sent, over all commands of a connection, *)
(* and a connection that ended leaves none behind.                         *)
(***************************************************************************)
VectorsFit ==
  /\ pc \in {"recv_tms", "recv_tdi", "shift_bits"} =>
       vectors = 3 /\ bytesPerVector(numBits) <= vectorNumBytes
  /\ pc = "send" /\ response[1] = "tdo" => vectors = 3 /\ response[2] <= vectorNumBytes
  /\ ~Serving /\ pc \notin {"killed", "aborted"} => vectors = 0

(***************************************************************************)
(* The driver is active as long as anything may call it, and main() does   *)
(* not return with the driver active.                                      *)
(***************************************************************************)
DriverReleased ==
  /\ Serving => driver = "active"
  /\ pc = "exit" => driver = "inactive"

(***************************************************************************)
(* SIGPIPE ends the process, and leaves the driver active, only when a     *)
(* client goes away ahead of the answers, with two or more whole commands  *)
(* unanswered or an answer unread when it sent the next command: a         *)
(* response is one send(), so that a client which waits for each answer    *)
(* before it sends the next command can leave at any byte and the server   *)
(* survives.                                                               *)
(***************************************************************************)
SigpipeNeedsPipelining == pc = "killed" => pipelined

-----------------------------------------------------------------------------
(* The inductive invariant of the proofs.                                  *)

(* Who is where: the thread sleeps only in calls that can, the driver is   *)
(* active from activation to deactivation, and a client that is served is  *)
(* there or was.                                                           *)
InControl ==
  /\ blocked => pc \in Recvs \cup {"accept", "send"}
  /\ room # "all" => blocked /\ pc = "send"
  /\ driver = IF pc \in {"activate", "exit"} THEN "inactive" ELSE "active"
  /\ pc \in {"activate", "setup", "listen"} => peer = "none"
  /\ Serving => peer # "none"
  /\ peer = "reset" => Serving \/ pc \in Ended

(* The vectors are what vectorNumBytes says, and only a connection has any. *)
VectorsHeld ==
  /\ Serving => (vectors = 3 <=> vectorNumBytes > 0)
  /\ pc \in {"recv_tms", "recv_tdi", "shift_bits"} => bytesPerVector(numBits) <= vectorNumBytes
  /\ pc = "send" /\ response[1] = "tdo" => 0 < response[2] /\ response[2] <= vectorNumBytes
  /\ ~Serving /\ pc \notin {"killed", "aborted"} => vectors = 0

(* Commands answered so far, the bytes of k commands, the command at hand. *)
answered == Len(replies)
Start(k) == Len(Streams[session][k])
current  == session[answered + 1]

(* The command at hand is a cmd, of which that many bytes were taken. *)
Amid(cmd, taken) ==
  answered < Len(session) /\ current.cmd = cmd /\ consumed = Start(answered) + taken

VectorOf(kind) == [i \in 1..bytesPerVector(numBits) |-> <<kind, answered + 1>>]

(* The place of the server in the code and in the byte stream agree. *)
InStep ==
  Serving =>
    /\ answered <= Len(session)
    /\ \A i \in 1..answered : replies[i] = Answer(session[i])
    /\ pc \in {"command_loop", "peek"} => consumed = Start(answered)
    /\ pc \in Commands => Amid(pc, PrefixSz[pc])
    /\ pc \in {"recv_tms", "recv_tdi", "shift_bits"} => numBits > 0 /\ current.val = numBits
    /\ pc = "recv_tms" => Amid("shift", 7)
    /\ pc = "recv_tdi" => Amid("shift", 7 + bytesPerVector(numBits)) /\ tmsVector = VectorOf("tms")
    /\ pc = "shift_bits" =>
         /\ Amid("shift", 7 + 2 * bytesPerVector(numBits))
         /\ tmsVector = VectorOf("tms") /\ tdiVector = VectorOf("tdi")
    /\ pc = "send" =>
         /\ answered < Len(session) /\ consumed = Start(answered + 1)
         /\ response = Answer(current)

(* How many commands a client left unanswered when it went away, counted   *)
(* down by each response sent since; and whether it left answers unread.   *)
OneUnanswered ==
  /\ peer = "closed" /\ ~pipelined /\ pc \notin Ended =>
       \A k \in ArrivedCommands : k <= (IF Serving THEN answered ELSE 0) + 1
  /\ peer = "reset" /\ ~pipelined /\ Serving => \A k \in ArrivedCommands : k <= answered
  /\ gone /\ room = "none" => pipelined
  /\ pc = "killed" => gone /\ pipelined

(***************************************************************************)
(* Of client, byte stream, vectors and driver, what every step of server,  *)
(* client and signal handler keeps (server.c:195).                         *)
(***************************************************************************)
IndInv == TypeOK /\ InControl /\ VectorsHeld /\ InStep /\ OneUnanswered

-----------------------------------------------------------------------------
(* Liveness.                                                               *)

(* The first k commands of the session are well-formed and arrived. *)
Arrived(k) ==
  /\ Serving /\ k <= Len(session)
  /\ \A i \in 1..k : session[i].cmd \in Commands
  /\ arrived >= Len(Streams[session][k])

(***************************************************************************)
(* A command that arrived in full is answered, or the connection ends: the *)
(* server waits for no byte beyond it.  The premise is a client that reads *)
(* the answers: one that goes on sending without reading may hold the      *)
(* server in send() for ever (server.c:77), until a SIGINT.                *)
(***************************************************************************)
CommandsAnswered ==
  WF_vars(Read) => \A k \in 1..2 : Arrived(k) ~> (Len(replies) >= k \/ ~Serving)

(* The bytes that arrived end inside a prefix (or in garbage). *)
EndsInPrefix ==
  /\ arrived > 0
  /\ \/ bytes[arrived][1] = "junk"
     \/ /\ bytes[arrived][1] \in Commands
        /\ bytes[arrived][2] < PrefixSz[bytes[arrived][1]]

(***************************************************************************)
(* A connection whose client is gone is closed, at whatever command, int   *)
(* or vector the client left, unless it left in the middle of a prefix.    *)
(***************************************************************************)
ClosedPeerLetGo == (Serving /\ gone /\ ~EndsInPrefix) ~> ~Serving

(***************************************************************************)
(* Connection was closed by peer (server.c:180): without the exception.    *)
(***************************************************************************)
PeerCloseNoticed == (Serving /\ gone) ~> ~Serving

(***************************************************************************)
(* SIGINT stops the server, since "blocking I/O calls will return          *)
(* immediately to let test termination flag" (txvc.c:83).                  *)
(***************************************************************************)
SigintStops == shouldTerminate ~> pc \in Ended

(***************************************************************************)
(* What holds of it: the server stops for a user who interrupts it again   *)
(* whenever it sleeps, since a signal between a test of the flag and the   *)
(* blocking call is not enough.                                            *)
(***************************************************************************)
RepeatedSigintStops == WF_vars(blocked /\ sigint_handler) => SigintStops
=============================================================================
