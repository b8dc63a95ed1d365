------------------------------ MODULE Netboot ------------------------------
(***************************************************************************)
(* netboot.c and the socket part of w5500.c: the bootloader's `netboot'    *)
(* command, which receives an image as [length][bytes] over TCP.  One step *)
(* of the driver is one SPI frame, but the received size is two steps: the *)
(* chip may receive between its two bytes.                                 *)
(*                                                                         *)
(* The W5500 (socket 0 and its receive memory) and the server are          *)
(* external.  TCP delivers in order and once; what the driver has to cope  *)
(* with is when bytes arrive, and how the connection ends.  The driver     *)
(* does not wait for Sn_CR to clear: the model carries out a socket        *)
(* command before the next frame, as the driver expects of the chip.       *)
(***************************************************************************)
EXTENDS Naturals, Sequences

CONSTANTS
    Byte,        \* values of a byte: 256
    HeaderLen,   \* bytes of the length: 4
    BufSize,     \* receive memory of the socket: 2048
    Lengths,     \* lengths an image may have
    MaxPolls,    \* bound: polls of the connection state, 30000000
    MaxLoads     \* bound: netboot commands

PtrMod == Byte * Byte     \* the socket's pointers are 16 bits wide
LengthRange == 0 .. Byte ^ HeaderLen - 1

ASSUME NetbootAssumption ==
    /\ Byte \in Nat /\ Byte > 1 /\ HeaderLen \in Nat \ {0}
    /\ BufSize \in 1 .. PtrMod - 1 /\ PtrMod % BufSize = 0
    /\ Lengths \subseteq LengthRange
    /\ MaxPolls \in Nat \ {0} /\ MaxLoads \in Nat

\* Arithmetic: what a power is, up to that of the length.
ASSUME PowerAssumption ==
    /\ Byte ^ 0 = 1
    /\ \A k \in 0 .. HeaderLen - 1 : Byte ^ (k + 1) = Byte ^ k * Byte

VARIABLES
    pc, part, again,      \* where the command is; which recv; which read of the size
    seen, rsr, polls,     \* the size at its first byte, as read, and polls
    lb, dst, len,         \* the length bytes, the image in RAM, the length they say
    result, loads,
    sr, mem, wr, taken, rd,   \* external: the socket, S0_RX_RD last
    conn, lens, sent, cut     \* external: the server, one number per connection

local == <<part, again, seen, rsr, polls, lb, dst, len>>
driverVars == <<pc, local, result, loads>>
pointers == <<wr, taken, rd>>
chipVars == <<sr, mem, pointers>>
serverVars == <<conn, lens, sent, cut>>
vars == <<driverVars, chipVars, serverVars>>

\* Byte k of what the server sends on connection c.
Sent(c, k) == [conn |-> c, pos |-> k]
Blank == Sent(0, 0)
Cell == [conn : 0 .. MaxLoads, pos : Nat]
Total == HeaderLen + lens[conn]

\* What a byte is worth as part of a big-endian length.
Digit(b) ==
    IF b.pos \in 1 .. HeaderLen
    THEN (lens[b.conn] \div Byte ^ (HeaderLen - b.pos)) % Byte
    ELSE (b.pos % Byte)
Decode(bytes) ==
    CHOOSE n \in LengthRange :
        \A k \in 1 .. HeaderLen :
            (n \div Byte ^ (HeaderLen - k)) % Byte = Digit(bytes[k])

Init ==
    /\ pc = "prompt" /\ part = "length" /\ again = FALSE
    /\ seen = 0 /\ rsr = 0 /\ polls = 0
    /\ lb = <<>> /\ dst = <<>> /\ len = 0
    /\ result = "none" /\ loads = 0
    /\ sr = "CLOSED" /\ mem = [i \in 0 .. BufSize - 1 |-> Blank]
    /\ wr = 0 /\ taken = 0 /\ rd = 0
    /\ conn = 0 /\ lens = [c \in 0 .. MaxLoads |-> 0] /\ sent = 0 /\ cut = FALSE

-----------------------------------------------------------------------------
(* The socket and the server.                                              *)

\* S0_RX_RSR: the bytes the driver has not yet given back with RECV.
Received == (wr + PtrMod - taken) % PtrMod

\* The server accepts and reads the image anew, or nobody answers.
Handshake ==
    /\ sr = "SYNSENT"
    /\ \/ /\ sr' = "ESTABLISHED" /\ conn' = loads
          /\ \E n \in Lengths : lens' = [lens EXCEPT ![loads] = n]
          /\ sent' = 0 /\ cut' = FALSE
       \/ sr' = "CLOSED" /\ UNCHANGED serverVars
    /\ UNCHANGED <<mem, pointers>>

\* As much as there is room for arrives, or a part of it.
Deliver ==
    /\ sr = "ESTABLISHED"
    /\ \E n \in 1 .. BufSize - Received :
          /\ sent + n <= Total
          /\ sent' = sent + n
          /\ wr' = (wr + n) % PtrMod
          /\ mem' = [i \in DOMAIN mem |->
                        LET off == (i + BufSize - (wr % BufSize)) % BufSize IN
                        IF off < n THEN Sent(conn, sent + off + 1) ELSE mem[i]]
    /\ UNCHANGED <<sr, taken, rd, conn, lens, cut>>

\* The server closes after the last byte; or before, because it cannot read
\* the file or is stopped.  A connection may also be reset.
ServerCloses ==
    /\ sr = "ESTABLISHED"
    /\ sr' \in {"CLOSE_WAIT", "CLOSED"}
    /\ cut' = (sent < Total)
    /\ UNCHANGED <<mem, pointers, conn, lens, sent>>

-----------------------------------------------------------------------------
(* w5500_init and w5500_tcp_connect.                                       *)

Return(r) == result' = r /\ pc' = "prompt"

\* A load that works ends the bootloader.
Command ==
    /\ pc = "prompt" /\ result # "ok" /\ loads < MaxLoads
    /\ pc' = "init" /\ loads' = loads + 1 /\ result' = "none"
    /\ part' = "length" /\ lb' = <<>> /\ dst' = <<>>
    /\ again' = FALSE /\ seen' = 0 /\ rsr' = 0 /\ polls' = 0 /\ len' = 0
    /\ UNCHANGED chipVars

\* The software reset closes the socket and clears its pointers, not the
\* memory behind them; then the version register shows whether there is a
\* chip.
W5500Init ==
    /\ pc = "init"
    /\ sr' = "CLOSED" /\ wr' = 0 /\ taken' = 0 /\ rd' = 0
    /\ \/ pc' = "open" /\ UNCHANGED result
       \/ Return("not detected")
    /\ UNCHANGED <<local, loads, mem>>

\* OPEN works on a closed socket; then CONNECT.
TcpOpen ==
    /\ pc = "open"
    /\ IF sr = "CLOSED"
       THEN sr' = "SYNSENT" /\ pc' = "poll" /\ UNCHANGED result
       ELSE Return("no connection") /\ UNCHANGED sr
    /\ UNCHANGED <<local, loads, mem, pointers>>

\* Only ESTABLISHED counts: a server that has sent all and closed between
\* two polls is polled until the count runs out.  Nothing closes the socket
\* after a failure.
ConnectPoll ==
    /\ pc = "poll" /\ polls' = polls + 1
    /\ CASE sr = "ESTABLISHED" -> pc' = "loop" /\ UNCHANGED result
         [] sr = "CLOSED" \/ (sr # "ESTABLISHED" /\ polls' = MaxPolls) ->
               Return("no connection")
         [] OTHER -> UNCHANGED <<pc, result>>
    /\ UNCHANGED <<part, again, seen, rsr, lb, dst, len, loads, chipVars>>

-----------------------------------------------------------------------------
(* w5500_tcp_recv, for the length and then for the image.                  *)

buf == IF part = "length" THEN lb ELSE dst
goal == IF part = "length" THEN HeaderLen ELSE len
got == Len(buf)

\* netboot_load closes the socket whether the image is there or not.
Close(r) == Return(r) /\ sr' = "CLOSED"

LengthDone ==
    /\ pc = "loop" /\ part = "length" /\ got = goal
    /\ part' = "data" /\ len' = Decode(lb)
    /\ UNCHANGED <<pc, again, seen, rsr, polls, lb, dst, result, loads, chipVars>>

ImageDone ==
    /\ pc = "loop" /\ part = "data" /\ got = goal
    /\ Close("ok")
    /\ UNCHANGED <<local, loads, mem, pointers>>


\* Two bytes of a register that may count up between them; the mutant reads
\* the low one first.
TornMutant(first, second) == (second \div Byte) * Byte + (first % Byte)
Torn(first, second) == (first \div Byte) * Byte + (second % Byte)

SizeHigh ==
    /\ (pc = "loop" /\ got < goal) \/ pc = "check"
    /\ again' = (pc = "check")
    /\ seen' = Received /\ pc' = "low"
    /\ UNCHANGED <<part, rsr, polls, lb, dst, len, result, loads, chipVars>>

\* A size of 0 is looked into: the second time, it ends the command.
SizeLow ==
    /\ pc = "low" /\ rsr' = Torn(seen, Received)
    /\ \/ rsr' # 0 /\ pc' = (IF again THEN "loop" ELSE "read") /\ UNCHANGED <<result, sr>>
       \/ rsr' = 0 /\ ~again /\ pc' = "status" /\ UNCHANGED <<result, sr>>
       \/ rsr' = 0 /\ again /\ Close("short")
    /\ UNCHANGED <<part, again, seen, polls, lb, dst, len, loads, mem, pointers>>

\* The mutants end the command without another look at the size, and only
\* for a connection that was closed properly.
StatusMutant ==
    /\ pc = "status"
    /\ IF sr \in {"CLOSE_WAIT", "CLOSED"}
       THEN Close("short") ELSE pc' = "loop" /\ UNCHANGED <<result, sr>>
    /\ UNCHANGED <<local, loads, mem, pointers>>
StatusWaitMutant ==
    /\ pc = "status"
    /\ pc' = IF sr = "CLOSE_WAIT" THEN "check" ELSE "loop"
    /\ UNCHANGED <<local, result, loads, chipVars>>

\* Nothing there: has the peer closed?
Status ==
    /\ pc = "status"
    /\ pc' = IF sr \in {"CLOSE_WAIT", "CLOSED"} THEN "check" ELSE "loop"
    /\ UNCHANGED <<local, result, loads, chipVars>>

Smaller(a, b) == IF a < b THEN a ELSE b
chunk == Smaller(rsr, goal - got)

\* The burst wraps within the receive memory of the socket.
ReadChunk ==
    /\ pc = "read" /\ pc' = "give back"
    /\ LET more == [i \in 1 .. chunk |-> mem[(rd + i - 1) % BufSize]] IN
       IF part = "length" THEN lb' = lb \o more /\ UNCHANGED dst
                          ELSE dst' = dst \o more /\ UNCHANGED lb
    /\ rsr' = chunk     \* the local chunk, in the place of rsr
    /\ UNCHANGED <<part, again, seen, polls, len, result, loads, chipVars>>

\* The mutant computes the pointer in more than 16 bits.
WritePointerMutant ==
    /\ pc = "give back" /\ pc' = "recv"
    /\ rd' = rd + rsr
    /\ UNCHANGED <<local, result, loads, sr, mem, wr, taken>>

WritePointer ==
    /\ pc = "give back" /\ pc' = "recv"
    /\ rd' = (rd + rsr) % PtrMod
    /\ UNCHANGED <<local, result, loads, sr, mem, wr, taken>>

Recv ==
    /\ pc = "recv" /\ pc' = "loop"
    /\ taken' = rd
    /\ UNCHANGED <<local, result, loads, sr, mem, wr, rd>>

-----------------------------------------------------------------------------
Load ==
    /\ \/ W5500Init \/ TcpOpen \/ ConnectPoll \/ LengthDone \/ ImageDone
       \/ SizeHigh \/ SizeLow \/ Status \/ ReadChunk \/ WritePointer \/ Recv
    /\ UNCHANGED serverVars

User == Command /\ UNCHANGED serverVars

Peer == (Handshake \/ Deliver \/ ServerCloses) /\ UNCHANGED driverVars

Next == Load \/ User \/ Peer

Spec == Init /\ [][Next]_vars

\* The driver runs; the server sends until it closes.
FairSpec == Spec /\ WF_vars(Load) /\ WF_vars(Peer)

-----------------------------------------------------------------------------
\* The registers and locals keep to their widths: the pointers are 16 bits,
\* and never is more received than the memory of the socket holds.
TypeOK ==
    /\ pc \in {"prompt", "init", "open", "poll", "loop", "low", "status", "check",
               "read", "give back", "recv"}
    /\ part \in {"length", "data"} /\ again \in BOOLEAN
    /\ seen \in 0 .. BufSize /\ rsr \in 0 .. BufSize /\ polls \in 0 .. MaxPolls
    /\ len \in LengthRange
    /\ result \in {"none", "not detected", "no connection", "short", "ok"}
    /\ loads \in 0 .. MaxLoads
    /\ sr \in {"CLOSED", "SYNSENT", "ESTABLISHED", "CLOSE_WAIT"}
    /\ wr \in 0 .. PtrMod - 1 /\ taken \in 0 .. PtrMod - 1 /\ rd \in 0 .. PtrMod - 1
    /\ Received <= BufSize
    /\ lb \in Seq(Cell) /\ dst \in Seq(Cell) /\ mem \in [0 .. BufSize - 1 -> Cell]
    /\ conn \in 0 .. MaxLoads /\ sent \in Nat
    /\ lens \in [0 .. MaxLoads -> LengthRange]

InOrder(bytes, from) ==
    \A k \in 1 .. Len(bytes) : bytes[k] = Sent(loads, from + k)

\* However the arrival of the bytes falls between the reads of the driver,
\* what the command has received is what the server has sent on this
\* connection, from its beginning and without a gap, a repetition or a rest
\* of an earlier load; the image begins behind the length, and no byte of it
\* is kept that the length does not announce.
ReceivedIsStream ==
    /\ InOrder(lb, 0) /\ InOrder(dst, HeaderLen)
    /\ Len(lb) <= HeaderLen
    /\ part = "data" => Len(lb) = HeaderLen
    /\ Len(dst) <= len

\* A load that ends well, and so starts the image, has all of it; one that
\* ends as a short read was cut off by the server: no byte it had sent was
\* left behind when it closed.
ShortOnlyIfCut ==
    /\ result = "ok" => Len(dst) = lens[loads]
    /\ result = "short" => cut /\ Len(lb) + Len(dst) = sent

\* With a server that sends or closes, the command returns, whichever way
\* the connection ends.
LoadEnds == pc # "prompt" ~> pc = "prompt"
=============================================================================
