------------------------------- MODULE Ymodem -------------------------------
(***************************************************************************)
(* ymodem.c: the receiver of the bootloader's `ymodem' command, one action *)
(* per way through its loop.  The sender (a terminal program) and the      *)
(* serial line are external: what the code relies on is a sender that      *)
(* waits for an answer to each block, and a line that may lose or damage   *)
(* what it carries but keeps the order.                                    *)
(*                                                                         *)
(* Data is counted in half blocks, so that the last block of a file may be *)
(* padded: half block k of the file is the number k, and the padding is    *)
(* what comes after FileLen.                                               *)
(***************************************************************************)
EXTENDS Naturals, Sequences, SequencesExt

CONSTANTS
    FileLen,      \* the file, in half blocks
    BufLens,      \* the values bufsz may have, in half blocks
    BlockMod,     \* block numbers are bytes: 256
    MAX_IDLE,
    Damage,       \* what a damaged item looks like to the receiver
    MaxFaults,    \* bound: how often the line fails
    MaxRetries,   \* bound: how often the sender repeats one item
    MaxReplies    \* bound: replies the sender has not read yet

ASSUME YmodemAssumption ==
    /\ FileLen \in Nat \ {0} /\ BufLens \subseteq Nat
    /\ BlockMod \in Nat /\ BlockMod > 2
    /\ MAX_IDLE \in Nat /\ MaxFaults \in Nat /\ MaxRetries \in Nat /\ MaxReplies \in Nat
    /\ Damage \subseteq {"lost", "bad", "junk", "EOT", "CAN"}

VARIABLES
    bufsz, expect, have_header, trailer, idle,
    fsize, stored, result,        \* buf[0 .. total-1], and how the loop ended
    line, replies,                \* external: the two directions of the line
    phase, sblk, retries, faults, \* external: the sender, and the line's failures
    stray                         \* history: something passed for an EOT

recvVars == <<bufsz, expect, have_header, trailer, idle, fsize, stored, result>>
sendVars == <<phase, sblk, retries>>
vars == <<recvVars, line, replies, sendVars, faults, stray>>

NBlocks == (FileLen + 1) \div 2
total == Len(stored)

\* An item of the line: a block that arrives whole (of the file, with its
\* name, or without one), or what else the receiver can take for a start.
Name == 0
Null == NBlocks + 1
Block(num, data) == [kind |-> "block", num |-> num % BlockMod, data |-> data]
Other(k) == [kind |-> k, num |-> 0, data |-> 0]
Item == [kind : {"block", "bad", "junk", "EOT", "CAN"}, num : 0 .. BlockMod - 1,
         data : 0 .. NBlocks + 1]
Reply == {"C", "ACK", "NAK"}

Init ==
    /\ bufsz \in BufLens
    /\ expect = 0 /\ have_header = FALSE /\ trailer = FALSE /\ idle = 0
    /\ fsize = 0 /\ stored = <<>> /\ result = "none"
    /\ line = <<>> /\ replies = <<"C">>
    /\ phase = "hello" /\ sblk = 0 /\ retries = 0 /\ faults = 0
    /\ stray = FALSE

-----------------------------------------------------------------------------
(* The receiver.                                                           *)

Running == result = "none"
Reading == phase \notin {"done", "failed"}
Say(rs) == replies' = IF Reading THEN replies \o rs ELSE replies
Finish(r) == result' = r
Arrived == line # <<>>
Take == line' = Tail(line) /\ idle' = 0
Item1 == Head(line)

\* The mutant never gives up.
RxTimeoutMutant ==
    /\ Running /\ ~Arrived /\ (Reading => Len(replies) < MaxReplies)
    /\ idle' = idle
    /\ IF idle + 1 > MAX_IDLE
       THEN Finish("timeout") /\ UNCHANGED replies
       ELSE /\ Say(IF ~have_header \/ trailer THEN <<"C">> ELSE <<"NAK">>)
            /\ UNCHANGED result
    /\ UNCHANGED <<expect, have_header, trailer, fsize, stored, line>>

\* No byte for a second: 'C' while there is no header, NAK in the data flow.
RxTimeout ==
    /\ Running /\ ~Arrived /\ (Reading => Len(replies) < MaxReplies)
    /\ idle' = idle + 1
    /\ IF idle + 1 > MAX_IDLE
       THEN Finish("timeout") /\ UNCHANGED replies
       ELSE /\ Say(IF ~have_header \/ trailer THEN <<"C">> ELSE <<"NAK">>)
            /\ UNCHANGED result
    /\ UNCHANGED <<expect, have_header, trailer, fsize, stored, line>>

RxEot ==
    /\ Running /\ Arrived /\ Item1.kind = "EOT"
    /\ Take /\ Say(<<"ACK", "C">>)
    /\ trailer' = TRUE /\ expect' = 0
    /\ UNCHANGED <<have_header, fsize, stored, result>>

\* One CAN is not enough, but the byte after it is gone: a block that starts
\* there is read as junk.
RxCan ==
    /\ Running /\ Arrived /\ Item1.kind = "CAN" /\ idle' = 0
    /\ LET rest == Tail(line) IN
       IF rest # <<>> /\ Head(rest).kind = "CAN"
       THEN Finish("cancel") /\ line' = Tail(rest)
       ELSE /\ line' = IF rest = <<>> THEN rest
                       ELSE IF Head(rest).kind \in {"block", "bad"}
                       THEN <<Other("junk")>> \o Tail(rest) ELSE Tail(rest)
            /\ UNCHANGED result
    /\ UNCHANGED <<expect, have_header, trailer, fsize, stored, replies>>

RxJunk ==
    /\ Running /\ Arrived /\ Item1.kind = "junk"
    /\ Take
    /\ UNCHANGED <<expect, have_header, trailer, fsize, stored, result, replies>>

\* The mutant acknowledges a block it has thrown away.
RxBadMutant ==
    /\ Running /\ Arrived /\ Item1.kind = "bad"
    /\ \E n \in 1 .. Len(line) : line' = SubSeq(line, n + 1, Len(line))
    /\ idle' = 0
    /\ Say(<<"ACK">>)
    /\ UNCHANGED <<expect, have_header, trailer, fsize, stored, result>>

\* Short, wrong check sum or wrong complement: drain what follows closely.
RxBad ==
    /\ Running /\ Arrived /\ Item1.kind = "bad"
    /\ \E n \in 1 .. Len(line) : line' = SubSeq(line, n + 1, Len(line))
    /\ idle' = 0
    /\ Say(<<"NAK">>)
    /\ UNCHANGED <<expect, have_header, trailer, fsize, stored, result>>

Good == Running /\ Arrived /\ Item1.kind = "block"
Expected == Item1.num = expect
Previous == ~Expected /\ Item1.num = (expect + BlockMod - 1) % BlockMod

\* After EOT any block 0 ends the batch.
RxTrailer ==
    /\ Good /\ Expected /\ trailer
    /\ Take /\ Say(<<"ACK">>)
    /\ Finish("ok")
    /\ UNCHANGED <<expect, have_header, trailer, fsize, stored>>

RxHeader ==
    /\ Good /\ Expected /\ ~trailer /\ ~have_header
    /\ Take
    /\ IF Item1.data = Null
       THEN /\ Say(<<"ACK">>) /\ Finish("ok")
            /\ UNCHANGED <<expect, have_header, fsize>>
       ELSE /\ Say(<<"ACK", "C">>)
            /\ have_header' = TRUE /\ expect' = 1
            /\ fsize' \in {0, FileLen}
            /\ UNCHANGED result
    /\ UNCHANGED <<trailer, stored>>

\* How many of the two half blocks are kept: trimmed to the size of the
\* file, when the header has given one, then to the buffer.
Fitted(trimmed) ==
    IF total + trimmed > bufsz
    THEN IF total < bufsz THEN bufsz - total ELSE 0
    ELSE trimmed

\* The mutant takes a size that was not given for 0.
CopyMutant == Fitted(IF total + 2 > fsize THEN fsize - total ELSE 2)

Copy == Fitted(IF fsize # 0 /\ total + 2 > fsize THEN fsize - total ELSE 2)

\* The mutant keeps the block number in a wider variable than a byte.
RxDataMutant ==
    /\ Good /\ Expected /\ ~trailer /\ have_header
    /\ Take /\ Say(<<"ACK">>)
    /\ stored' = stored \o SubSeq(<<2 * Item1.data - 1, 2 * Item1.data>>, 1, Copy)
    /\ expect' = expect + 1
    /\ UNCHANGED <<have_header, trailer, fsize, result>>

RxData ==
    /\ Good /\ Expected /\ ~trailer /\ have_header
    /\ Take /\ Say(<<"ACK">>)
    /\ stored' = stored \o SubSeq(<<2 * Item1.data - 1, 2 * Item1.data>>, 1, Copy)
    /\ expect' = (expect + 1) % BlockMod
    /\ UNCHANGED <<have_header, trailer, fsize, result>>

\* The mutant stores what it has stored before.
RxDuplicateMutant ==
    /\ Good /\ Previous
    /\ Take /\ Say(<<"ACK">>)
    /\ stored' = IF Item1.data \in 1 .. NBlocks
                 THEN stored \o SubSeq(<<2 * Item1.data - 1, 2 * Item1.data>>, 1, Copy)
                 ELSE stored
    /\ UNCHANGED <<expect, have_header, trailer, fsize, result>>

RxDuplicate ==
    /\ Good /\ Previous
    /\ Take /\ Say(<<"ACK">>)
    /\ UNCHANGED <<expect, have_header, trailer, fsize, stored, result>>

RxOutOfSequence ==
    /\ Good /\ ~Expected /\ ~Previous
    /\ Take /\ Say(<<"NAK">>)
    /\ UNCHANGED <<expect, have_header, trailer, fsize, stored, result>>

Receive ==
    /\ \/ RxTimeout \/ RxEot \/ RxCan \/ RxJunk \/ RxBad \/ RxTrailer
       \/ RxHeader \/ RxData \/ RxDuplicate \/ RxOutOfSequence
    /\ UNCHANGED <<bufsz, sendVars, faults, stray>>

-----------------------------------------------------------------------------
(* The sender: it forgets the replies it has not read when it sends.       *)

Current ==
    CASE phase \in {"hello", "header"} -> Block(0, Name)
      [] phase \in {"go", "data"} -> Block(sblk, sblk)
      [] phase = "eot" -> Other("EOT")
      [] OTHER -> Block(0, Null)

Send(item, p, b, n) ==
    /\ line' = Append(line, item) /\ replies' = <<>>
    /\ phase' = p /\ sblk' = b /\ retries' = n

Skip == replies' = Tail(replies) /\ UNCHANGED <<line, sendVars>>

Repeat ==
    IF retries < MaxRetries
    THEN Send(Current, phase, sblk, retries + 1)
    ELSE /\ phase' = "failed"
         /\ line' = line \o <<Other("CAN"), Other("CAN")>> /\ replies' = <<>>
         /\ UNCHANGED <<sblk, retries>>

\* The answer to the item that is waiting for one.
OnAck ==
    CASE phase = "header" ->
           phase' = "go" /\ sblk' = 1 /\ retries' = 0 /\ replies' = Tail(replies) /\ UNCHANGED line
      [] phase = "data" /\ sblk < NBlocks -> Send(Block(sblk + 1, sblk + 1), "data", sblk + 1, 0)
      [] phase = "data" /\ sblk = NBlocks -> Send(Other("EOT"), "eot", sblk, 0)
      [] phase = "eot" ->
           phase' = "end" /\ retries' = 0 /\ replies' = Tail(replies) /\ UNCHANGED <<line, sblk>>
      [] phase = "null" ->
           phase' = "done" /\ replies' = Tail(replies) /\ UNCHANGED <<line, sblk, retries>>
      [] OTHER -> Skip

\* A prompt starts what waits for one; NAK repeats what has been sent.
OnPrompt(r) ==
    CASE phase = "hello" /\ r = "C" -> Send(Current, "header", 0, 0)
      [] phase = "go" -> Send(Current, "data", 1, 0)
      [] phase = "end" /\ r = "C" -> Send(Current, "null", sblk, 0)
      [] phase \in {"header", "data", "eot", "null"} /\ r = "NAK" -> Repeat
      [] OTHER -> Skip

SenderReads ==
    /\ Reading /\ replies # <<>>
    /\ IF Head(replies) = "ACK" THEN OnAck ELSE OnPrompt(Head(replies))

\* The sender waits longer than the receiver: nothing is under way any more.
SenderTimeout ==
    /\ phase \in {"header", "data", "eot", "null"} /\ replies = <<>> /\ line = <<>>
    /\ Repeat

\* The line fails: one item or one reply.
LineFails ==
    /\ faults < MaxFaults /\ faults' = faults + 1
    /\ \/ /\ \E i \in 1 .. Len(line), d \in Damage :
                /\ line' = IF d = "lost" THEN RemoveAt(line, i)
                           ELSE [line EXCEPT ![i] = Other(d)]
                /\ stray' = (stray \/ d = "EOT")
          /\ UNCHANGED replies
       \/ /\ \E i \in 1 .. Len(replies) : replies' = RemoveAt(replies, i)
          /\ UNCHANGED <<line, stray>>
    /\ UNCHANGED <<recvVars, sendVars>>

Sender == (SenderReads \/ SenderTimeout) /\ UNCHANGED <<recvVars, faults, stray>>

Next == Receive \/ Sender \/ LineFails

Spec == Init /\ [][Next]_vars

\* The receiver runs and its timeouts elapse; the sender answers.
FairSpec == Spec /\ WF_vars(Receive) /\ WF_vars(Sender)

-----------------------------------------------------------------------------
\* The variables of the loop keep to their types: the block number is a byte,
\* and idle passes MAX_IDLE once only, when the transfer is given up.
TypeOK ==
    /\ bufsz \in BufLens
    /\ expect \in 0 .. BlockMod - 1
    /\ have_header \in BOOLEAN /\ trailer \in BOOLEAN
    /\ idle \in 0 .. MAX_IDLE + 1 /\ (Running => idle <= MAX_IDLE)
    /\ fsize \in {0, FileLen}
    /\ result \in {"none", "timeout", "cancel", "ok"}
    /\ line \in Seq(Item) /\ replies \in Seq(Reply)
    /\ sblk \in 0 .. NBlocks /\ retries \in 0 .. MaxRetries

\* Whatever the line loses, damages or makes the sender repeat, what is in
\* the buffer is the beginning of the file, in order and without a gap or a
\* repetition; it stays inside the buffer and inside the announced size.
StoredIsPrefix ==
    /\ \A k \in 1 .. total : stored[k] = k
    /\ total <= bufsz
    /\ fsize # 0 => total <= fsize

Smaller(a, b) == IF a < b THEN a ELSE b

\* An acknowledgement the sender acts on is for a block that is stored (or
\* that no longer fits): the sender never moves past a block the receiver
\* does not have.  Damage that passes for an EOT is the exception: it is
\* acknowledged, and the sender takes that for its block.
AckedIsStored == phase = "data" /\ ~stray => total >= Smaller(2 * (sblk - 1), bufsz)

\* A transfer that ends well has delivered the whole file, or as much of it
\* as the buffer holds, and one that was announced with its size has no
\* padding.
CompleteIfOk ==
    result = "ok" /\ have_header /\ ~stray =>
        total = Smaller(IF fsize = 0 THEN 2 * NBlocks ELSE FileLen, bufsz)

\* The command always returns to the prompt of the bootloader.
Ends == <>(result # "none")
=============================================================================
