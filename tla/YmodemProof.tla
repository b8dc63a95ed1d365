---------------------------- MODULE YmodemProof ----------------------------
(***************************************************************************)
(* The safety properties of the YMODEM receiver, for every length of the   *)
(* file and of the buffer, every number of failures, repetitions and       *)
(* unread replies, and every range of block numbers with more than two.    *)
(*                                                                         *)
(* The block number tells a new block from the one before, and no others.  *)
(* That is enough because the two sides take turns: while a reply waits    *)
(* nothing is on its way to the receiver, so the sender is never more than *)
(* one block ahead of what it has an answer for.                           *)
(***************************************************************************)
EXTENDS Ymodem, SequenceTheorems, TLAPS

Phases == {"hello", "header", "go", "data", "eot", "end", "null", "done", "failed"}

SenderType == phase \in Phases /\ (phase = "data" => sblk >= 1) /\ (phase = "go" => sblk = 1)

StoredType == stored \in Seq(Nat)

\* The two directions take turns, and the line holds one item; only the two
\* CANs of a sender that gives up are more.
TakeTurns ==
    /\ replies # <<>> => line = <<>> /\ phase # "failed"
    /\ Len(line) <= IF phase = "failed" THEN 2 ELSE 1

\* A block on the line is the one the sender waits for an answer to, and an
\* EOT is the sender's unless damage has made it.
Genuine(x) ==
    /\ x.kind = "block" => phase \in {"header", "data", "null"} /\ x = Current
    /\ x.kind = "EOT" /\ ~stray => phase = "eot"

AllGenuine == \A i \in 1 .. Len(line) : Genuine(line[i])

NoAck == \A i \in 1 .. Len(replies) : replies[i] # "ACK"

\* What the buffer holds after n blocks of the file.
Held(n) == Smaller(IF fsize = 0 THEN 2 * n ELSE Smaller(2 * n, FileLen), bufsz)

Fresh == ~have_header /\ expect = 0 /\ stored = <<>> /\ fsize = 0
After(n) == have_header /\ expect = (n + 1) % BlockMod /\ total = Held(n)

\* Until the receiver has seen an EOT it is where the sender is or, if it has
\* not acknowledged anything, one step behind.
InSync ==
    ~trailer =>
       \/ phase = "hello" /\ Fresh /\ NoAck
       \/ phase = "header" /\ ((Fresh /\ NoAck) \/ After(0))
       \/ phase = "go" /\ After(0)
       \/ phase = "data" /\ ((After(sblk - 1) /\ NoAck) \/ After(sblk))
       \/ phase = "eot" /\ After(NBlocks) /\ NoAck
       \/ phase = "failed"

\* An EOT that was no damage has come after the whole file.
WholeFile ==
    trailer /\ ~stray =>
       /\ phase \in {"eot", "end", "null", "done", "failed"}
       /\ total = Held(NBlocks)

OkIsTrailer == result = "ok" => trailer

IInv ==
    /\ TypeOK /\ SenderType /\ StoredType /\ TakeTurns /\ AllGenuine
    /\ StoredIsPrefix /\ InSync /\ WholeFile /\ OkIsTrailer

-----------------------------------------------------------------------------
(* Block numbers.                                                          *)

LEMMA Constants ==
    /\ FileLen \in Nat /\ FileLen >= 1
    /\ BlockMod \in Nat /\ BlockMod > 2
    /\ NBlocks \in Nat /\ NBlocks >= 1
    /\ 2 * NBlocks >= FileLen /\ 2 * NBlocks <= FileLen + 1
  BY YmodemAssumption DEF NBlocks

LEMMA DivMod ==
    ASSUME NEW a \in Nat, NEW m \in Nat \ {0}
    PROVE  /\ a % m \in 0 .. m - 1 /\ a \div m \in Int
           /\ a = m * (a \div m) + (a % m)
  OBVIOUS

LEMMA Unique ==
    ASSUME NEW m \in Nat \ {0}, NEW p \in Int, NEW q \in Int,
           NEW r \in 0 .. m - 1, NEW s \in 0 .. m - 1, m * p + r = m * q + s
    PROVE  r = s
  OBVIOUS

(* The number of the next block, from that of a block.                     *)
LEMMA NextNumber ==
    ASSUME NEW n \in Nat
    PROVE  (n + 1) % BlockMod = IF n % BlockMod = BlockMod - 1 THEN 0 ELSE (n % BlockMod) + 1
  <1> DEFINE r == n % BlockMod
             s == (n + 1) % BlockMod
             p == n \div BlockMod
             q == (n + 1) \div BlockMod
  <1>1. BlockMod \in Nat \ {0} /\ BlockMod > 2 /\ n + 1 \in Nat
    BY Constants
  <1>2. r \in 0 .. BlockMod - 1 /\ p \in Int /\ n = BlockMod * p + r
    BY <1>1, DivMod
  <1>3. s \in 0 .. BlockMod - 1 /\ q \in Int /\ n + 1 = BlockMod * q + s
    BY <1>1, DivMod
  <1> HIDE DEF r, s, p, q
  <1>4. CASE r = BlockMod - 1
    <2>1. n + 1 = BlockMod * (p + 1) + 0 /\ p + 1 \in Int /\ 0 \in 0 .. BlockMod - 1
      BY <1>1, <1>2, <1>4
    <2>2. s = 0
      BY <1>1, <1>3, <2>1, Unique
    <2> QED  BY <1>4, <2>2 DEF r, s
  <1>5. CASE r # BlockMod - 1
    <2>1. n + 1 = BlockMod * p + (r + 1) /\ r + 1 \in 0 .. BlockMod - 1
      BY <1>1, <1>2, <1>5
    <2>2. s = r + 1
      BY <1>1, <1>2, <1>3, <2>1, Unique
    <2> QED  BY <1>5, <2>2 DEF r, s
  <1> QED  BY <1>4, <1>5

(* What is used of block numbers: they are bytes, the next one differs from *)
(* this one, and the receiver's two ways to count agree with the sender's.  *)
LEMMA Numbers ==
    ASSUME NEW n \in Nat
    PROVE  /\ n % BlockMod \in 0 .. BlockMod - 1
           /\ (n + 1) % BlockMod # n % BlockMod
           /\ ((n % BlockMod) + 1) % BlockMod = (n + 1) % BlockMod
  <1>1. BlockMod \in Nat \ {0} /\ BlockMod > 2
    BY Constants
  <1>2. n % BlockMod \in 0 .. BlockMod - 1
    BY <1>1, DivMod
  <1>3. (n + 1) % BlockMod # n % BlockMod
    <2> DEFINE r == n % BlockMod
               t == (n + 1) % BlockMod
    <2>1. t = IF r = BlockMod - 1 THEN 0 ELSE r + 1
      BY NextNumber
    <2> HIDE DEF r, t
    <2>2. r \in 0 .. BlockMod - 1
      BY <1>2 DEF r
    <2>3. t # r
      BY <1>1, <2>1, <2>2
    <2> QED  BY <2>3 DEF r, t
  <1>4. ASSUME NEW e \in 0 .. BlockMod - 1
        PROVE  e % BlockMod = e
    <2>1. e % BlockMod \in 0 .. BlockMod - 1 /\ e \div BlockMod \in Int
          /\ e = BlockMod * (e \div BlockMod) + (e % BlockMod)
      BY <1>1, DivMod
    <2>2. e = BlockMod * 0 + e /\ 0 \in Int
      BY <1>1
    <2> QED  BY <1>1, <2>1, <2>2, Unique
  <1>5. ((n % BlockMod) + 1) % BlockMod = (n + 1) % BlockMod
    <2> DEFINE e == n % BlockMod
    <2>1. e \in Nat /\ e \in 0 .. BlockMod - 1
      BY <1>2
    <2>2. (e + 1) % BlockMod = IF e % BlockMod = BlockMod - 1 THEN 0 ELSE (e % BlockMod) + 1
      <3> HIDE DEF e
      <3> QED  BY <2>1, NextNumber
    <2>3. e % BlockMod = e
      <3> HIDE DEF e
      <3> QED  BY <1>4, <2>1
    <2> QED  BY <2>2, <2>3, NextNumber
  <1> QED  BY <1>2, <1>3, <1>5

LEMMA FirstNumbers == 0 % BlockMod = 0 /\ 1 % BlockMod = 1
  BY Constants

-----------------------------------------------------------------------------
(* The buffer.                                                             *)

(* Held, without the conditionals.                                         *)
LEMMA HeldIs ==
    ASSUME NEW n \in Nat, bufsz \in Nat, fsize \in {0, FileLen}
    PROVE  /\ Held(n) \in Nat /\ Held(n) <= bufsz /\ Held(n) <= 2 * n
           /\ fsize # 0 => Held(n) <= fsize
           /\ \/ Held(n) = 2 * n \/ Held(n) = bufsz
              \/ fsize # 0 /\ Held(n) = fsize
  BY Constants DEF Held, Smaller

(* A block copied by the rules of ymodem.c is what the file has there.     *)
LEMMA HeldNext ==
    ASSUME NEW n \in Nat, bufsz \in Nat, fsize \in {0, FileLen}, total = Held(n)
    PROVE  /\ Copy \in 0 .. 2
           /\ total + Copy = Held(n + 1)
           /\ Copy > 0 => total = 2 * n
  BY Constants DEF Copy, Fitted, Held, Smaller

-----------------------------------------------------------------------------
(* Items and replies.                                                      *)

LEMMA Items ==
    /\ \A n \in Nat, d \in 0 .. NBlocks + 1 : Block(n, d) \in Item
    /\ \A k \in {"bad", "junk", "EOT", "CAN"} : Other(k) \in Item
    /\ \A n, d : /\ Block(n, d).kind = "block" /\ Block(n, d).data = d
                 /\ Block(n, d).num = n % BlockMod
    /\ \A k : Other(k).kind = k
  <1>1. \A n \in Nat : n % BlockMod \in 0 .. BlockMod - 1
    BY Numbers
  <1> QED  BY <1>1, Constants DEF Block, Other, Item

LEMMA CurrentType ==
    ASSUME SenderType, sblk \in 0 .. NBlocks
    PROVE  Current \in Item
  <1>1. Block(0, Name) \in Item /\ Block(sblk, sblk) \in Item /\ Block(0, Null) \in Item
    BY Items, Constants DEF Name, Null
  <1>2. Other("EOT") \in Item
    BY Items
  <1> QED  BY <1>1, <1>2 DEF Current

(* Replies without an acknowledgement stay so when others are added.       *)
LEMMA SayType ==
    ASSUME replies \in Seq(Reply), NEW rs \in Seq(Reply), Say(rs)
    PROVE  /\ replies' \in Seq(Reply)
           /\ ~Reading => replies' = replies
           /\ NoAck /\ (\A i \in 1 .. Len(rs) : rs[i] # "ACK") => NoAck'
  <1>1. CASE Reading
    <2>1. replies' = replies \o rs
      BY <1>1 DEF Say
    <2>2. /\ replies \o rs \in Seq(Reply)
          /\ Len(replies \o rs) = Len(replies) + Len(rs)
          /\ \A i \in 1 .. Len(replies) + Len(rs) :
                (replies \o rs)[i] = IF i <= Len(replies) THEN replies[i] ELSE rs[i - Len(replies)]
      BY ConcatProperties
    <2>3. Len(replies) \in Nat /\ Len(rs) \in Nat
      BY LenProperties
    <2> QED  BY <1>1, <2>1, <2>2, <2>3 DEF NoAck
  <1>2. CASE ~Reading
    BY <1>2 DEF Say, NoAck
  <1> QED  BY <1>1, <1>2

LEMMA Answers ==
    /\ <<"C">> \in Seq(Reply) /\ <<"ACK">> \in Seq(Reply) /\ <<"NAK">> \in Seq(Reply)
    /\ <<"ACK", "C">> \in Seq(Reply)
    /\ \A i \in 1 .. Len(<<"C">>) : <<"C">>[i] # "ACK"
    /\ \A i \in 1 .. Len(<<"NAK">>) : <<"NAK">>[i] # "ACK"
  BY DEF Reply

-----------------------------------------------------------------------------
(* What a step of the receiver does to the two directions.                 *)

\* Items go away, or turn into something that is neither block nor EOT.
LineLess ==
    /\ line' \in Seq(Item) /\ Len(line') <= Len(line)
    /\ \A i \in 1 .. Len(line') :
          \/ line'[i].kind \notin {"block", "EOT"}
          \/ \E j \in 1 .. Len(line) : line'[i] = line[j]

LEMMA LessGenuine ==
    ASSUME AllGenuine, LineLess, UNCHANGED <<phase, sblk>>, stray => stray'
    PROVE  AllGenuine'
  <1>1. Current' = Current
    BY DEF Current
  <1>2. SUFFICES ASSUME NEW i \in 1 .. Len(line')
                 PROVE  /\ line'[i].kind = "block" =>
                              phase \in {"header", "data", "null"} /\ line'[i] = Current
                        /\ line'[i].kind = "EOT" /\ ~stray' => phase = "eot"
    BY <1>1 DEF AllGenuine, Genuine
  <1>3. CASE line'[i].kind \notin {"block", "EOT"}
    BY <1>3
  <1>4. CASE \E j \in 1 .. Len(line) : line'[i] = line[j]
    BY <1>4 DEF AllGenuine, Genuine
  <1> QED  BY <1>3, <1>4 DEF LineLess

(* The item at the head of the line, and what is behind it.                *)
LEMMA Ahead ==
    ASSUME line \in Seq(Item), Arrived
    PROVE  /\ Len(line) \in Nat /\ Len(line) >= 1
           /\ Item1 = line[1] /\ Item1 \in Item
           /\ Tail(line) \in Seq(Item) /\ Len(Tail(line)) = Len(line) - 1
           /\ \A i \in 1 .. Len(line) - 1 : Tail(line)[i] = line[i + 1]
  <1>1. Len(line) \in Nat \ {0}
    BY EmptySeq DEF Arrived
  <1>2. Head(line) = line[1]
    BY DEF Arrived
  <1> QED  BY <1>1, <1>2, HeadTailProperties DEF Arrived, Item1

LEMMA TakeLess ==
    ASSUME line \in Seq(Item), Arrived, Take
    PROVE  LineLess /\ Len(line') < Len(line)
  <1>1. line' = Tail(line)
    BY DEF Take
  <1> QED  BY <1>1, Ahead DEF LineLess

LEMMA BadLess ==
    ASSUME line \in Seq(Item), Arrived, RxBad
    PROVE  LineLess /\ Len(line') < Len(line)
  <1>1. PICK n \in 1 .. Len(line) : line' = SubSeq(line, n + 1, Len(line))
    BY DEF RxBad
  <1>2. Len(line) \in Nat /\ n \in Int /\ n + 1 \in Int /\ Len(line) \in Int
    BY Ahead
  <1>3. \A i \in n + 1 .. Len(line) : line[i] \in Item
    BY <1>2, ElementOfSeq
  <1>4. /\ line' \in Seq(Item)
        /\ Len(line') = IF n + 1 <= Len(line) THEN Len(line) - (n + 1) + 1 ELSE 0
        /\ \A i \in 1 .. Len(line) - (n + 1) + 1 : line'[i] = line[n + 1 + i - 1]
    BY <1>1, <1>2, <1>3, SubSeqProperties
  <1>5. Len(line') < Len(line)
    BY <1>2, <1>4, Ahead
  <1>6. \A i \in 1 .. Len(line') : \E j \in 1 .. Len(line) : line'[i] = line[j]
    <2> SUFFICES ASSUME NEW i \in 1 .. Len(line')
                 PROVE  \E j \in 1 .. Len(line) : line'[i] = line[j]
      OBVIOUS
    <2>1. n + 1 + i - 1 \in 1 .. Len(line) /\ i \in 1 .. Len(line) - (n + 1) + 1
      BY <1>2, <1>4
    <2> QED  BY <1>4, <2>1
  <1> QED  BY <1>2, <1>4, <1>5, <1>6 DEF LineLess

LEMMA CanLess ==
    ASSUME line \in Seq(Item), Arrived, RxCan
    PROVE  LineLess /\ Len(line') < Len(line)
  <1> DEFINE rest == Tail(line)
  <1>1. /\ rest \in Seq(Item) /\ Len(rest) = Len(line) - 1 /\ Len(line) \in Nat
        /\ \A i \in 1 .. Len(line) - 1 : rest[i] = line[i + 1]
    BY Ahead
  <1>2. CASE rest = <<>>
    <2>1. line' = rest
      BY <1>2 DEF RxCan
    <2> QED  BY <1>1, <2>1 DEF LineLess
  <1>3. CASE rest # <<>>
    <2>1. /\ Tail(rest) \in Seq(Item) /\ Len(Tail(rest)) = Len(line) - 2
          /\ Len(line) - 2 \in Nat
          /\ \A i \in 1 .. Len(line) - 2 : Tail(rest)[i] = line[i + 2]
      <3>1. Len(rest) \in Nat \ {0}
        BY <1>1, <1>3, EmptySeq
      <3>2. /\ Tail(rest) \in Seq(Item) /\ Len(Tail(rest)) = Len(rest) - 1
            /\ \A i \in 1 .. Len(Tail(rest)) : Tail(rest)[i] = rest[i + 1]
        BY <1>1, <1>3, HeadTailProperties
      <3> QED  BY <1>1, <3>1, <3>2
    <2>2. CASE line' = Tail(rest)
      BY <1>1, <2>1, <2>2 DEF LineLess
    <2>3. CASE line' = <<Other("junk")>> \o Tail(rest)
      <3>1. <<Other("junk")>> \in Seq(Item) /\ Other("junk").kind = "junk"
        BY Items
      <3>2. /\ line' \in Seq(Item) /\ Len(line') = 1 + Len(Tail(rest))
            /\ \A i \in 1 .. 1 + Len(Tail(rest)) :
                  line'[i] = IF i <= 1 THEN <<Other("junk")>>[i] ELSE Tail(rest)[i - 1]
        <4>1. Len(<<Other("junk")>>) = 1
          OBVIOUS
        <4> QED  BY <2>1, <2>3, <3>1, <4>1, ConcatProperties
      <3>3. \A i \in 1 .. Len(line') :
               \/ line'[i].kind = "junk"
               \/ \E j \in 1 .. Len(line) : line'[i] = line[j]
        <4> SUFFICES ASSUME NEW i \in 1 .. Len(line'), i # 1
                     PROVE  \E j \in 1 .. Len(line) : line'[i] = line[j]
          BY <2>1, <3>1, <3>2, SMTT(40)
        <4>1. Len(line') = 1 + (Len(line) - 2) /\ Len(line) - 2 \in Nat
          BY <2>1, <3>2
        <4> HIDE DEF rest
        <4>2. \A n \in Nat : (i \in 1 .. 1 + (n - 2) /\ n - 2 \in Nat) =>
                 /\ i - 1 \in 1 .. n - 2 /\ (i - 1) + 2 \in 1 .. n
                 /\ i \in 1 .. 1 + (n - 2) /\ ~(i <= 1)
          OBVIOUS
        <4>3. /\ i - 1 \in 1 .. Len(line) - 2 /\ (i - 1) + 2 \in 1 .. Len(line)
              /\ i \in 1 .. 1 + Len(Tail(rest)) /\ ~(i <= 1)
          BY <1>1, <2>1, <4>1, <4>2, Zenon
        <4>4. line'[i] = Tail(rest)[i - 1] /\ Tail(rest)[i - 1] = line[(i - 1) + 2]
          BY <2>1, <3>2, <4>3, Zenon
        <4> QED  BY <4>3, <4>4, Zenon
      <3>4. Len(line') < Len(line) /\ Len(line') <= Len(line)
        <4>1. Len(line') = 1 + (Len(line) - 2) /\ Len(line) \in Nat
          BY <1>1, <2>1, <3>2, Zenon
        <4> QED  BY <4>1
      <3>5. \A k : k = "junk" => k \notin {"block", "EOT"}
        OBVIOUS
      <3> HIDE DEF rest
      <3> QED  BY <3>2, <3>3, <3>4, <3>5, Zenon DEF LineLess
    <2> QED  BY <1>3, <2>2, <2>3 DEF RxCan
  <1> QED  BY <1>2, <1>3

(* In every step of the receiver.                                          *)
LEMMA ReceiveLine ==
    ASSUME IInv, Receive
    PROVE  /\ LineLess
           /\ Arrived => phase = "failed" \/ line' = <<>>
           /\ ~Arrived => line' = <<>>
  <1>1. line \in Seq(Item)
    BY DEF IInv, TypeOK
  <1>2. CASE RxTimeout
    BY <1>1, <1>2 DEF RxTimeout, LineLess, Arrived
  <1>3. CASE ~RxTimeout
    <2>1. Arrived
      BY <1>3 DEF Receive, RxEot, RxCan, RxJunk, RxBad, RxTrailer, RxHeader, RxData,
                  RxDuplicate, RxOutOfSequence, Good
    <2>2. RxCan \/ RxBad \/ Take
      BY <1>3 DEF Receive, RxEot, RxJunk, RxTrailer, RxHeader, RxData, RxDuplicate,
                  RxOutOfSequence
    <2>3. LineLess /\ Len(line') < Len(line)
      BY <1>1, <2>1, <2>2, CanLess, BadLess, TakeLess
    <2>4. phase # "failed" => line' = <<>>
      <3>1. Len(line) \in Nat /\ (phase # "failed" => Len(line) <= 1)
        BY <1>1, <2>1, Ahead DEF IInv, TakeTurns
      <3>2. line' # <<>> => Len(line') \in Nat \ {0}
        BY <2>3, EmptySeq DEF LineLess
      <3> QED  BY <2>3, <3>1, <3>2
    <2> QED  BY <2>1, <2>3, <2>4
  <1> QED  BY <1>2, <1>3

LEMMA ReceiveReplies ==
    ASSUME IInv, Receive
    PROVE  replies' \in Seq(Reply) /\ (~Reading => replies' = replies)
  <1>1. replies \in Seq(Reply)
    BY DEF IInv, TypeOK
  <1>2. \/ replies' = replies
        \/ \E rs \in {<<"C">>, <<"ACK">>, <<"NAK">>, <<"ACK", "C">>} : Say(rs)
    BY DEF Receive, RxTimeout, RxEot, RxCan, RxJunk, RxBad, RxTrailer, RxHeader, RxData,
           RxDuplicate, RxOutOfSequence
  <1>3. CASE replies' = replies
    BY <1>1, <1>3
  <1>4. ASSUME NEW rs \in {<<"C">>, <<"ACK">>, <<"NAK">>, <<"ACK", "C">>}, Say(rs)
        PROVE  replies' \in Seq(Reply) /\ (~Reading => replies' = replies)
    <2>1. rs \in Seq(Reply)
      BY Answers
    <2> QED  BY <1>1, <1>4, <2>1, SayType
  <1> QED  BY <1>2, <1>3, <1>4

(* Turns are kept, and nothing on the line becomes a block or an EOT.      *)
LEMMA ReceiveTurns ==
    ASSUME IInv, Receive
    PROVE  SenderType' /\ TakeTurns' /\ AllGenuine'
  <1>1. UNCHANGED <<bufsz, phase, sblk, retries, faults, stray>>
    BY DEF Receive, sendVars
  <1>2. SenderType'
    BY <1>1 DEF IInv, SenderType
  <1>3. AllGenuine'
    BY <1>1, ReceiveLine, LessGenuine DEF IInv
  <1>4. TakeTurns'
    <2>1. replies' # <<>> => line' = <<>> /\ phase # "failed"
      <3>1. CASE phase = "failed"
        BY <3>1, ReceiveReplies DEF IInv, TakeTurns, Reading
      <3>2. CASE phase # "failed"
        BY <3>2, ReceiveLine
      <3> QED  BY <3>1, <3>2
    <2>2. Len(line') <= IF phase = "failed" THEN 2 ELSE 1
      <3>1. Len(line) \in Nat /\ Len(line') \in Nat
        BY ReceiveLine, LenProperties DEF IInv, TypeOK, LineLess
      <3> QED  BY <3>1, ReceiveLine DEF IInv, TakeTurns, LineLess
    <2> QED  BY <1>1, <2>1, <2>2 DEF TakeTurns
  <1> QED  BY <1>2, <1>3, <1>4

-----------------------------------------------------------------------------
(* Where the receiver is.                                                  *)

Same == UNCHANGED <<bufsz, expect, have_header, trailer, fsize, stored, phase, sblk>>

LEMMA SameSync ==
    ASSUME IInv, Same, trailer \/ (NoAck => NoAck'), stray => stray'
    PROVE  InSync' /\ WholeFile'
  <1>1. total' = total /\ (Fresh' <=> Fresh)
    BY DEF Same, Fresh, total
  <1>2. /\ Held(NBlocks)' = Held(NBlocks) /\ (After(NBlocks)' <=> After(NBlocks))
        /\ After(0)' <=> After(0)
        /\ After(sblk - 1)' <=> After(sblk - 1)
        /\ After(sblk)' <=> After(sblk)
    BY <1>1 DEF Same, After, Held
  <1>3. InSync'
    BY <1>1, <1>2 DEF IInv, Same, InSync
  <1>4. WholeFile'
    BY <1>1, <1>2 DEF IInv, Same, WholeFile
  <1> QED  BY <1>3, <1>4

(* A block that comes in before an EOT is the header, from a sender that   *)
(* waits for its answer, or the sender's current block.                    *)
LEMMA BlockIs ==
    ASSUME IInv, Good, ~trailer
    PROVE  \/ /\ phase = "header" /\ Item1.num = 0 /\ Item1.data = 0
              /\ (Fresh /\ NoAck) \/ After(0)
           \/ /\ phase = "data" /\ Item1.num = sblk % BlockMod /\ Item1.data = sblk
              /\ (After(sblk - 1) /\ NoAck) \/ After(sblk)
  <1>1. Item1 = line[1] /\ 1 \in 1 .. Len(line)
    BY Ahead DEF IInv, TypeOK, Good
  <1>2. phase \in {"header", "data", "null"} /\ Item1 = Current
    BY <1>1 DEF IInv, AllGenuine, Genuine, Good
  <1>3. \/ phase = "header" /\ ((Fresh /\ NoAck) \/ After(0))
        \/ phase = "data" /\ ((After(sblk - 1) /\ NoAck) \/ After(sblk))
    BY <1>2 DEF IInv, InSync
  <1>4. phase = "header" => Item1 = Block(0, Name)
    BY <1>2 DEF Current
  <1>5. phase = "data" => Item1 = Block(sblk, sblk)
    BY <1>2 DEF Current
  <1> QED  BY <1>3, <1>4, <1>5, Items, FirstNumbers DEF Name

LEMMA DataIs ==
    ASSUME IInv, RxData
    PROVE  phase = "data" /\ Item1.data = sblk /\ After(sblk - 1) /\ sblk \in 1 .. NBlocks
  <1>1. Good /\ Expected /\ ~trailer /\ have_header
    BY DEF RxData
  <1>2. (0 + 1) % BlockMod = 1
    BY FirstNumbers
  <1>3. phase # "header"
    <2>1. ~(Fresh \/ After(0)) \/ Item1.num # 0
      BY <1>1, <1>2 DEF Fresh, After, Expected
    <2> QED  BY <1>1, <2>1, BlockIs
  <1>4. phase = "data" /\ sblk \in 1 .. NBlocks
    BY <1>1, <1>3, BlockIs, Constants DEF IInv, TypeOK, SenderType
  <1>5. (sblk + 1) % BlockMod # sblk % BlockMod
    <2>1. sblk \in Nat
      BY <1>4, Constants
    <2> QED  BY <2>1, Numbers, Zenon
  <1>6. ~After(sblk)
    BY <1>1, <1>4, <1>5, BlockIs DEF After, Expected
  <1> QED  BY <1>1, <1>4, <1>6, BlockIs

LEMMA HeaderIs ==
    ASSUME IInv, RxHeader
    PROVE  phase = "header" /\ Item1.data # Null /\ stored = <<>>
  <1>1. Good /\ ~trailer /\ ~have_header
    BY DEF RxHeader
  <1>2. phase = "header" /\ Item1.data = 0 /\ Fresh
    BY <1>1, BlockIs DEF After
  <1> QED  BY <1>2, Constants DEF Null, Fresh

(* A block stored makes the buffer what it is after one block more.        *)
LEMMA DataStored ==
    ASSUME IInv, RxData, UNCHANGED <<bufsz, sendVars>>
    PROVE  /\ StoredType' /\ StoredIsPrefix'
           /\ total' = Held(sblk) /\ Held(sblk)' = Held(sblk)
  <1> DEFINE two == <<2 * sblk - 1, 2 * sblk>>
             kept == SubSeq(two, 1, Copy)
  <1>1. sblk \in 1 .. NBlocks /\ Item1.data = sblk /\ total = Held(sblk - 1)
    BY DataIs DEF After
  <1>2. sblk \in Nat /\ sblk - 1 \in Nat /\ (sblk - 1) + 1 = sblk
        /\ 2 * sblk - 1 \in Nat /\ 2 * sblk \in Nat
    BY <1>1, Constants
  <1>3. bufsz \in Nat /\ fsize \in {0, FileLen} /\ stored \in Seq(Nat)
    BY YmodemAssumption DEF IInv, TypeOK, StoredType
  <1>4. /\ Copy \in 0 .. 2 /\ total + Copy = Held(sblk)
        /\ Copy > 0 => total = 2 * (sblk - 1)
    BY <1>1, <1>2, <1>3, HeldNext
  <1>5. stored' = stored \o kept /\ UNCHANGED <<bufsz, fsize, sblk>>
    BY <1>1 DEF RxData, sendVars
  <1>6. /\ kept \in Seq(Nat) /\ Len(kept) = Copy
        /\ \A i \in 1 .. Copy : kept[i] = two[i]
    <2> HIDE DEF two
    <2>1. two[1] = 2 * sblk - 1 /\ two[2] = 2 * sblk
      BY DEF two
    <2>2. \A i \in 1 .. Copy : two[i] \in Nat
      BY <1>2, <1>4, <2>1
    <2>3. 1 \in Int /\ Copy \in Int
      BY <1>4
    <2>4. /\ kept \in Seq(Nat)
          /\ Len(kept) = IF 1 <= Copy THEN Copy - 1 + 1 ELSE 0
          /\ \A i \in 1 .. Copy - 1 + 1 : kept[i] = two[1 + i - 1]
      BY <2>2, <2>3, SubSeqProperties
    <2> QED  BY <1>4, <2>4
  <1> HIDE DEF kept
  <1>7. /\ stored' \in Seq(Nat) /\ Len(stored') = total + Copy
        /\ \A i \in 1 .. total + Copy :
              stored'[i] = IF i <= total THEN stored[i] ELSE kept[i - total]
    BY <1>3, <1>5, <1>6, ConcatProperties DEF total
  <1>8. total \in Nat /\ total' = Held(sblk)
    BY <1>3, <1>4, <1>7, LenProperties DEF total
  <1>9. ASSUME NEW k \in 1 .. total + Copy
        PROVE  stored'[k] = k
    <2>1. CASE k <= total
      BY <1>7, <1>8, <1>9, <2>1 DEF IInv, StoredIsPrefix
    <2>2. CASE k > total
      <3>1. k - total \in 1 .. Copy /\ total = 2 * sblk - 2 /\ stored'[k] = kept[k - total]
        BY <1>2, <1>4, <1>7, <1>8, <1>9, <2>2
      <3>2. two[k - total] = k
        BY <1>2, <1>4, <1>8, <3>1
      <3> QED  BY <1>6, <3>1, <3>2
    <2> QED  BY <1>4, <1>8, <2>1, <2>2
  <1>10. Held(sblk) <= bufsz /\ (fsize # 0 => Held(sblk) <= fsize)
    BY <1>2, <1>3, HeldIs
  <1>11. StoredIsPrefix'
    <2>1. total' = total + Copy
      BY <1>7 DEF total
    <2>2. \A k \in 1 .. total' : stored'[k] = k
      BY <1>9, <2>1
    <2> QED  BY <1>5, <1>8, <1>10, <2>2 DEF StoredIsPrefix
  <1>12. Held(sblk)' = Held(sblk)
    BY <1>5 DEF Held
  <1> QED  BY <1>7, <1>8, <1>11, <1>12 DEF StoredType

LEMMA ReceiveStored ==
    ASSUME IInv, Receive
    PROVE  StoredType' /\ StoredIsPrefix'
  <1>1. UNCHANGED <<bufsz, sendVars>>
    BY DEF Receive
  <1>2. CASE RxData
    BY <1>1, <1>2, DataStored
  <1>3. CASE RxHeader
    <2>1. stored' = <<>> /\ fsize' \in {0, FileLen}
      BY <1>3, HeaderIs DEF RxHeader
    <2>2. Len(<<>>) = 0 /\ <<>> \in Seq(Nat)
      OBVIOUS
    <2>3. bufsz \in Nat /\ FileLen \in Nat
      BY YmodemAssumption DEF IInv, TypeOK
    <2> QED  BY <1>1, <2>1, <2>2, <2>3 DEF StoredType, StoredIsPrefix, total
  <1>4. CASE ~RxData /\ ~RxHeader
    <2>1. UNCHANGED <<fsize, stored>>
      BY <1>4 DEF Receive, RxTimeout, RxEot, RxCan, RxJunk, RxBad, RxTrailer,
                  RxDuplicate, RxOutOfSequence
    <2> QED  BY <1>1, <2>1 DEF IInv, StoredType, StoredIsPrefix, total
  <1> QED  BY <1>2, <1>3, <1>4

LEMMA ReceiveSync ==
    ASSUME IInv, Receive
    PROVE  InSync' /\ WholeFile'
  <1>1. UNCHANGED <<bufsz, phase, sblk, stray>> /\ UNCHANGED <<bufsz, sendVars>>
    BY DEF Receive, sendVars
  <1>2. replies \in Seq(Reply)
    BY DEF IInv, TypeOK
  \* No acknowledgement, or one that follows an EOT: the place is the same.
  <1>3. CASE RxTimeout \/ RxCan \/ RxJunk \/ RxBad \/ RxTrailer \/ RxOutOfSequence
    <2>1. UNCHANGED <<expect, have_header, trailer, fsize, stored>>
      BY <1>3 DEF RxTimeout, RxCan, RxJunk, RxBad, RxTrailer, RxOutOfSequence
    <2>2. trailer \/ replies' = replies \/ Say(<<"C">>) \/ Say(<<"NAK">>)
      BY <1>3 DEF RxTimeout, RxCan, RxJunk, RxBad, RxTrailer, RxOutOfSequence
    <2>3. trailer \/ (NoAck => NoAck')
      <3>1. CASE replies' = replies
        BY <3>1 DEF NoAck
      <3>2. CASE Say(<<"C">>)
        BY <1>2, <3>2, Answers, SayType
      <3>3. CASE Say(<<"NAK">>)
        BY <1>2, <3>3, Answers, SayType
      <3> QED  BY <2>2, <3>1, <3>2, <3>3
    <2> QED  BY <1>1, <2>1, <2>3, SameSync DEF Same
  \* The block before has been stored: saying so again is no news.
  <1>4. CASE RxDuplicate
    <2>1. UNCHANGED <<expect, have_header, trailer, fsize, stored>>
      BY <1>4 DEF RxDuplicate
    <2>3. CASE trailer
      BY <1>1, <2>1, <2>3, SameSync DEF Same
    <2>4. CASE ~trailer
      <3>1. /\ phase = "header" => After(0)
            /\ phase = "data" => After(sblk)
            /\ phase \in {"header", "data"}
        <4>1. Good /\ Item1.num # expect
          BY <1>4 DEF RxDuplicate, Previous, Expected
        <4>2. ~Fresh \/ Item1.num # 0
          BY <4>1 DEF Fresh
        <4>3. phase = "data" => ~After(sblk - 1) \/ Item1.num # sblk % BlockMod
          <5>1. phase = "data" => (sblk - 1) + 1 = sblk
            BY Constants DEF IInv, TypeOK, SenderType
          <5> QED  BY <4>1, <5>1 DEF After
        <4> QED  BY <2>4, <4>1, <4>2, <4>3, BlockIs
      <3>2. (After(0)' <=> After(0)) /\ (After(sblk)' <=> After(sblk))
        BY <1>1, <2>1 DEF After, Held, total
      <3> QED  BY <1>1, <2>1, <2>4, <3>1, <3>2 DEF InSync, WholeFile
    <2> QED  BY <2>3, <2>4
  <1>5. CASE RxEot
    <2>1. trailer' = TRUE /\ UNCHANGED <<fsize, stored>> /\ Arrived /\ Item1.kind = "EOT"
      BY <1>5 DEF RxEot
    <2>2. Held(NBlocks)' = Held(NBlocks) /\ total' = total
      BY <1>1, <2>1 DEF Held, total
    <2>3. ~stray => phase = "eot"
      <3>1. Item1 = line[1] /\ 1 \in 1 .. Len(line)
        BY <2>1, Ahead DEF IInv, TypeOK
      <3> QED  BY <2>1, <3>1 DEF IInv, AllGenuine, Genuine
    <2>4. ~stray => total = Held(NBlocks)
      BY <2>3 DEF IInv, InSync, WholeFile, After
    <2> QED  BY <1>1, <2>1, <2>2, <2>3, <2>4 DEF InSync, WholeFile
  <1>6. CASE RxHeader
    <2>1. /\ phase = "header" /\ ~trailer /\ trailer' = trailer
          /\ have_header' = TRUE /\ expect' = 1 /\ stored' = <<>> /\ fsize' \in {0, FileLen}
      BY <1>6, HeaderIs DEF RxHeader
    <2>2. total' = 0 /\ Held(0)' = 0
      <3>1. bufsz \in Nat /\ 2 * 0 = 0
        BY YmodemAssumption DEF IInv, TypeOK
      <3> QED  BY <1>1, <2>1, <3>1, Constants DEF total, Held, Smaller
    <2>3. expect' = (0 + 1) % BlockMod
      BY <2>1, FirstNumbers
    <2>4. After(0)'
      BY <2>1, <2>2, <2>3 DEF After
    <2> QED  BY <1>1, <2>1, <2>4 DEF InSync, WholeFile
  <1>7. CASE RxData
    <2>1. phase = "data" /\ sblk \in Nat /\ After(sblk - 1) /\ (sblk - 1) + 1 = sblk
      BY <1>7, DataIs, Constants
    <2>2. /\ ~trailer /\ trailer' = trailer /\ have_header' = have_header
          /\ expect' = (expect + 1) % BlockMod
      BY <1>7 DEF RxData
    <2>3. expect' = (sblk + 1) % BlockMod
      <3>1. expect = sblk % BlockMod
        BY <2>1 DEF After
      <3> QED  BY <2>1, <2>2, <3>1, Numbers, Zenon
    <2>4. total' = Held(sblk)' /\ sblk' = sblk
      BY <1>1, <1>7, DataStored
    <2>5. After(sblk)'
      BY <2>1, <2>2, <2>3, <2>4 DEF After
    <2> QED  BY <1>1, <2>1, <2>2, <2>5 DEF InSync, WholeFile
  <1> QED  BY <1>3, <1>4, <1>5, <1>6, <1>7 DEF Receive

LEMMA ReceiveType ==
    ASSUME IInv, Receive
    PROVE  TypeOK' /\ OkIsTrailer'
  <1>1. UNCHANGED <<bufsz, sblk, retries>>
    BY DEF Receive, sendVars
  <1>2. line' \in Seq(Item) /\ replies' \in Seq(Reply)
    BY ReceiveLine, ReceiveReplies DEF LineLess
  <1>3. /\ expect \in Nat /\ (expect + 1) % BlockMod \in 0 .. BlockMod - 1
        /\ 0 \in 0 .. BlockMod - 1 /\ 1 \in 0 .. BlockMod - 1
    BY Constants, DivMod DEF IInv, TypeOK
  <1>4. MAX_IDLE \in Nat /\ idle \in 0 .. MAX_IDLE /\ result = "none"
    BY YmodemAssumption DEF IInv, TypeOK, Receive, RxTimeout, RxEot, RxCan, RxJunk, RxBad,
       RxTrailer, RxHeader, RxData, RxDuplicate, RxOutOfSequence, Good, Running
  <1>5. /\ expect' \in 0 .. BlockMod - 1 /\ have_header' \in BOOLEAN /\ trailer' \in BOOLEAN
        /\ fsize' \in {0, FileLen}
    BY <1>3 DEF IInv, TypeOK, Receive, RxTimeout, RxEot, RxCan, RxJunk, RxBad,
       RxTrailer, RxHeader, RxData, RxDuplicate, RxOutOfSequence
  <1>6. /\ idle' \in 0 .. MAX_IDLE + 1 /\ (Running' => idle' <= MAX_IDLE)
        /\ result' \in {"none", "timeout", "cancel", "ok"}
    <2>1. CASE RxTimeout
      BY <1>4, <2>1 DEF RxTimeout, Running, Finish
    <2>2. CASE ~RxTimeout
      <3>1. idle' = 0
        BY <2>2 DEF Receive, RxEot, RxCan, RxJunk, RxBad, RxTrailer, RxHeader, RxData,
                    RxDuplicate, RxOutOfSequence, Take
      <3>2. result' \in {"none", "cancel", "ok"}
        BY <1>4, <2>2 DEF Receive, RxEot, RxCan, RxJunk, RxBad, RxTrailer, RxHeader,
                    RxData, RxDuplicate, RxOutOfSequence, Finish
      <3> QED  BY <1>4, <3>1, <3>2
    <2> QED  BY <2>1, <2>2
  <1>7. OkIsTrailer'
    <2>1. CASE RxHeader
      BY <1>4, <2>1, HeaderIs DEF RxHeader, OkIsTrailer
    <2>2. CASE ~RxHeader
      BY <1>4, <2>2 DEF Receive, RxTimeout, RxEot, RxCan, RxJunk, RxBad, RxTrailer, RxData,
                  RxDuplicate, RxOutOfSequence, Finish, OkIsTrailer
    <2> QED  BY <2>1, <2>2
  <1> QED  BY <1>1, <1>2, <1>5, <1>6, <1>7 DEF IInv, TypeOK

LEMMA ReceiveInv ==
    ASSUME IInv, Receive
    PROVE  IInv'
  BY ReceiveTurns, ReceiveStored, ReceiveSync, ReceiveType DEF IInv

-----------------------------------------------------------------------------
(* The sender.                                                             *)

\* What the sender leaves alone.
Quiet == UNCHANGED <<recvVars, faults, stray>>

LEMMA QuietKept ==
    ASSUME IInv, Quiet
    PROVE  /\ StoredType' /\ StoredIsPrefix' /\ OkIsTrailer'
           /\ trailer' = trailer /\ stray' = stray /\ (Fresh' <=> Fresh)
           /\ total' = total /\ UNCHANGED <<have_header, expect, fsize, bufsz>>
           /\ Held(NBlocks)' = Held(NBlocks) /\ (After(NBlocks)' <=> After(NBlocks))
           /\ (After(0)' <=> After(0)) /\ (UNCHANGED sblk => (After(sblk)' <=> After(sblk)))
           /\ UNCHANGED sblk => (After(sblk - 1)' <=> After(sblk - 1))
  BY DEF IInv, Quiet, recvVars, StoredType, StoredIsPrefix, OkIsTrailer, Fresh, After, Held, total

\* The sender's own variables after a step that sends `item'.
Sensible(p, b, n) ==
    /\ p \in Phases /\ b \in 0 .. NBlocks /\ n \in 0 .. MaxRetries
    /\ p = "data" => b >= 1
    /\ p = "go" => b = 1

LEMMA SendKept ==
    ASSUME IInv, Quiet, line = <<>>,
           NEW item \in Item, NEW p, NEW b, NEW n, Send(item, p, b, n),
           Sensible(p, b, n), p # "failed",
           item.kind = "block" => p \in {"header", "data", "null"} /\ item = Current',
           item.kind = "EOT" => p = "eot"
    PROVE  TypeOK' /\ SenderType' /\ TakeTurns' /\ AllGenuine' /\ NoAck'
  <1>1. line' = Append(<<>>, item) /\ replies' = <<>> /\ phase' = p /\ sblk' = b /\ retries' = n
    BY DEF Send
  <1>2. line' \in Seq(Item) /\ Len(line') = 1 /\ line'[1] = item /\ Len(replies') = 0
    BY <1>1
  <1>3. TypeOK'
    BY <1>1, <1>2 DEF IInv, TypeOK, Quiet, recvVars, Sensible, Running
  <1>4. SenderType' /\ TakeTurns'
    BY <1>1, <1>2 DEF Sensible, SenderType, TakeTurns
  <1>5. AllGenuine'
    <2>1. ASSUME NEW i \in 1 .. Len(line')
          PROVE  line'[i] = item
      BY <1>2
    <2> QED  BY <1>1, <2>1 DEF AllGenuine, Genuine
  <1>6. NoAck'
    BY <1>2 DEF NoAck
  <1> QED  BY <1>3, <1>4, <1>5, <1>6

(* A step in which the sender reads a reply and sends nothing.             *)
LEMMA TailKept ==
    ASSUME IInv, Quiet, replies # <<>>, replies' = Tail(replies), UNCHANGED line,
           Sensible(phase', sblk', retries'), phase' # "failed"
    PROVE  TypeOK' /\ SenderType' /\ TakeTurns' /\ AllGenuine' /\ (NoAck => NoAck')
  <1>1. line = <<>> /\ line' = <<>> /\ Len(<<>>) = 0
    BY DEF IInv, TakeTurns
  <1>2. /\ replies' \in Seq(Reply) /\ Len(replies') = Len(replies) - 1
        /\ \A i \in 1 .. Len(replies') : replies'[i] = replies[i + 1]
    BY HeadTailProperties DEF IInv, TypeOK
  <1>3. Len(replies) \in Nat
    BY LenProperties DEF IInv, TypeOK
  <1>4. TypeOK'
    BY <1>1, <1>2 DEF IInv, TypeOK, Quiet, recvVars, Sensible, Running
  <1>5. SenderType' /\ TakeTurns' /\ AllGenuine'
    BY <1>1 DEF Sensible, SenderType, TakeTurns, AllGenuine
  <1>6. NoAck => NoAck'
    BY <1>2, <1>3 DEF NoAck
  <1> QED  BY <1>4, <1>5, <1>6

LEMMA SkipInv ==
    ASSUME IInv, Quiet, replies # <<>>, Skip
    PROVE  IInv'
  <1>1. replies' = Tail(replies) /\ UNCHANGED <<line, phase, sblk, retries>>
    BY DEF Skip, sendVars
  <1>2. Sensible(phase', sblk', retries') /\ phase' # "failed"
    BY <1>1 DEF IInv, TypeOK, SenderType, TakeTurns, Sensible
  <1>3. TypeOK' /\ SenderType' /\ TakeTurns' /\ AllGenuine' /\ (NoAck => NoAck')
    BY <1>1, <1>2, TailKept
  <1>4. InSync' /\ WholeFile'
    BY <1>1, <1>3, SameSync DEF Quiet, recvVars, Same
  <1> QED  BY <1>3, <1>4, QuietKept DEF IInv

(* Sending the current item again, or giving up.                           *)
LEMMA RepeatInv ==
    ASSUME IInv, Quiet, line = <<>>, phase \in {"header", "data", "eot", "null"}, Repeat
    PROVE  IInv'
  <1>1. CASE retries < MaxRetries
    <2>1. Send(Current, phase, sblk, retries + 1)
      BY <1>1 DEF Repeat
    <2>2. UNCHANGED <<phase, sblk>>
      BY <2>1 DEF Send
    <2>3. Sensible(phase, sblk, retries + 1)
      BY <1>1, YmodemAssumption DEF IInv, TypeOK, SenderType, Sensible
    <2>4. Current \in Item /\ Current' = Current
      BY <2>2, CurrentType DEF IInv, TypeOK, Current
    <2>5. /\ Current.kind = "block" => phase \in {"header", "data", "null"}
          /\ Current.kind = "EOT" => phase = "eot"
      <3>1. phase = "eot" => Current.kind = "EOT"
        BY Items DEF Current
      <3>2. phase \in {"header", "data", "null"} => Current.kind = "block"
        BY Items DEF Current
      <3> QED  BY <3>1, <3>2
    <2>6. TypeOK' /\ SenderType' /\ TakeTurns' /\ AllGenuine' /\ NoAck'
      BY <2>1, <2>3, <2>4, <2>5, SendKept
    <2>7. InSync' /\ WholeFile'
      BY <2>2, <2>6, SameSync DEF Quiet, recvVars, Same
    <2> QED  BY <2>6, <2>7, QuietKept DEF IInv
  <1>2. CASE ~(retries < MaxRetries)
    <2> DEFINE can == <<Other("CAN"), Other("CAN")>>
    <2>1. /\ phase' = "failed" /\ replies' = <<>> /\ line' = <<>> \o can
          /\ UNCHANGED <<sblk, retries>>
      BY <1>2 DEF Repeat
    <2>2. Other("CAN") \in Item /\ Other("CAN").kind = "CAN"
      BY Items
    <2>3. /\ line' = can /\ can \in Seq(Item) /\ Len(can) = 2
          /\ \A i \in 1 .. Len(can) : can[i] = Other("CAN")
      <3>1. can \in Seq(Item) /\ Len(can) = 2 /\ can[1] = Other("CAN") /\ can[2] = Other("CAN")
        BY <2>2
      <3> HIDE DEF can
      <3> QED  BY <2>1, <3>1, ConcatEmptySeq
    <2> HIDE DEF can
    <2>4. TypeOK'
      BY <2>1, <2>3 DEF IInv, TypeOK, Quiet, recvVars, Running
    <2>5. SenderType' /\ TakeTurns' /\ AllGenuine'
      <3>1. AllGenuine'
        BY <2>2, <2>3 DEF AllGenuine, Genuine
      <3>2. SenderType'
        BY <2>1 DEF SenderType, Phases
      <3>3. Len(line') = 2
        BY <2>3
      <3>4. phase' = "failed" /\ replies' = <<>>
        BY <2>1
      <3>5. TakeTurns'
        BY <3>3, <3>4 DEF TakeTurns
      <3> QED  BY <3>1, <3>2, <3>5
    <2>6. InSync'
      BY <2>1 DEF InSync
    <2>7. WholeFile'
      BY <2>1, QuietKept DEF IInv, WholeFile
    <2> QED  BY <2>4, <2>5, <2>6, <2>7, QuietKept DEF IInv
  <1> QED  BY <1>1, <1>2

(* An acknowledgement: the receiver has what the sender waits for, or an   *)
(* EOT that was damage has been acknowledged.                              *)
LEMMA AckInv ==
    ASSUME IInv, Quiet, replies # <<>>, Head(replies) = "ACK", OnAck
    PROVE  IInv'
  <1>1. line = <<>> /\ phase # "failed" /\ sblk \in 0 .. NBlocks /\ NBlocks \in Nat
        /\ MaxRetries \in Nat /\ retries \in 0 .. MaxRetries
    BY Constants, YmodemAssumption DEF IInv, TakeTurns, TypeOK
  <1>2. ~NoAck
    <2>1. Len(replies) \in Nat \ {0} /\ replies[1] = "ACK"
      BY EmptySeq DEF IInv, TypeOK
    <2> QED  BY <2>1 DEF NoAck
  <1>3. CASE phase = "header"
    <2>1. /\ phase' = "go" /\ sblk' = 1 /\ retries' = 0
          /\ replies' = Tail(replies) /\ UNCHANGED line
      BY <1>3 DEF OnAck
    <2>2. Sensible(phase', sblk', retries') /\ phase' # "failed"
      BY <1>1, <2>1, Constants DEF Sensible, Phases
    <2>3. TypeOK' /\ SenderType' /\ TakeTurns' /\ AllGenuine'
      BY <2>1, <2>2, TailKept
    <2>4. InSync'
      BY <1>2, <1>3, <2>1, QuietKept DEF IInv, InSync
    <2>5. WholeFile'
      BY <1>3, QuietKept DEF IInv, WholeFile
    <2> QED  BY <2>3, <2>4, <2>5, QuietKept DEF IInv
  <1>4. CASE phase = "data" /\ sblk < NBlocks
    <2> DEFINE next == Block(sblk + 1, sblk + 1)
    <2>1. Send(next, "data", sblk + 1, 0)
      BY <1>1, <1>4 DEF OnAck
    <2>2. sblk' = sblk + 1 /\ phase' = "data" /\ sblk + 1 \in 0 .. NBlocks
      BY <1>1, <1>4, <2>1 DEF Send
    <2>3. next \in Item /\ next = Current' /\ next.kind = "block"
      <3>1. Current' = next
        BY <2>2 DEF Current
      <3>2. sblk + 1 \in Nat /\ sblk + 1 \in 0 .. NBlocks + 1
        BY <1>1, <2>2
      <3> QED  BY <3>1, <3>2, Items
    <2>4. Sensible("data", sblk + 1, 0)
      BY <1>1, <2>2 DEF Sensible, Phases
    <2> HIDE DEF next
    <2>5. TypeOK' /\ SenderType' /\ TakeTurns' /\ AllGenuine' /\ NoAck'
      BY <1>1, <2>1, <2>3, <2>4, SendKept
    <2>6. InSync'
      <3>1. trailer \/ After(sblk)
        BY <1>2, <1>4 DEF IInv, InSync
      <3>2. sblk' - 1 = sblk
        BY <1>1, <2>2
      <3>3. After(sblk) => After(sblk - 1)'
        BY <3>2 DEF Quiet, recvVars, After, Held, total
      <3> QED  BY <2>2, <2>5, <3>1, <3>3, QuietKept DEF InSync
    <2>7. WholeFile'
      BY <1>4, QuietKept DEF IInv, WholeFile
    <2> QED  BY <2>5, <2>6, <2>7, QuietKept DEF IInv
  <1>5. CASE phase = "data" /\ ~(sblk < NBlocks)
    <2>1. Send(Other("EOT"), "eot", sblk, 0) /\ phase' = "eot" /\ sblk' = sblk /\ sblk = NBlocks
      <3>1. sblk = NBlocks
        BY <1>1, <1>5
      <3> QED  BY <1>1, <1>5, <3>1 DEF OnAck, Send
    <2>2. Sensible("eot", sblk, 0) /\ Other("EOT") \in Item /\ Other("EOT").kind = "EOT"
      BY <1>1, Items DEF Sensible, Phases
    <2>3. TypeOK' /\ SenderType' /\ TakeTurns' /\ AllGenuine' /\ NoAck'
      BY <1>1, <2>1, <2>2, SendKept
    <2>4. trailer \/ After(NBlocks)
      BY <1>2, <1>5, <2>1 DEF IInv, InSync
    <2>5. InSync'
      BY <2>1, <2>3, <2>4, QuietKept DEF InSync
    <2>6. WholeFile'
      BY <1>5, QuietKept DEF IInv, WholeFile
    <2> QED  BY <2>3, <2>5, <2>6, QuietKept DEF IInv
  <1>6. CASE phase = "eot"
    <2>1. /\ phase' = "end" /\ retries' = 0
          /\ replies' = Tail(replies) /\ UNCHANGED <<line, sblk>>
      BY <1>6 DEF OnAck
    <2>2. Sensible(phase', sblk', retries') /\ phase' # "failed"
      BY <1>1, <2>1 DEF Sensible, Phases
    <2>3. TypeOK' /\ SenderType' /\ TakeTurns' /\ AllGenuine'
      BY <2>1, <2>2, TailKept
    <2>4. trailer
      BY <1>2, <1>6 DEF IInv, InSync
    <2>5. InSync' /\ WholeFile'
      BY <2>1, <2>4, QuietKept DEF IInv, InSync, WholeFile
    <2> QED  BY <2>3, <2>5, QuietKept DEF IInv
  <1>7. CASE phase = "null"
    <2>1. phase' = "done" /\ replies' = Tail(replies) /\ UNCHANGED <<line, sblk, retries>>
      BY <1>7 DEF OnAck
    <2>2. Sensible(phase', sblk', retries') /\ phase' # "failed"
      BY <1>1, <2>1 DEF Sensible, Phases
    <2>3. TypeOK' /\ SenderType' /\ TakeTurns' /\ AllGenuine'
      BY <2>1, <2>2, TailKept
    <2>4. trailer
      BY <1>7 DEF IInv, InSync
    <2>5. InSync' /\ WholeFile'
      BY <2>1, <2>4, QuietKept DEF IInv, InSync, WholeFile
    <2> QED  BY <2>3, <2>5, QuietKept DEF IInv
  <1>8. CASE phase \notin {"header", "data", "eot", "null"}
    BY <1>8, SkipInv DEF OnAck
  <1> QED  BY <1>3, <1>4, <1>5, <1>6, <1>7, <1>8

(* Any other reply.                                                        *)
LEMMA PromptInv ==
    ASSUME IInv, Quiet, replies # <<>>, NEW r, OnPrompt(r)
    PROVE  IInv'
  <1>1. line = <<>> /\ phase # "failed" /\ sblk \in 0 .. NBlocks /\ MaxRetries \in Nat
    BY YmodemAssumption DEF IInv, TakeTurns, TypeOK
  <1>2. CASE phase = "hello" /\ r = "C"
    <2>1. Send(Current, "header", 0, 0) /\ phase' = "header" /\ sblk' = 0
      BY <1>2 DEF OnPrompt, Send
    <2>2. Current = Block(0, Name) /\ Current' = Block(0, Name)
      BY <1>2, <2>1 DEF Current
    <2>3. Current \in Item /\ Current.kind = "block" /\ Current' = Current
      BY <2>2, Items, Constants DEF Name
    <2>4. Sensible("header", 0, 0)
      BY <1>1, Constants DEF Sensible, Phases
    <2>5. TypeOK' /\ SenderType' /\ TakeTurns' /\ AllGenuine' /\ NoAck'
      BY <1>1, <2>1, <2>3, <2>4, SendKept
    <2>6. InSync' /\ WholeFile'
      BY <1>2, <2>1, <2>5, QuietKept DEF IInv, InSync, WholeFile
    <2> QED  BY <2>5, <2>6, QuietKept DEF IInv
  <1>3. CASE phase = "go"
    <2>1. Send(Current, "data", 1, 0) /\ phase' = "data" /\ sblk' = 1 /\ sblk = 1
      BY <1>3 DEF OnPrompt, Send, IInv, SenderType
    <2>2. Current = Block(1, 1) /\ Current' = Block(1, 1)
      BY <1>3, <2>1 DEF Current
    <2>3. Current \in Item /\ Current.kind = "block" /\ Current' = Current
      BY <2>2, Items, Constants
    <2>4. Sensible("data", 1, 0)
      BY <1>1, Constants DEF Sensible, Phases
    <2>5. TypeOK' /\ SenderType' /\ TakeTurns' /\ AllGenuine' /\ NoAck'
      BY <1>1, <2>1, <2>3, <2>4, SendKept
    <2>6. After(0)' => After(sblk - 1)'
      BY <2>1 DEF After
    <2>7. InSync' /\ WholeFile'
      BY <1>3, <2>1, <2>5, <2>6, QuietKept DEF IInv, InSync, WholeFile
    <2> QED  BY <2>5, <2>7, QuietKept DEF IInv
  <1>4. CASE phase = "end" /\ r = "C"
    <2>1. Send(Current, "null", sblk, 0) /\ phase' = "null" /\ sblk' = sblk
      BY <1>4 DEF OnPrompt, Send
    <2>2. Current = Block(0, Null) /\ Current' = Block(0, Null)
      BY <1>4, <2>1 DEF Current
    <2>3. Current \in Item /\ Current.kind = "block" /\ Current' = Current
      BY <2>2, Items, Constants DEF Null
    <2>4. Sensible("null", sblk, 0)
      BY <1>1 DEF Sensible, Phases
    <2>5. TypeOK' /\ SenderType' /\ TakeTurns' /\ AllGenuine' /\ NoAck'
      BY <1>1, <2>1, <2>3, <2>4, SendKept
    <2>6. InSync' /\ WholeFile'
      BY <1>4, <2>1, <2>5, QuietKept DEF IInv, InSync, WholeFile
    <2> QED  BY <2>5, <2>6, QuietKept DEF IInv
  <1>5. CASE phase \in {"header", "data", "eot", "null"} /\ r = "NAK"
    <2>1. Repeat
      BY <1>5 DEF OnPrompt
    <2> QED  BY <1>1, <1>5, <2>1, RepeatInv
  <1>6. CASE /\ ~(phase = "hello" /\ r = "C") /\ phase # "go" /\ ~(phase = "end" /\ r = "C")
             /\ ~(phase \in {"header", "data", "eot", "null"} /\ r = "NAK")
    <2>1. Skip
      BY <1>6 DEF OnPrompt
    <2> QED  BY <2>1, SkipInv
  <1> QED  BY <1>2, <1>3, <1>4, <1>5, <1>6

LEMMA SenderInv ==
    ASSUME IInv, Sender
    PROVE  IInv'
  <1>1. Quiet
    BY DEF Sender, Quiet
  <1>2. CASE SenderReads
    BY <1>1, <1>2, AckInv, PromptInv DEF SenderReads
  <1>3. CASE SenderTimeout
    BY <1>1, <1>3, RepeatInv DEF SenderTimeout
  <1> QED  BY <1>2, <1>3 DEF Sender

-----------------------------------------------------------------------------
(* The line.                                                               *)

(* What RemoveAt leaves.                                                   *)
LEMMA Removed ==
    ASSUME NEW S, NEW s \in Seq(S), NEW i \in 1 .. Len(s)
    PROVE  /\ RemoveAt(s, i) \in Seq(S) /\ Len(RemoveAt(s, i)) < Len(s)
           /\ \A k \in 1 .. Len(RemoveAt(s, i)) :
                 \E j \in 1 .. Len(s) : RemoveAt(s, i)[k] = s[j]
  <1> DEFINE a == SubSeq(s, 1, i - 1)
             b == SubSeq(s, i + 1, Len(s))
  <1>1. /\ Len(s) \in Nat /\ i \in Int /\ i - 1 \in Int /\ i + 1 \in Int /\ 1 \in Int
        /\ Len(s) \in Int
        /\ \A k \in 1 .. i - 1 : s[k] \in S
        /\ \A k \in i + 1 .. Len(s) : s[k] \in S
    BY LenProperties, ElementOfSeq
  <1>2. /\ a \in Seq(S) /\ Len(a) = IF 1 <= i - 1 THEN (i - 1) - 1 + 1 ELSE 0
        /\ \A k \in 1 .. (i - 1) - 1 + 1 : a[k] = s[1 + k - 1]
    BY <1>1, SubSeqProperties
  <1>3. /\ b \in Seq(S) /\ Len(b) = IF i + 1 <= Len(s) THEN Len(s) - (i + 1) + 1 ELSE 0
        /\ \A k \in 1 .. Len(s) - (i + 1) + 1 : b[k] = s[i + 1 + k - 1]
    BY <1>1, SubSeqProperties
  <1>4. RemoveAt(s, i) = a \o b
    BY DEF RemoveAt
  <1> HIDE DEF a, b
  <1>5. Len(a) = i - 1 /\ Len(b) = Len(s) - i
    BY <1>1, <1>2, <1>3
  <1>6. /\ a \o b \in Seq(S) /\ Len(a \o b) = Len(a) + Len(b)
        /\ \A k \in 1 .. Len(a) + Len(b) : (a \o b)[k] = IF k <= Len(a) THEN a[k] ELSE b[k - Len(a)]
    BY <1>2, <1>3, ConcatProperties
  <1>7. Len(a \o b) = Len(s) - 1
    BY <1>1, <1>5, <1>6
  <1>8. ASSUME NEW k \in 1 .. Len(s) - 1
        PROVE  \E j \in 1 .. Len(s) : (a \o b)[k] = s[j]
    <2>1. (a \o b)[k] = IF k <= i - 1 THEN a[k] ELSE b[k - (i - 1)]
      BY <1>1, <1>5, <1>6
    <2>2. CASE k <= i - 1
      <3>1. a[k] = s[k] /\ k \in 1 .. Len(s)
        BY <1>1, <1>2, <2>2
      <3> QED  BY <2>1, <2>2, <3>1
    <2>3. CASE ~(k <= i - 1)
      <3>1. b[k - (i - 1)] = s[k + 1] /\ k + 1 \in 1 .. Len(s)
        <4>1. k - (i - 1) \in 1 .. Len(s) - (i + 1) + 1 /\ i + 1 + (k - (i - 1)) - 1 = k + 1
          BY <1>1, <2>3
        <4> QED  BY <1>1, <1>3, <4>1
      <3> QED  BY <2>1, <2>3, <3>1
    <2> QED  BY <2>2, <2>3
  <1>9. Len(a \o b) < Len(s)
    BY <1>1, <1>7
  <1>10. \A k \in 1 .. Len(a \o b) : \E j \in 1 .. Len(s) : (a \o b)[k] = s[j]
    BY <1>7, <1>8
  <1> QED  BY <1>4, <1>6, <1>9, <1>10, Zenon

(* A failure of the line takes something away or damages it; only damage   *)
(* that makes an EOT matters, and that is recorded.                        *)
LEMMA LineFailsInv ==
    ASSUME IInv, LineFails
    PROVE  IInv'
  <1>1. UNCHANGED <<recvVars, sendVars>>
    BY DEF LineFails
  <1>2. line \in Seq(Item) /\ replies \in Seq(Reply)
    BY DEF IInv, TypeOK
  <1>3. CASE /\ UNCHANGED <<line, stray>>
             /\ \E i \in 1 .. Len(replies) : replies' = RemoveAt(replies, i)
    <2>1. PICK i \in 1 .. Len(replies) : replies' = RemoveAt(replies, i)
      BY <1>3
    <2>2. /\ replies' \in Seq(Reply)
          /\ \A k \in 1 .. Len(replies') : \E j \in 1 .. Len(replies) : replies'[k] = replies[j]
      BY <1>2, <2>1, Removed
    <2>3. replies # <<>>
      BY <1>2, <2>1
    <2>4. NoAck => NoAck'
      BY <2>2 DEF NoAck
    <2>5. InSync' /\ WholeFile'
      BY <1>1, <1>3, <2>4, SameSync DEF recvVars, sendVars, Same
    <2>6. TypeOK' /\ SenderType' /\ TakeTurns'
      BY <1>1, <1>3, <2>2, <2>3
         DEF IInv, recvVars, sendVars, TypeOK, Running, SenderType, TakeTurns
    <2>7. AllGenuine'
      <3>1. LineLess
        BY <1>2, <1>3, LenProperties DEF LineLess
      <3> QED  BY <1>1, <1>3, <3>1, LessGenuine DEF IInv, sendVars
    <2> QED
      BY <1>1, <2>5, <2>6, <2>7
         DEF IInv, recvVars, StoredType, StoredIsPrefix, OkIsTrailer, total
  <1>4. CASE /\ UNCHANGED replies
             /\ \E i \in 1 .. Len(line), d \in Damage :
                   /\ line' = IF d = "lost" THEN RemoveAt(line, i)
                              ELSE [line EXCEPT ![i] = Other(d)]
                   /\ stray' = (stray \/ d = "EOT")
    <2>1. PICK i \in 1 .. Len(line), d \in Damage :
             /\ line' = IF d = "lost" THEN RemoveAt(line, i) ELSE [line EXCEPT ![i] = Other(d)]
             /\ stray' = (stray \/ d = "EOT")
      BY <1>4
    <2>2. Len(line) \in Nat /\ line # <<>>
      BY <1>2, <2>1, LenProperties
    <2>3. NoAck => NoAck'
      BY <1>4 DEF NoAck
    <2>4. InSync' /\ WholeFile'
      BY <1>1, <2>1, <2>3, SameSync DEF recvVars, sendVars, Same
    \* Nothing waits for the sender while the line holds something.
    <2>5. replies' = <<>>
      BY <1>4, <2>2 DEF IInv, TakeTurns
    <2>6. /\ line' \in Seq(Item) /\ Len(line') <= Len(line) /\ Len(line') \in Nat
          /\ AllGenuine'
      <3>1. CASE d = "lost"
        <4>1. /\ line' \in Seq(Item) /\ Len(line') < Len(line) /\ Len(line') \in Nat
              /\ \A k \in 1 .. Len(line') : \E j \in 1 .. Len(line) : line'[k] = line[j]
          BY <1>2, <2>1, <3>1, Removed, LenProperties
        <4>2. LineLess
          BY <2>2, <4>1 DEF LineLess
        <4>3. AllGenuine /\ UNCHANGED <<phase, sblk>>
          BY <1>1 DEF IInv, sendVars
        <4>4. stray => stray'
          <5>1. stray' <=> (stray \/ d = "EOT")
            BY <2>1, Zenon
          <5> QED  BY <5>1
        <4>5. AllGenuine'
          BY <4>2, <4>3, <4>4, LessGenuine, Zenon
        <4>6. Len(line') <= Len(line)
          BY <2>2, <4>1
        <4> QED  BY <4>1, <4>5, <4>6
      <3>2. CASE d # "lost"
        <4>1. d \in {"bad", "junk", "EOT", "CAN"}
          BY <3>2, YmodemAssumption
        <4>2. Other(d) \in Item /\ Other(d).kind = d
          BY <4>1, Items
        <4>3. line' = [line EXCEPT ![i] = Other(d)]
          BY <2>1, <3>2
        <4>4. /\ line' \in Seq(Item) /\ Len(line') = Len(line)
              /\ \A j \in 1 .. Len(line) : line'[j] = IF j = i THEN Other(d) ELSE line[j]
          BY <1>2, <4>2, <4>3, ExceptSeq
        <4>5. AllGenuine'
          <5>1. Current' = Current
            BY <1>1 DEF sendVars, Current
          <5>2. SUFFICES ASSUME NEW j \in 1 .. Len(line)
                         PROVE  /\ line'[j].kind = "block" =>
                                      phase \in {"header", "data", "null"} /\ line'[j] = Current
                                /\ line'[j].kind = "EOT" /\ ~stray' => phase = "eot"
            BY <1>1, <4>4, <5>1 DEF AllGenuine, Genuine, sendVars
          <5>3. CASE j = i
            BY <2>1, <4>1, <4>2, <4>4, <5>3
          <5>4. CASE j # i
            BY <2>1, <4>4, <5>4 DEF IInv, AllGenuine, Genuine
          <5> QED  BY <5>3, <5>4
        <4> QED  BY <2>2, <4>4, <4>5
      <3> QED  BY <3>1, <3>2
    <2>7. TypeOK' /\ SenderType'
      BY <1>1, <1>4, <2>6 DEF IInv, recvVars, sendVars, TypeOK, Running, SenderType
    <2>8. TakeTurns'
      <3>1. Len(line) <= IF phase = "failed" THEN 2 ELSE 1
        BY DEF IInv, TakeTurns
      <3>2. Len(line') <= IF phase = "failed" THEN 2 ELSE 1
        BY <2>2, <2>6, <3>1
      <3> QED  BY <1>1, <2>5, <3>2 DEF sendVars, TakeTurns
    <2> QED
      BY <1>1, <2>4, <2>6, <2>7, <2>8
         DEF IInv, recvVars, StoredType, StoredIsPrefix, OkIsTrailer, total
  <1> QED  BY <1>3, <1>4 DEF LineFails

-----------------------------------------------------------------------------
LEMMA InitInv == Init => IInv
  <1> SUFFICES ASSUME Init PROVE IInv
    OBVIOUS
  <1>1. /\ Len(<<>>) = 0 /\ <<>> \in Seq(Item) /\ <<>> \in Seq(Nat)
        /\ <<"C">> \in Seq(Reply) /\ <<"C">> # <<>>
        /\ \A i \in 1 .. Len(<<"C">>) : <<"C">>[i] # "ACK"
    BY Answers
  <1>2. TypeOK
    <2>1. /\ 0 \in 0 .. BlockMod - 1 /\ 0 \in 0 .. MAX_IDLE + 1 /\ 0 <= MAX_IDLE
          /\ 0 \in 0 .. NBlocks /\ 0 \in 0 .. MaxRetries
      BY Constants, YmodemAssumption
    <2>2. /\ bufsz \in BufLens /\ expect \in 0 .. BlockMod - 1
          /\ have_header \in BOOLEAN /\ trailer \in BOOLEAN
          /\ idle \in 0 .. MAX_IDLE + 1 /\ (Running => idle <= MAX_IDLE)
          /\ fsize \in {0, FileLen} /\ sblk \in 0 .. NBlocks /\ retries \in 0 .. MaxRetries
      BY <2>1, Zenon DEF Init
    <2>3. result \in {"none", "timeout", "cancel", "ok"}
      BY DEF Init
    <2>4. line \in Seq(Item) /\ replies \in Seq(Reply)
      BY <1>1, Zenon DEF Init
    <2> QED  BY <2>2, <2>3, <2>4, Zenon DEF TypeOK
  <1>3. SenderType /\ StoredType /\ TakeTurns /\ AllGenuine
    BY <1>1 DEF Init, SenderType, Phases, StoredType, TakeTurns, AllGenuine
  <1>4. StoredIsPrefix
    BY <1>1, YmodemAssumption DEF Init, StoredIsPrefix, total
  <1>5. InSync /\ WholeFile /\ OkIsTrailer
    BY <1>1 DEF Init, InSync, Fresh, NoAck, WholeFile, OkIsTrailer
  <1> QED  BY <1>2, <1>3, <1>4, <1>5 DEF IInv

LEMMA NextInv == IInv /\ [Next]_vars => IInv'
  <1> SUFFICES ASSUME IInv, [Next]_vars PROVE IInv'
    OBVIOUS
  <1>1. CASE Receive
    BY <1>1, ReceiveInv
  <1>2. CASE Sender
    BY <1>2, SenderInv
  <1>3. CASE LineFails
    BY <1>3, LineFailsInv
  <1>4. CASE UNCHANGED vars
    <2>1. UNCHANGED <<recvVars, line, replies, sendVars, faults, stray>>
      BY <1>4 DEF vars
    <2>2. Same /\ (NoAck => NoAck') /\ Quiet
      BY <2>1 DEF Same, recvVars, sendVars, NoAck, Quiet
    <2>3. InSync' /\ WholeFile'
      BY <2>1, <2>2, SameSync
    <2>4. TypeOK' /\ SenderType' /\ TakeTurns'
      BY <2>1 DEF IInv, recvVars, sendVars, TypeOK, Running, SenderType, TakeTurns
    <2>5. AllGenuine'
      <3>1. LineLess
        BY <2>1, LenProperties DEF IInv, TypeOK, LineLess
      <3> QED  BY <2>1, <3>1, LessGenuine DEF IInv, sendVars
    <2> QED  BY <2>2, <2>3, <2>4, <2>5, QuietKept DEF IInv
  <1> QED  BY <1>1, <1>2, <1>3, <1>4 DEF Next

LEMMA Invariance == Spec => []IInv
  BY InitInv, NextInv, PTL DEF Spec

(* THEOREM: the variables of the receive loop keep their types; the block  *)
(* number stays a byte and the idle count passes its limit once only.      *)
THEOREM TypeCorrect == Spec => []TypeOK
  <1>1. IInv => TypeOK
    BY DEF IInv
  <1> QED  BY <1>1, Invariance, PTL

(* THEOREM: whatever the line loses, damages or makes the sender repeat,   *)
(* the buffer holds the beginning of the file (ymodem.c, the whole loop).  *)
THEOREM StoredPrefix == Spec => []StoredIsPrefix
  <1>1. IInv => StoredIsPrefix
    BY DEF IInv
  <1> QED  BY <1>1, Invariance, PTL

(* THEOREM: the sender never moves past a block that is not stored, unless *)
(* damage has passed for an EOT.                                           *)
THEOREM AckedStored == Spec => []AckedIsStored
  <1>1. IInv => AckedIsStored
    <2> SUFFICES ASSUME IInv, phase = "data", ~stray
                 PROVE  total >= Smaller(2 * (sblk - 1), bufsz)
      BY DEF AckedIsStored
    <2>1. /\ sblk \in 1 .. NBlocks /\ bufsz \in Nat /\ fsize \in {0, FileLen}
          /\ sblk \in Nat /\ sblk - 1 \in Nat
      BY YmodemAssumption, Constants DEF IInv, TypeOK, SenderType
    <2>2. total = Held(sblk - 1) \/ total = Held(sblk)
      BY DEF IInv, WholeFile, InSync, After
    <2>3. /\ Held(sblk - 1) >= Smaller(2 * (sblk - 1), bufsz)
          /\ Held(sblk) >= Smaller(2 * (sblk - 1), bufsz)
      BY <2>1, Constants DEF Held, Smaller
    <2> QED  BY <2>2, <2>3
  <1> QED  BY <1>1, Invariance, PTL

(* THEOREM: a transfer reported as complete has delivered the whole file,  *)
(* as far as the buffer holds it, unless damage has passed for an EOT.     *)
THEOREM CompleteOnSuccess == Spec => []CompleteIfOk
  <1>1. IInv => CompleteIfOk
    <2> SUFFICES ASSUME IInv, result = "ok", ~stray
                 PROVE  total = Smaller(IF fsize = 0 THEN 2 * NBlocks ELSE FileLen, bufsz)
      BY DEF CompleteIfOk
    <2>1. total = Held(NBlocks)
      BY DEF IInv, OkIsTrailer, WholeFile
    <2>2. Smaller(2 * NBlocks, FileLen) = FileLen
      BY Constants DEF Smaller
    <2> QED  BY <2>1, <2>2 DEF Held
  <1> QED  BY <1>1, Invariance, PTL
=============================================================================
