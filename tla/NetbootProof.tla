---------------------------- MODULE NetbootProof ----------------------------
(***************************************************************************)
(* The safety properties of Netboot, for every size of the receive memory, *)
(* of the pointers and of the length, and any number of commands.          *)
(***************************************************************************)
EXTENDS Netboot, Integers, WellFoundedInduction, TLAPS

-----------------------------------------------------------------------------
(* Arithmetic of remainders.                                               *)

LEMMA DivMod == ASSUME NEW a \in Int, NEW m \in Nat \ {0}
  PROVE /\ a % m \in 0 .. m-1 /\ a \div m \in Int /\ a = (m * (a \div m)) + (a % m)
  OBVIOUS
LEMMA Unique == ASSUME NEW m \in Nat \ {0}, NEW q \in Int, NEW p \in Int, NEW r \in 0 .. m-1, NEW s \in 0 .. m-1, m * q + r = m*p+s
  PROVE r = s
  OBVIOUS
LEMMA ModIs == ASSUME NEW m \in Nat \ {0}, NEW q \in Int, NEW r \in 0 .. m-1
  PROVE ((m * q) + r) % m = r
<1>1. (m * q) + r \in Int OBVIOUS
<1> DEFINE a == (m * q) + r
<1>2. a % m \in 0 .. m-1 /\ a \div m \in Int /\ (m * q) + r = (m * (a \div m)) + (a % m) BY <1>1, DivMod
<1> HIDE DEF a
<1>3. a % m = r BY <1>2, Unique
<1> QED BY <1>3 DEF a
LEMMA SameMod == ASSUME NEW b \in Nat \ {0}, NEW y \in Int, NEW k \in Int
  PROVE ((b * k) + y) % b = y % b
<1>1. y % b \in 0 .. b-1 /\ y \div b \in Int /\ y = (b * (y \div b)) + (y % b) BY DivMod
<1>2. (b * k) + y = (b * (k + (y \div b))) + (y % b) BY <1>1
<1>3. k + (y \div b) \in Int BY <1>1
<1>4. ((b * (k + (y \div b))) + (y % b)) % b = y % b BY <1>1, <1>3, ModIs, Zenon
<1> QED BY <1>2, <1>4, Zenon

LEMMA AddMod == ASSUME NEW m \in Nat \ {0}, NEW a \in Nat, NEW n \in Nat
  PROVE ((a % m) + n) % m = (a + n) % m
<1>1. a % m \in 0 .. m-1 /\ a \div m \in Int /\ a = (m * (a \div m)) + (a % m) BY DivMod
<1>2. (a % m) + n \in Int /\ a + n = (m * (a \div m)) + ((a % m) + n) BY <1>1
<1>3. ((m * (a \div m)) + ((a % m) + n)) % m = ((a % m) + n) % m BY <1>1, <1>2, SameMod, Zenon
<1> QED BY <1>2, <1>3, Zenon
LEMMA ModMod == ASSUME NEW b \in Nat \ {0}, NEW c \in Int, b * c \in Nat \ {0}, NEW a \in Nat, NEW n \in Nat
  PROVE ((a % (b * c)) + n) % b = (a + n) % b
<1> DEFINE m == b * c
<1>1. m \in Nat \ {0} /\ a \in Int OBVIOUS
<1>2. \A x \in Int : m * x = b * (c * x) /\ c * x \in Int OBVIOUS
<1> HIDE DEF m
<1>3. a % m \in 0 .. m-1 /\ a \div m \in Int /\ a = (m * (a \div m)) + (a % m) BY <1>1, DivMod, Zenon
<1>4. (a % m) + n \in Int /\ a + n = (m * (a \div m)) + ((a % m) + n) BY <1>1, <1>3
<1>5. a + n = (b * (c * (a \div m))) + ((a % m) + n) BY <1>2, <1>3, <1>4, Zenon
<1>6. ((b * (c * (a \div m))) + ((a % m) + n)) % b = ((a % m) + n) % b BY <1>2, <1>3, <1>4, SameMod, Zenon
<1> QED BY <1>5, <1>6, Zenon DEF m
LEMMA DiffMod == ASSUME NEW m \in Nat \ {0}, NEW a \in Nat, NEW b \in Nat, a - b \in 0 .. m-1
  PROVE ((a % m) + m - (b % m)) % m = a - b
<1>1. a % m \in 0 .. m-1 /\ a \div m \in Int /\ a = (m * (a \div m)) + (a % m) BY DivMod
<1>2. b % m \in 0 .. m-1 /\ b \div m \in Int /\ b = (m * (b \div m)) + (b % m) BY DivMod
<1>3. \A p, q \in Int, r, s \in 0 .. m-1 : a = (m * p) + r /\ b = (m * q) + s =>
         r + m - s = (m * ((q - p) + 1)) + (a - b) OBVIOUS
<1>4. (a % m) + m - (b % m) = (m * (((b \div m) - (a \div m)) + 1)) + (a - b) BY <1>1, <1>2, <1>3, Zenon
<1>5. ((b \div m) - (a \div m)) + 1 \in Int BY <1>1, <1>2
<1>6. ((m * (((b \div m) - (a \div m)) + 1)) + (a - b)) % m = a - b BY <1>5, ModIs, Zenon
<1> QED BY <1>4, <1>6, Zenon
LEMMA DiffModBehind == ASSUME NEW m \in Nat \ {0}, NEW a \in Nat, NEW b \in Nat, b - a \in 1 .. m
  PROVE ((a % m) + m - (b % m)) % m = (a + m) - b
<1>1. (a + m) % m = a % m
  <2>0. 1 \in Int /\ a \in Int OBVIOUS
  <2>1. ((m * 1) + a) % m = a % m BY <2>0, SameMod, Zenon
  <2>2. (m * 1) + a = a + m OBVIOUS
  <2> QED BY <2>1, <2>2, Zenon
<1>2. (a + m) - b \in 0 .. m - 1 /\ a + m \in Nat OBVIOUS
<1>3. (((a + m) % m) + m - (b % m)) % m = (a + m) - b BY <1>2, DiffMod, Zenon
<1> QED BY <1>1, <1>3, Zenon
LEMMA TornLess == ASSUME NEW m \in Nat \ {0}, NEW a \in Nat, NEW b \in Nat, a <= b
  PROVE (a \div m) * m + (b % m) \in 0 .. b
<1>2. a % m \in 0 .. m-1 /\ a \div m \in Int /\ a = (m * (a \div m)) + (a % m) BY DivMod
<1>3. b % m \in 0 .. m-1 /\ b \div m \in Int /\ b = (m * (b \div m)) + (b % m) BY DivMod
<1>4. \A p, q \in Int, r, s \in 0 .. m-1 : a = (m * p) + r /\ b = (m * q) + s => (p * m) + s \in 0 .. b
  <2> SUFFICES ASSUME NEW p \in Int, NEW q \in Int, NEW r \in 0 .. m-1, NEW s \in 0 .. m-1,
        a = (m * p) + r, b = (m * q) + s PROVE (p * m) + s \in 0 .. b OBVIOUS
  <2>1. p >= 0 OBVIOUS
  <2>2. p <= q OBVIOUS
  <2>3. m * p <= m * q /\ m * p >= 0 BY <2>1, <2>2
  <2> QED BY <2>3
<1> QED BY <1>2, <1>3, <1>4, Zenon

\* Counting on moves a distance on the ring by as much, as long as it stays
\* below the length of the ring.
LEMMA AddDistance ==
    ASSUME NEW m \in Nat \ {0}, NEW w \in 0 .. m - 1, NEW t \in 0 .. m - 1, NEW n \in Nat,
           ((w + m - t) % m) + n < m
    PROVE  (((w + n) % m) + m - t) % m = ((w + m - t) % m) + n
<1>1. w + n \in Nat /\ m - t \in Nat /\ w + m - t \in Nat OBVIOUS
<1>2. (((w + n) % m) + (m - t)) % m = ((w + n) + (m - t)) % m BY <1>1, AddMod, Zenon
<1>3. (((w + m - t) % m) + n) % m = ((w + m - t) + n) % m BY <1>1, AddMod, Zenon
<1>4. (w + m - t) % m \in 0 .. m - 1 BY <1>1, DivMod
<1>5. (((w + m - t) % m) + n) % m = ((w + m - t) % m) + n
  <2>1. ((w + m - t) % m) + n \in 0 .. m - 1 /\ 0 \in Int BY <1>4
  <2>2. ((m * 0) + (((w + m - t) % m) + n)) % m = ((w + m - t) % m) + n BY <2>1, ModIs, Zenon
  <2>3. (m * 0) + (((w + m - t) % m) + n) = ((w + m - t) % m) + n BY <2>1
  <2>. QED BY <2>2, <2>3, Zenon
<1>6. (w + n) + (m - t) = (w + m - t) + n OBVIOUS
<1>7. (w + n) % m \in 0 .. m - 1 BY <1>1, DivMod
<1>8. ((w + n) % m) + (m - t) = ((w + n) % m) + m - t BY <1>7
<1>. QED BY <1>2, <1>3, <1>5, <1>6, <1>8, Zenon

-----------------------------------------------------------------------------
(* The inductive invariant.                                                *)

\* The driver has a connection and is in w5500_tcp_recv.
Active == pc \in {"loop", "low", "status", "check", "read", "give back", "recv"}
Connected == Active \/ (pc = "poll" /\ sr \in {"ESTABLISHED", "CLOSE_WAIT"})

\* What it has received, and how much of that the socket has been told of.
Taken == Len(lb) + Len(dst)
Given == IF pc \in {"give back", "recv"} THEN Taken - rsr ELSE Taken

\* How the locals follow the control.
LocalInv ==
    /\ part = "length" => dst = <<>>
    /\ pc \in {"init", "open", "poll"} =>
           part = "length" /\ lb = <<>> /\ dst = <<>> /\ polls < MaxPolls
    /\ pc = "open" => sr = "CLOSED" /\ wr = 0 /\ taken = 0 /\ rd = 0
    /\ sr = "SYNSENT" => wr = 0 /\ taken = 0 /\ rd = 0
    /\ Active => sr # "SYNSENT"
    /\ pc = "low" => seen <= sent - Given
    /\ pc = "read" => rsr <= sent - Given

\* The receive memory is a window of the stream: from what has been given
\* back to what has been sent, each byte in its place.
WindowInv ==
    Connected =>
        /\ conn = loads
        /\ 0 <= Given /\ Given <= Taken /\ Taken <= sent /\ sent - Given <= BufSize
        /\ wr = sent % PtrMod /\ taken = Given % PtrMod
        /\ rd = (IF pc = "recv" THEN Taken ELSE Given) % PtrMod
        /\ \A k \in 1 .. sent : k > Given => mem[(k - 1) % BufSize] = Sent(loads, k)

IInv == TypeOK /\ ReceivedIsStream /\ LocalInv /\ WindowInv

-----------------------------------------------------------------------------
LEMMA Sizes ==
    /\ PtrMod \in Nat \ {0} /\ BufSize \in Nat \ {0} /\ BufSize < PtrMod
    /\ Byte \in Nat \ {0} /\ HeaderLen \in Nat \ {0}
    /\ MaxLoads \in Nat /\ MaxPolls \in Nat \ {0}
    /\ Lengths \subseteq LengthRange
<1>1. PtrMod \in Nat \ {0} BY NetbootAssumption DEF PtrMod
<1>. QED BY <1>1, NetbootAssumption DEF LengthRange

-----------------------------------------------------------------------------
(* Numbers and their digits.                                               *)

\* A set of numbers has a least one, and induction over a set.
LEMMA LeastOf ==
    ASSUME NEW T, T \subseteq Nat, T # {}
    PROVE  \E x \in T : \A y \in T : x <= y
<1>. DEFINE R == OpToRel(<, Nat)
<1>1. IsWellFoundedOn(R, Nat)
  BY NatLessThanWellFounded
<1>2. R = {ss \in Nat \X Nat : ss[1] < ss[2]}
  BY DEF OpToRel
<1>. HIDE DEF R
<1>3. PICK x \in T : \A y \in T : ~(<<y, x>> \in R)
  BY <1>1, WFMin
<1>4. ASSUME NEW y \in T PROVE x <= y
  <2>1. <<y, x>> \in Nat \X Nat /\ <<y, x>>[1] = y /\ <<y, x>>[2] = x
    BY <1>3, <1>4
  <2>2. ~(y < x)
    BY <1>2, <1>3, <1>4, <2>1
  <2>. QED
    BY <2>2
<1>. QED
  BY <1>3, <1>4

LEMMA InductionOn ==
    ASSUME NEW S, 0 \in S, \A n \in Nat : n \in S => n + 1 \in S
    PROVE  \A n \in Nat : n \in S
<1>. SUFFICES ASSUME Nat \ S # {} PROVE FALSE
  OBVIOUS
<1>1. PICK x \in Nat \ S : \A y \in Nat \ S : x <= y
  BY LeastOf
<1>2. x - 1 \in Nat /\ x - 1 + 1 = x
  BY <1>1
<1>3. x - 1 \in S
  BY <1>1, <1>2
<1>. QED
  BY <1>1, <1>2, <1>3

LEMMA PowersTyped == \A k \in 0 .. HeaderLen : Byte ^ k \in Nat \ {0}
<1>. DEFINE S == {k \in Nat : k <= HeaderLen => Byte ^ k \in Nat \ {0}}
<1>1. 0 \in S
  BY PowerAssumption
<1>2. ASSUME NEW k \in Nat, k \in S PROVE k + 1 \in S
  <2>1. SUFFICES ASSUME k + 1 <= HeaderLen PROVE Byte ^ (k + 1) \in Nat \ {0}
    OBVIOUS
  <2>2. Byte ^ (k + 1) = Byte ^ k * Byte
    BY <2>1, Sizes, PowerAssumption
  <2>3. Byte ^ k \in Nat \ {0}
    BY <1>2, <2>1, Sizes
  <2>4. \A p \in Nat \ {0}, b \in Nat \ {0} : p * b \in Nat \ {0}
    OBVIOUS
  <2>. QED
    BY <2>2, <2>3, <2>4, Sizes
<1>. HIDE DEF S
<1>3. \A k \in Nat : k \in S
  BY <1>1, <1>2, InductionOn
<1>. QED
  BY <1>3, Sizes DEF S

LEMMA ZeroLength == 0 \in LengthRange
<1>1. Byte ^ HeaderLen \in Nat \ {0}
  BY PowersTyped, Sizes
<1>. QED
  BY <1>1 DEF LengthRange

LEMMA Quotient ==
    ASSUME NEW m \in Nat \ {0}, NEW x \in Int, NEW y \in Int, NEW r \in 0 .. m - 1,
           NEW s \in 0 .. m - 1, m * x + r = m * y + s
    PROVE  x = y
OBVIOUS

LEMMA DivDiv ==
    ASSUME NEW n \in Nat, NEW p \in Nat \ {0}, NEW b \in Nat \ {0}
    PROVE  (n \div p) \div b = n \div (p * b)
<1>1. \A a \in Int, c \in Nat \ {0} : \E u \in Int, v \in 0 .. c - 1 :
         u = a \div c /\ a = (c * u) + v
  BY DivMod
<1>2. PICK m \in Nat \ {0} : m = p * b
  OBVIOUS
<1>3. PICK q \in Int, r \in 0 .. p - 1 : q = n \div p /\ n = (p * q) + r
  BY <1>1
<1>4. PICK s \in Int, t \in 0 .. b - 1 : s = q \div b /\ q = (b * s) + t
  BY <1>1
<1>5. PICK x \in Int, y \in 0 .. m - 1 : x = n \div m /\ n = (m * x) + y
  BY <1>1
<1>6. (m * s) + (p * t + r) = (m * x) + y
  <2>1. \A u, v \in Int : p * (u + v) = p * u + p * v
    OBVIOUS
  <2>2. b * s \in Int /\ t \in Int
    OBVIOUS
  <2>3. p * q = p * (b * s) + p * t
    <3>1. p * ((b * s) + t) = p * (b * s) + p * t
      BY <2>1, <2>2, Zenon
    <3>2. q = (b * s) + t
      BY <1>4
    <3>. QED
      BY <3>1, <3>2, Zenon
  <2>4. p * (b * s) = m * s
    BY <1>2
  <2>5. p * t \in Int /\ m * s \in Int
    OBVIOUS
  <2>6. (m * s + p * t) + r = m * s + (p * t + r)
    BY <2>5
  <2>. QED
    BY <1>3, <1>5, <2>3, <2>4, <2>6, Zenon
<1>7. p * t + r \in 0 .. m - 1
  <2>1. p * t <= p * (b - 1) /\ 0 <= p * t /\ p * t \in Int
    OBVIOUS
  <2>2. p * (b - 1) = m - p
    BY <1>2
  <2>. QED
    BY <2>1, <2>2
<1>8. s = x
  BY <1>6, <1>7, Quotient
<1>. QED
  BY <1>2, <1>3, <1>4, <1>5, <1>8, Zenon

LEMMA OneDigit ==
    ASSUME NEW n \in Nat, NEW m \in Nat, NEW p \in Nat \ {0}, NEW b \in Nat \ {0},
           n \div (p * b) = m \div (p * b), (n \div p) % b = (m \div p) % b
    PROVE  n \div p = m \div p
<1>1. n \in Int /\ m \in Int
  OBVIOUS
<1>2. n \div p \in Int /\ m \div p \in Int
  BY <1>1, DivMod, Zenon
<1>3. n \div p = (b * ((n \div p) \div b)) + ((n \div p) % b)
  BY <1>2, DivMod, Zenon
<1>4. m \div p = (b * ((m \div p) \div b)) + ((m \div p) % b)
  BY <1>2, DivMod, Zenon
<1>5. (n \div p) \div b = (m \div p) \div b
  BY DivDiv, Zenon
<1>. QED
  BY <1>3, <1>4, <1>5, Zenon

\* A length is known from its bytes.
LEMMA DigitsTell ==
    ASSUME NEW n \in LengthRange, NEW m \in LengthRange,
           \A k \in 1 .. HeaderLen : (n \div Byte ^ (HeaderLen - k)) % Byte =
                                     (m \div Byte ^ (HeaderLen - k)) % Byte
    PROVE  n = m
<1>. DEFINE Top(x, j) == x \div Byte ^ (HeaderLen - j)
            S == {j \in Nat : j <= HeaderLen => Top(n, j) = Top(m, j)}
<1>1. n \in Nat /\ m \in Nat /\ Byte ^ HeaderLen \in Nat \ {0}
      /\ n < Byte ^ HeaderLen /\ m < Byte ^ HeaderLen
  BY PowersTyped, Sizes DEF LengthRange
<1>2. 0 \in S
  <2>1. \A p \in Nat \ {0}, x \in Nat : x < p => x \div p = 0
    OBVIOUS
  <2>2. HeaderLen - 0 = HeaderLen
    BY Sizes
  <2>. QED
    BY <1>1, <2>1, <2>2
<1>3. ASSUME NEW j \in Nat, j \in S PROVE j + 1 \in S
  <2>. SUFFICES ASSUME j + 1 <= HeaderLen PROVE Top(n, j + 1) = Top(m, j + 1)
    OBVIOUS
  <2>1. \E e \in 0 .. HeaderLen - 1 : e = HeaderLen - (j + 1) /\ e + 1 = HeaderLen - j
    BY Sizes
  <2>2. PICK e \in 0 .. HeaderLen - 1 : e = HeaderLen - (j + 1) /\ e + 1 = HeaderLen - j
    BY <2>1
  <2>3. e \in 0 .. HeaderLen /\ j + 1 \in 1 .. HeaderLen /\ j <= HeaderLen
    BY <2>2, Sizes
  <2>4. Byte ^ e \in Nat \ {0} /\ Byte ^ (e + 1) = Byte ^ e * Byte
    BY <2>2, <2>3, PowersTyped, PowerAssumption
  <2>5. (n \div Byte ^ e) % Byte = (m \div Byte ^ e) % Byte
    BY <2>2, <2>3
  <2>6. n \div Byte ^ (e + 1) = m \div Byte ^ (e + 1)
    BY <1>3, <2>2, <2>3
  <2>7. n \div (Byte ^ e * Byte) = m \div (Byte ^ e * Byte)
    BY <2>4, <2>6
  <2>8. n \div Byte ^ e = m \div Byte ^ e
    <3>1. \A z \in Nat \ {0} :
             /\ n \div (z * Byte) = m \div (z * Byte)
             /\ (n \div z) % Byte = (m \div z) % Byte
             => n \div z = m \div z
      <4>1. Byte \in Nat \ {0} /\ n \in Nat /\ m \in Nat
        BY <1>1, Sizes
      <4>. QED
        BY <4>1, OneDigit, Zenon
    <3>. QED
      BY <2>4, <2>5, <2>7, <3>1, Zenon
  <2>. QED
    BY <2>2, <2>8
<1>. HIDE DEF S
<1>4. \A j \in Nat : j \in S
  BY <1>2, <1>3, InductionOn
<1>5. Top(n, HeaderLen) = Top(m, HeaderLen)
  BY <1>4, Sizes DEF S
<1>6. Byte ^ (HeaderLen - HeaderLen) = 1
  BY Sizes, PowerAssumption
<1>. QED
  BY <1>1, <1>5, <1>6

-----------------------------------------------------------------------------
(* The constants, and what the socket counts.                              *)

LEMMA Zeros ==
    /\ 0 <= BufSize /\ 0 \in 0 .. PtrMod - 1 /\ 0 \in 0 .. BufSize /\ 0 \in 0 .. MaxPolls
    /\ 0 \in 0 .. MaxLoads /\ 0 < MaxPolls
  BY Sizes

LEMMA Below ==
    ASSUME NEW r \in 0 .. BufSize, NEW n \in Nat, n <= r
    PROVE  n \in 0 .. BufSize
  BY Sizes

LEMMA MinusPlus == \A a, b \in Nat : (a - b) + b = a /\ a \in Int
  OBVIOUS

LEMMA MorePolls ==
    ASSUME NEW n \in 0 .. MaxPolls, n < MaxPolls
    PROVE  n + 1 \in 0 .. MaxPolls /\ (n + 1 # MaxPolls => n + 1 < MaxPolls)
  BY Sizes

LEMMA Divides == \E c \in Int : PtrMod = BufSize * c
<1>1. PtrMod % BufSize = 0 BY NetbootAssumption
<1>2. PtrMod \div BufSize \in Int /\ PtrMod = (BufSize * (PtrMod \div BufSize)) + (PtrMod % BufSize)
  BY Sizes, DivMod
<1>3. BufSize * (PtrMod \div BufSize) \in Int BY <1>2, Sizes
<1>4. \A x \in Int : x + 0 = x OBVIOUS
<1>5. PtrMod = BufSize * (PtrMod \div BufSize) BY <1>1, <1>2, <1>3, <1>4, Zenon
<1>. QED BY <1>2, <1>5, Zenon

LEMMA LengthsAreNat == LengthRange \subseteq Nat
  BY NetbootAssumption DEF LengthRange

\* A place in the receive memory, found from the 16-bit pointer.
LEMMA PlaceOf ==
    ASSUME NEW a \in Nat, NEW n \in Nat
    PROVE  ((a % PtrMod) + n) % BufSize = (a + n) % BufSize
<1>1. PICK c \in Int : PtrMod = BufSize * c BY Divides
<1>2. BufSize * c \in Nat \ {0} /\ BufSize \in Nat \ {0} BY <1>1, Sizes
<1>3. ((a % (BufSize * c)) + n) % BufSize = (a + n) % BufSize BY <1>1, <1>2, ModMod, Zenon
<1>. QED BY <1>1, <1>3, Zenon

LEMMA ReceivedType == ASSUME TypeOK PROVE Received \in Nat
<1>0. wr \in 0 .. PtrMod - 1 /\ taken \in 0 .. PtrMod - 1 BY DEF TypeOK
<1>1. wr + PtrMod - taken \in Int BY <1>0, Sizes
<1>2. (wr + PtrMod - taken) % PtrMod \in 0 .. PtrMod - 1 BY <1>1, Sizes, DivMod
<1>. QED BY <1>2, Sizes DEF Received

LEMMA CountTypes ==
    ASSUME TypeOK
    PROVE  /\ Len(lb) \in Nat /\ Len(dst) \in Nat /\ Taken \in Nat /\ Given \in Int
           /\ rsr \in Nat /\ seen \in Nat /\ sent \in Nat /\ len \in Nat /\ loads \in Nat
<1>1. lb \in Seq(Cell) /\ dst \in Seq(Cell) /\ rsr \in 0 .. BufSize /\ seen \in 0 .. BufSize
  BY DEF TypeOK
<1>2. sent \in Nat /\ len \in LengthRange /\ loads \in 0 .. MaxLoads BY DEF TypeOK
<1>3. Len(lb) \in Nat /\ Len(dst) \in Nat BY <1>1
<1>4. Taken \in Nat BY <1>3 DEF Taken
<1>5. rsr \in Nat /\ seen \in Nat /\ loads \in Nat BY <1>1, <1>2, Sizes
<1>. QED BY <1>2, <1>3, <1>4, <1>5, LengthsAreNat DEF Given

LEMMA DistanceIs ==
    ASSUME NEW a \in Nat, NEW b \in Nat, b <= a, a - b <= BufSize
    PROVE  ((a % PtrMod) + PtrMod - (b % PtrMod)) % PtrMod = a - b
<1>1. PtrMod \in Nat \ {0} BY Sizes
<1>2. a - b \in 0 .. PtrMod - 1 BY Sizes
<1>. QED BY <1>1, <1>2, DiffMod, Zenon

\* With a connection the size register is the length of the window.
LEMMA ReceivedIs == ASSUME TypeOK, WindowInv, Connected PROVE Received = sent - Given /\ Given \in Nat
<1>1. /\ 0 <= Given /\ Given <= Taken /\ Taken <= sent /\ sent - Given <= BufSize
      /\ wr = sent % PtrMod /\ taken = Given % PtrMod
  BY DEF WindowInv
<1>2. Given \in Nat /\ sent \in Nat BY <1>1, CountTypes
<1>3. Given <= sent /\ sent - Given <= BufSize BY <1>1, <1>2, CountTypes
<1>4. ((sent % PtrMod) + PtrMod - (Given % PtrMod)) % PtrMod = sent - Given
  BY <1>2, <1>3, DistanceIs, Zenon
<1>. QED BY <1>1, <1>2, <1>4 DEF Received

LEMMA ReceivedAtReset == (0 + PtrMod - 0) % PtrMod = 0
<1>1. 0 \in Nat /\ 0 - 0 \in 0 .. PtrMod - 1 BY Sizes
<1>2. ((0 % PtrMod) + PtrMod - (0 % PtrMod)) % PtrMod = 0 - 0 BY <1>1, Sizes, DiffMod, ZenonT(40)
<1>3. 0 % PtrMod = 0
  <2>1. 0 \in Int /\ 0 \in 0 .. PtrMod - 1 BY Sizes
  <2>2. ((PtrMod * 0) + 0) % PtrMod = 0 BY <2>1, Sizes, ModIs, Zenon
  <2>3. (PtrMod * 0) + 0 = 0 BY Sizes
  <2>. QED BY <2>2, <2>3, Zenon
<1>4. 0 - 0 = 0 OBVIOUS
<1>. QED BY <1>2, <1>3, <1>4, Zenon

\* The two bytes of the size make no more than the size is at the second.
LEMMA TornIs ==
    ASSUME TypeOK, seen <= Received
    PROVE  Torn(seen, Received) \in 0 .. Received
<1>1. seen \in Nat /\ Received \in Nat /\ Byte \in Nat \ {0} BY CountTypes, ReceivedType, Sizes
<1>2. (seen \div Byte) * Byte + (Received % Byte) \in 0 .. Received BY <1>1, TornLess
<1>. QED BY <1>2 DEF Torn

\* The chunk is what is there, as far as it is wanted.
LEMMA ChunkIs ==
    ASSUME TypeOK, ReceivedIsStream
    PROVE  /\ got \in Nat /\ goal \in Nat /\ got <= goal
           /\ chunk \in Nat /\ chunk <= rsr /\ got + chunk <= goal
<1>1. got \in Nat /\ goal \in Nat BY CountTypes, Sizes DEF got, buf, goal
<1>2. got <= goal BY DEF ReceivedIsStream, got, buf, goal, TypeOK
<1>. QED BY <1>1, <1>2, CountTypes DEF chunk, Smaller

\* The length bytes in order have one value, the length sent.
LEMMA DecodeIs ==
    ASSUME TypeOK, ReceivedIsStream, Len(lb) = HeaderLen
    PROVE  Decode(lb) = lens[loads] /\ lens[loads] \in LengthRange
<1>1. loads \in 0 .. MaxLoads /\ lens \in [0 .. MaxLoads -> LengthRange] BY DEF TypeOK
<1>2. lens[loads] \in LengthRange BY <1>1
<1>3. ASSUME NEW k \in 1 .. HeaderLen
      PROVE  (lens[loads] \div Byte ^ (HeaderLen - k)) % Byte = Digit(lb[k])
  <2>1. lb[k] = Sent(loads, 0 + k) BY <1>3 DEF ReceivedIsStream, InOrder
  <2>2. lb[k].conn = loads /\ lb[k].pos = k BY <2>1, Sizes DEF Sent
  <2>. QED BY <2>2, <1>3 DEF Digit
<1>4. /\ Decode(lb) \in LengthRange
      /\ \A k \in 1 .. HeaderLen :
            (Decode(lb) \div Byte ^ (HeaderLen - k)) % Byte = Digit(lb[k])
  <2>1. \E n \in LengthRange : \A k \in 1 .. HeaderLen :
           (n \div Byte ^ (HeaderLen - k)) % Byte = Digit(lb[k]) BY <1>2, <1>3, Zenon
  <2>. QED BY <2>1, Zenon DEF Decode
<1>5. \A k \in 1 .. HeaderLen : (Decode(lb) \div Byte ^ (HeaderLen - k)) % Byte =
                                (lens[loads] \div Byte ^ (HeaderLen - k)) % Byte
  BY <1>3, <1>4, Zenon
<1>6. Decode(lb) = lens[loads] BY <1>2, <1>4, <1>5, DigitsTell, Zenon
<1>. QED BY <1>2, <1>6

-----------------------------------------------------------------------------
(* Each action keeps the invariant.                                        *)

LEMMA InitInv == Init => IInv
<1> SUFFICES ASSUME Init PROVE IInv OBVIOUS
<1>1. Received <= BufSize
  <2>1. Received = 0 BY ReceivedAtReset DEF Init, Received
  <2>. QED BY <2>1, Sizes
<1>2. Blank \in Cell /\ 0 \in LengthRange
  <2>1. 0 \in 0 .. MaxLoads /\ 0 \in Nat BY Sizes
  <2>. QED BY <2>1, ZeroLength DEF Blank, Sent, Cell
<1>3. TypeOK BY <1>1, <1>2, Sizes DEF Init, TypeOK
<1>4. ReceivedIsStream BY Sizes DEF Init, ReceivedIsStream, InOrder
<1>5. LocalInv BY DEF Init, LocalInv, Active
<1>6. WindowInv BY DEF Init, WindowInv, Connected, Active
<1>. QED BY <1>3, <1>4, <1>5, <1>6 DEF IInv

LEMMA CommandInv == ASSUME IInv, User PROVE IInv'
<1> USE DEF User, Command
<1>1. TypeOK'
  <2>1. Received' = Received BY DEF chipVars, pointers, Received
  <2>2. 0 \in LengthRange BY ZeroLength
  <2>3. loads + 1 \in 0 .. MaxLoads BY CountTypes, Sizes DEF IInv
  <2>4. 0 \in 0 .. BufSize /\ 0 \in 0 .. MaxPolls /\ <<>> \in Seq(Cell) BY Sizes
  <2>. QED BY <2>1, <2>2, <2>3, <2>4 DEF IInv, TypeOK, chipVars, pointers, serverVars
<1>2. ReceivedIsStream' BY Sizes DEF ReceivedIsStream, InOrder
<1>3. LocalInv' BY Sizes DEF IInv, LocalInv, Active, chipVars, pointers
<1>4. WindowInv' BY DEF WindowInv, Connected, Active
<1>. QED BY <1>1, <1>2, <1>3, <1>4 DEF IInv

LEMMA W5500InitInv == ASSUME IInv, W5500Init, UNCHANGED serverVars PROVE IInv'
<1> USE DEF W5500Init, Return
<1>1. TypeOK'
  <2>1. Received' = 0 BY ReceivedAtReset DEF Received
  <2>2. Received' <= BufSize BY <2>1, Zeros, Zenon
  <2>. QED BY <2>2, Zeros DEF IInv, TypeOK, local, serverVars
<1>2. ReceivedIsStream' BY DEF IInv, ReceivedIsStream, InOrder, local, serverVars
<1>3. LocalInv' BY DEF IInv, LocalInv, Active, local
<1>4. WindowInv' BY DEF WindowInv, Connected, Active
<1>. QED BY <1>1, <1>2, <1>3, <1>4 DEF IInv

LEMMA TcpOpenInv == ASSUME IInv, TcpOpen, UNCHANGED serverVars PROVE IInv'
<1> USE DEF TcpOpen, Return
<1>1. TypeOK'
  <2>1. Received' = Received BY DEF pointers, Received
  <2>. QED BY <2>1 DEF IInv, TypeOK, local, pointers, serverVars
<1>2. ReceivedIsStream' BY DEF IInv, ReceivedIsStream, InOrder, local, serverVars
<1>3. LocalInv' BY DEF IInv, LocalInv, Active, local, pointers
<1>4. WindowInv' BY DEF WindowInv, Connected, Active
<1>. QED BY <1>1, <1>2, <1>3, <1>4 DEF IInv

LEMMA ConnectPollInv == ASSUME IInv, ConnectPoll, UNCHANGED serverVars PROVE IInv'
<1> USE DEF ConnectPoll, Return
<1>1. TypeOK'
  <2>1. Received' = Received BY DEF chipVars, pointers, Received
  <2>2. polls' = polls + 1 /\ polls \in 0 .. MaxPolls /\ polls < MaxPolls
    BY DEF IInv, LocalInv, TypeOK
  <2>3. polls' \in 0 .. MaxPolls BY <2>2, MorePolls
  <2>. QED BY <2>1, <2>3 DEF IInv, TypeOK, chipVars, pointers, serverVars
<1>2. ReceivedIsStream' BY DEF IInv, ReceivedIsStream, InOrder, serverVars
<1>3. LocalInv'
  <2>1. pc' = "poll" => polls' < MaxPolls
    <3>1. polls' = polls + 1 /\ polls \in 0 .. MaxPolls /\ polls < MaxPolls
      BY DEF IInv, LocalInv, TypeOK
    <3>2. pc' = "poll" => polls' # MaxPolls OBVIOUS
    <3>. QED BY <3>1, <3>2, MorePolls
  <2>. QED BY <2>1 DEF IInv, LocalInv, Active, chipVars, pointers
<1>4. WindowInv'
  BY DEF IInv, WindowInv, Connected, Active, Taken, Given, chipVars, pointers, serverVars
<1>. QED BY <1>1, <1>2, <1>3, <1>4 DEF IInv

LEMMA LengthDoneInv == ASSUME IInv, LengthDone, UNCHANGED serverVars PROVE IInv'
<1> USE DEF LengthDone
<1>1. Len(lb) = HeaderLen /\ dst = <<>> BY DEF got, goal, buf, IInv, LocalInv
<1>2. len' \in LengthRange BY <1>1, DecodeIs DEF IInv
<1>3. TypeOK'
  <2>1. Received' = Received BY DEF chipVars, pointers, Received
  <2>. QED BY <2>1, <1>2 DEF IInv, TypeOK, chipVars, pointers, serverVars
<1>4. ReceivedIsStream'
  <2>1. Len(dst') <= len' BY <1>1, <1>2, LengthsAreNat
  <2>. QED BY <2>1, <1>1 DEF IInv, ReceivedIsStream, InOrder, serverVars
<1>5. LocalInv' BY DEF IInv, LocalInv, Active, Given, Taken, chipVars, pointers, serverVars
<1>6. WindowInv'
  BY DEF IInv, WindowInv, Connected, Active, Taken, Given, chipVars, pointers, serverVars
<1>. QED BY <1>3, <1>4, <1>5, <1>6 DEF IInv

LEMMA ImageDoneInv == ASSUME IInv, ImageDone, UNCHANGED serverVars PROVE IInv'
<1> USE DEF ImageDone, Close, Return
<1>1. TypeOK'
  <2>1. Received' = Received BY DEF pointers, Received
  <2>. QED BY <2>1 DEF IInv, TypeOK, local, pointers, serverVars
<1>2. ReceivedIsStream' BY DEF IInv, ReceivedIsStream, InOrder, local, serverVars
<1>3. LocalInv' BY DEF IInv, LocalInv, Active, local, pointers
<1>4. WindowInv' BY DEF WindowInv, Connected, Active
<1>. QED BY <1>1, <1>2, <1>3, <1>4 DEF IInv

LEMMA SizeHighInv == ASSUME IInv, SizeHigh, UNCHANGED serverVars PROVE IInv'
<1> USE DEF SizeHigh
<1>1. Connected BY DEF Connected, Active
<1>2. Received = sent - Given /\ Received \in 0 .. BufSize
  <2>1. Received = sent - Given BY <1>1, ReceivedIs DEF IInv
  <2>2. Received <= BufSize BY DEF IInv, TypeOK
  <2>3. Received \in Nat BY ReceivedType DEF IInv
  <2>. QED BY <2>1, <2>2, <2>3, Sizes
<1>3. TypeOK'
  <2>1. Received' = Received BY DEF chipVars, pointers, Received
  <2>. QED BY <2>1, <1>2 DEF IInv, TypeOK, chipVars, pointers, serverVars
<1>4. ReceivedIsStream' BY DEF IInv, ReceivedIsStream, InOrder, serverVars
<1>5. LocalInv'
  <2>1. seen' <= sent' - Given'
    <3>1. Given' = Given /\ sent' = sent BY DEF Given, Taken, serverVars
    <3>2. sent - Given \in Nat BY <1>2
    <3>. QED BY <3>1, <3>2, <1>2
  <2>. QED BY <2>1 DEF IInv, LocalInv, Active, chipVars, pointers
<1>6. WindowInv'
  BY DEF IInv, WindowInv, Connected, Active, Taken, Given, chipVars, pointers, serverVars
<1>. QED BY <1>3, <1>4, <1>5, <1>6 DEF IInv

LEMMA SizeLowInv == ASSUME IInv, SizeLow, UNCHANGED serverVars PROVE IInv'
<1> USE DEF SizeLow, Close, Return
<1>1. Connected BY DEF Connected, Active
<1>2. Received = sent - Given /\ Received <= BufSize /\ Received \in Nat
  BY <1>1, ReceivedIs, ReceivedType DEF IInv, TypeOK
<1>3. rsr' \in 0 .. Received
  <2>1. seen <= Received BY <1>2 DEF IInv, LocalInv
  <2>. QED BY <2>1, TornIs DEF IInv
<1>4. rsr' \in 0 .. BufSize BY <1>2, <1>3, Sizes
<1>5. TypeOK'
  <2>1. Received' = Received BY DEF pointers, Received
  <2>. QED BY <2>1, <1>4 DEF IInv, TypeOK, pointers, serverVars
<1>6. ReceivedIsStream' BY DEF IInv, ReceivedIsStream, InOrder, serverVars
<1>7. LocalInv'
  <2>1. pc' = "read" => rsr' <= sent' - Given'
    <3>1. pc' = "read" => Given' = Given /\ sent' = sent BY DEF Given, Taken, serverVars
    <3>. QED BY <3>1, <1>2, <1>3
  <2>. QED BY <2>1 DEF IInv, LocalInv, Active, pointers
<1>8. WindowInv'
  BY DEF IInv, WindowInv, Connected, Active, Taken, Given, pointers, serverVars
<1>. QED BY <1>5, <1>6, <1>7, <1>8 DEF IInv

LEMMA StatusInv == ASSUME IInv, Status, UNCHANGED serverVars PROVE IInv'
<1> USE DEF Status
<1>1. TypeOK'
  <2>1. Received' = Received BY DEF chipVars, pointers, Received
  <2>. QED BY <2>1 DEF IInv, TypeOK, local, chipVars, pointers, serverVars
<1>2. ReceivedIsStream' BY DEF IInv, ReceivedIsStream, InOrder, local, serverVars
<1>3. LocalInv' BY DEF IInv, LocalInv, Active, local, chipVars, pointers
<1>4. WindowInv'
  BY DEF IInv, WindowInv, Connected, Active, Taken, Given, local, chipVars, pointers, serverVars
<1>. QED BY <1>1, <1>2, <1>3, <1>4 DEF IInv

\* What the burst reads, as an operator of the lemmas.
Burst == [i \in 1 .. chunk |-> mem[(rd + i - 1) % BufSize]]

\* The burst is the next piece of the stream.
LEMMA BurstIs ==
    ASSUME IInv, pc = "read"
    PROVE  /\ Burst \in Seq(Cell) /\ Len(Burst) = chunk
           /\ \A i \in 1 .. chunk : Burst[i] = Sent(loads, Taken + i)
<1>1. chunk \in Nat /\ chunk <= rsr BY ChunkIs DEF IInv
<1>2. /\ Connected /\ Given = Taken /\ rd = Given % PtrMod
  BY DEF Connected, Active, Given, IInv, WindowInv
<1>3. rsr <= sent - Taken /\ Taken \in Nat /\ sent \in Nat /\ rsr \in Nat
  BY <1>2, CountTypes DEF IInv, LocalInv
<1>4. ASSUME NEW i \in 1 .. chunk
      PROVE  mem[(rd + i - 1) % BufSize] = Sent(loads, Taken + i)
  <2>1. i - 1 \in Nat /\ Taken + i \in 1 .. sent /\ Taken + i > Taken BY <1>1, <1>3
  <2>2. mem[((Taken + i) - 1) % BufSize] = Sent(loads, Taken + i)
    BY <1>2, <2>1 DEF IInv, WindowInv
  <2>3. ((Taken % PtrMod) + (i - 1)) % BufSize = (Taken + (i - 1)) % BufSize
    BY <1>3, <2>1, PlaceOf, Zenon
  <2>4. Taken + (i - 1) = (Taken + i) - 1 BY <1>3, <2>1
  <2>5. (Taken % PtrMod) + (i - 1) = rd + i - 1
    <3>1. rd \in 0 .. PtrMod - 1 BY DEF IInv, TypeOK
    <3>2. rd + (i - 1) = rd + i - 1 BY <3>1, <2>1, Sizes
    <3>. QED BY <3>2, <1>2, Zenon
  <2>. QED BY <2>2, <2>3, <2>4, <2>5, Zenon
<1>5. ASSUME NEW i \in 1 .. chunk PROVE Sent(loads, Taken + i) \in Cell
  <2>1. Taken + i \in Nat BY <1>1, <1>3
  <2>2. loads \in 0 .. MaxLoads BY DEF IInv, TypeOK
  <2>. QED BY <2>1, <2>2 DEF Sent, Cell
<1>6. Burst \in [1 .. chunk -> Cell] BY <1>4, <1>5 DEF Burst
<1>7. Burst \in Seq(Cell) /\ Len(Burst) = chunk BY <1>1, <1>6
<1>. QED BY <1>4, <1>7 DEF Burst

\* A piece in order behind one in order.
LEMMA InOrderJoin ==
    ASSUME NEW a \in Seq(Cell), NEW b \in Seq(Cell), NEW f \in Nat,
           InOrder(a, f), \A i \in 1 .. Len(b) : b[i] = Sent(loads, (f + Len(a)) + i)
    PROVE  InOrder(a \o b, f) /\ a \o b \in Seq(Cell) /\ Len(a \o b) = Len(a) + Len(b)
<1>1. Len(a) \in Nat /\ Len(b) \in Nat OBVIOUS
<1>2. Len(a \o b) = Len(a) + Len(b) /\ a \o b \in Seq(Cell) OBVIOUS
<1>3. ASSUME NEW k \in 1 .. Len(a \o b) PROVE (a \o b)[k] = Sent(loads, f + k)
  <2>1. CASE k <= Len(a)
    <3>1. (a \o b)[k] = a[k] /\ k \in 1 .. Len(a) BY <1>1, <1>2, <2>1
    <3>. QED BY <3>1 DEF InOrder
  <2>2. CASE k > Len(a)
    <3>1. k - Len(a) \in 1 .. Len(b) /\ (f + Len(a)) + (k - Len(a)) = f + k BY <1>1, <1>2, <2>2
    <3>2. (a \o b)[k] = b[k - Len(a)] BY <1>1, <1>2, <2>2
    <3>3. b[k - Len(a)] = Sent(loads, (f + Len(a)) + (k - Len(a))) BY <3>1
    <3>. QED BY <3>1, <3>2, <3>3
  <2>. QED BY <1>1, <1>2, <2>1, <2>2
<1>. QED BY <1>2, <1>3 DEF InOrder

LEMMA ReadChunkInv == ASSUME IInv, ReadChunk, UNCHANGED serverVars PROVE IInv'
<1>1. /\ pc = "read" /\ pc' = "give back" /\ rsr' = chunk
      /\ part' = part /\ len' = len /\ loads' = loads /\ seen' = seen /\ polls' = polls
      /\ again' = again /\ result' = result
      /\ UNCHANGED <<sr, mem, wr, taken, rd, conn, lens, sent, cut>>
  BY DEF ReadChunk, chipVars, pointers, serverVars
<1>2. IF part = "length" THEN lb' = lb \o Burst /\ dst' = dst
                         ELSE dst' = dst \o Burst /\ lb' = lb
  BY DEF ReadChunk, Burst
<1>3. /\ chunk \in Nat /\ chunk <= rsr /\ got + chunk <= goal
      /\ Burst \in Seq(Cell) /\ Len(Burst) = chunk
      /\ \A i \in 1 .. chunk : Burst[i] = Sent(loads, Taken + i)
  BY <1>1, ChunkIs, BurstIs DEF IInv
<1>4. /\ lb \in Seq(Cell) /\ dst \in Seq(Cell) /\ Len(lb) \in Nat /\ Len(dst) \in Nat
      /\ Taken \in Nat /\ rsr \in 0 .. BufSize
  BY CountTypes DEF IInv, TypeOK
<1>5. /\ InOrder(lb', 0) /\ InOrder(dst', HeaderLen) /\ Taken' = Taken + chunk
      /\ lb' \in Seq(Cell) /\ dst' \in Seq(Cell)
      /\ Len(lb') <= HeaderLen /\ Len(dst') <= len /\ (part = "data" => lb' = lb)
      /\ (part = "length" => dst' = <<>>)
  <2>1. CASE part = "length"
    <3>1. Taken = Len(lb) /\ dst = <<>> BY <1>4, <2>1 DEF Taken, IInv, LocalInv
    <3>2. \A i \in 1 .. Len(Burst) : Burst[i] = Sent(loads, (0 + Len(lb)) + i)
      BY <1>3, <1>4, <3>1
    <3>3. /\ InOrder(lb \o Burst, 0) /\ lb \o Burst \in Seq(Cell)
          /\ Len(lb \o Burst) = Len(lb) + chunk
      BY <1>3, <1>4, <3>2, InOrderJoin DEF IInv, ReceivedIsStream
    <3>4. Len(lb) + chunk <= HeaderLen BY <1>3, <2>1 DEF got, goal, buf
    <3>5. lb' = lb \o Burst /\ dst' = <<>> BY <1>2, <2>1, <3>1
    <3>6. InOrder(dst', HeaderLen) /\ Len(dst') <= len /\ dst' \in Seq(Cell)
      BY <3>1, <3>5, <1>4 DEF IInv, ReceivedIsStream
    <3>7. Taken' = Taken + chunk BY <1>3, <1>4, <3>1, <3>3, <3>5 DEF Taken
    <3>. QED BY <2>1, <3>3, <3>4, <3>5, <3>6, <3>7
  <2>2. CASE part # "length"
    <3>1. part = "data" /\ Len(lb) = HeaderLen BY <2>2 DEF IInv, TypeOK, ReceivedIsStream
    <3>2. \A i \in 1 .. Len(Burst) : Burst[i] = Sent(loads, (HeaderLen + Len(dst)) + i)
      BY <1>3, <3>1 DEF Taken
    <3>3. /\ InOrder(dst \o Burst, HeaderLen) /\ dst \o Burst \in Seq(Cell)
          /\ Len(dst \o Burst) = Len(dst) + chunk
      BY <1>3, <1>4, <3>2, Sizes, InOrderJoin DEF IInv, ReceivedIsStream
    <3>4. Len(dst) + chunk <= len BY <1>3, <2>2 DEF got, goal, buf
    <3>5. dst' = dst \o Burst /\ lb' = lb BY <1>2, <2>2
    <3>6. InOrder(lb', 0) /\ Len(lb') <= HeaderLen /\ lb' \in Seq(Cell)
      BY <3>5, <1>4 DEF IInv, ReceivedIsStream
    <3>7. Taken' = Taken + chunk
      <4>1. Taken' = Len(lb) + (Len(dst) + chunk) /\ Taken = Len(lb) + Len(dst)
        BY <3>3, <3>5 DEF Taken
      <4>2. \A a, b, c \in Nat : a + (b + c) = (a + b) + c OBVIOUS
      <4>3. Len(lb) \in Nat /\ Len(dst) \in Nat /\ chunk \in Nat BY <1>3, <1>4
      <4>4. Len(lb) + (Len(dst) + chunk) = (Len(lb) + Len(dst)) + chunk BY <4>2, <4>3, Zenon
      <4>. QED BY <4>1, <4>4, Zenon
    <3>. QED BY <2>2, <3>3, <3>4, <3>5, <3>6, <3>7
  <2>. QED BY <2>1, <2>2
<1>6. (InOrder(lb, 0))' /\ (InOrder(dst, HeaderLen))'
  BY <1>1, <1>5 DEF InOrder
<1>7. TypeOK'
  <2>1. Received' = Received BY <1>1 DEF Received
  <2>2. rsr' \in 0 .. BufSize BY <1>1, <1>3, <1>4, Below, Zenon
  <2>. QED BY <1>1, <1>5, <2>1, <2>2 DEF IInv, TypeOK
<1>8. ReceivedIsStream' BY <1>1, <1>5, <1>6 DEF IInv, ReceivedIsStream
<1>9. LocalInv' BY <1>1, <1>5 DEF IInv, LocalInv, Active
<1>10. WindowInv'
  <2>1. Given = Taken /\ Given' = Taken
    <3>1. Given' = Taken' - chunk BY <1>1 DEF Given
    <3>2. Taken' = Taken + chunk BY <1>5
    <3>3. \A a, b \in Nat : (a + b) - b = a OBVIOUS
    <3>4. Given' = Taken BY <1>3, <1>4, <3>1, <3>2, <3>3, Zenon
    <3>5. Given = Taken BY <1>1 DEF Given
    <3>. QED BY <3>4, <3>5
  <2>2. Taken + chunk <= sent
    <3>1. rsr <= sent - Taken BY <1>1, <2>1 DEF IInv, LocalInv
    <3>. QED BY <3>1, <1>3, <1>4, CountTypes DEF IInv
  <2>3. Connected BY <1>1 DEF Connected, Active
  <2>4. 0 <= Given' /\ Given' <= Taken' BY <1>3, <1>4, <1>5, <2>1
  <2>. QED BY <1>1, <1>5, <2>1, <2>2, <2>3, <2>4 DEF IInv, WindowInv
<1>. QED BY <1>7, <1>8, <1>9, <1>10 DEF IInv

LEMMA WritePointerInv == ASSUME IInv, WritePointer, UNCHANGED serverVars PROVE IInv'
<1> USE DEF WritePointer
<1>1. Connected /\ Given = Taken - rsr BY DEF Connected, Active, Given
<1>2. rd = Given % PtrMod /\ Given \in Nat /\ rsr \in Nat /\ Taken \in Nat
  BY <1>1, ReceivedIs, CountTypes DEF IInv, WindowInv
<1>3. rd' = Taken % PtrMod
  <2>1. ((Given % PtrMod) + rsr) % PtrMod = (Given + rsr) % PtrMod BY <1>2, Sizes, AddMod, Zenon
  <2>2. Given + rsr = Taken BY <1>1, <1>2, MinusPlus, Zenon
  <2>. QED BY <1>2, <2>1, <2>2
<1>4. Taken' = Taken /\ Given' = Given BY DEF Taken, Given, local
<1>5. TypeOK'
  <2>1. Received' = Received BY DEF Received
  <2>2. rd' \in 0 .. PtrMod - 1
    <3>1. Taken \in Int BY <1>2, MinusPlus, Zenon
    <3>2. Taken % PtrMod \in 0 .. PtrMod - 1 BY <3>1, Sizes, DivMod, Zenon
    <3>. QED BY <3>2, <1>3, Zenon
  <2>. QED BY <2>1, <2>2 DEF IInv, TypeOK, local, serverVars
<1>6. ReceivedIsStream' BY DEF IInv, ReceivedIsStream, InOrder, local, serverVars
<1>7. LocalInv' BY DEF IInv, LocalInv, Active, local
<1>8. WindowInv' BY <1>1, <1>3, <1>4 DEF IInv, WindowInv, local, serverVars
<1>. QED BY <1>5, <1>6, <1>7, <1>8 DEF IInv

LEMMA RecvInv == ASSUME IInv, Recv, UNCHANGED serverVars PROVE IInv'
<1> USE DEF Recv
<1>1. Connected BY DEF Connected, Active
<1>2. /\ rd = Taken % PtrMod /\ wr = sent % PtrMod
      /\ Given <= Taken /\ Taken <= sent /\ sent - Given <= BufSize
  BY <1>1 DEF IInv, WindowInv
<1>3. Taken \in Nat /\ sent \in Nat /\ Given \in Nat BY <1>1, CountTypes, ReceivedIs DEF IInv
<1>4. Taken' = Taken /\ Given' = Taken BY DEF Taken, Given, local
<1>5. sent - Taken <= BufSize /\ sent - Taken \in 0 .. PtrMod - 1 BY <1>2, <1>3, Sizes
<1>6. TypeOK'
  <2>1. ((sent % PtrMod) + PtrMod - (Taken % PtrMod)) % PtrMod = sent - Taken
    BY <1>2, <1>3, <1>5, DistanceIs, Zenon
  <2>2. Received' = sent - Taken BY <2>1, <1>2 DEF Received
  <2>3. Received' <= BufSize BY <2>2, <1>5
  <2>. QED BY <2>3 DEF IInv, TypeOK, local, serverVars
<1>7. ReceivedIsStream' BY DEF IInv, ReceivedIsStream, InOrder, local, serverVars
<1>8. LocalInv' BY DEF IInv, LocalInv, Active, local
<1>9. WindowInv'
  <2>1. \A k \in 1 .. sent : k > Taken => mem[(k - 1) % BufSize] = Sent(loads, k)
    <3> SUFFICES ASSUME NEW k \in 1 .. sent, k > Taken
                 PROVE  mem[(k - 1) % BufSize] = Sent(loads, k)
      OBVIOUS
    <3>1. k > Given BY <1>2, <1>3
    <3>. QED BY <3>1, <1>1 DEF IInv, WindowInv
  <2>2. 0 <= Taken /\ Taken <= Taken BY <1>3
  <2>. QED BY <1>1, <1>2, <1>4, <1>5, <2>1, <2>2 DEF IInv, WindowInv, local, serverVars
<1>. QED BY <1>6, <1>7, <1>8, <1>9 DEF IInv

LEMMA HandshakeInv == ASSUME IInv, Handshake, UNCHANGED driverVars PROVE IInv'
<1> USE DEF Handshake, driverVars, local
<1>0. wr = 0 /\ taken = 0 /\ rd = 0 /\ ~Active BY DEF IInv, LocalInv
<1>1. TypeOK'
  <2>1. Received' = Received BY DEF pointers, Received
  <2>2. lens' \in [0 .. MaxLoads -> LengthRange]
    BY Sizes DEF IInv, TypeOK, serverVars
  <2>3. conn' \in 0 .. MaxLoads /\ sent' \in Nat
    <3>1. /\ conn \in 0 .. MaxLoads /\ sent \in Nat
          /\ loads \in 0 .. MaxLoads /\ 0 \in Nat
      BY DEF IInv, TypeOK
    <3>2. conn' \in {loads, conn} /\ sent' \in {0, sent}
      BY Zenon DEF serverVars
    <3>. QED BY <3>1, <3>2, Zenon
  <2>. QED BY <2>1, <2>2, <2>3 DEF IInv, TypeOK, pointers
<1>2. ReceivedIsStream' BY DEF IInv, ReceivedIsStream, InOrder
<1>3. LocalInv' BY <1>0 DEF IInv, LocalInv, Active, pointers
<1>4. WindowInv'
  <2> SUFFICES ASSUME Connected' PROVE WindowInv' BY DEF WindowInv
  <2>1. pc = "poll" /\ sr' = "ESTABLISHED" /\ conn' = loads /\ sent' = 0
    BY <1>0 DEF Connected, Active
  <2>2. Taken' = 0 /\ Given' = 0
    <3>1. lb' = <<>> /\ dst' = <<>> /\ pc' = "poll" BY <2>1 DEF IInv, LocalInv
    <3>. QED BY <3>1 DEF Taken, Given
  <2>3. 0 % PtrMod = 0
    <3>1. 0 \in Int BY Sizes
    <3>2. ((PtrMod * 0) + 0) % PtrMod = 0 BY <3>1, Zeros, Sizes, ModIs, Zenon
    <3>3. (PtrMod * 0) + 0 = 0 BY Sizes
    <3>. QED BY <3>2, <3>3, Zenon
  <2>4. 0 - 0 <= BufSize BY Sizes
  <2>. QED BY <1>0, <2>1, <2>2, <2>3, <2>4, Zeros DEF WindowInv, pointers
<1>. QED BY <1>1, <1>2, <1>3, <1>4 DEF IInv

LEMMA ServerClosesInv == ASSUME IInv, ServerCloses, UNCHANGED driverVars PROVE IInv'
<1> USE DEF ServerCloses, driverVars, local
<1>1. TypeOK'
  <2>1. Received' = Received BY DEF pointers, Received
  <2>. QED BY <2>1 DEF IInv, TypeOK, pointers
<1>2. ReceivedIsStream' BY DEF IInv, ReceivedIsStream, InOrder
<1>3. LocalInv' BY DEF IInv, LocalInv, Active, Given, Taken, pointers
<1>4. WindowInv' BY DEF IInv, WindowInv, Connected, Active, Taken, Given, pointers
<1>. QED BY <1>1, <1>2, <1>3, <1>4 DEF IInv

\* What arrives fits, and makes the window no shorter.
LEMMA Fits ==
    ASSUME NEW r \in Nat, NEW n \in 1 .. BufSize - r
    PROVE  n \in Nat \ {0} /\ n \in Nat /\ r + n <= BufSize /\ r + n < PtrMod
  BY Sizes

LEMMA Longer ==
    ASSUME NEW s \in Nat, NEW g \in Int, NEW n \in Nat
    PROVE  /\ \A x \in Nat : x <= s - g => x <= (s + n) - g
           /\ \A t \in Nat : t <= s => t <= s + n
           /\ (s + n) - g = (s - g) + n
  OBVIOUS

LEMMA Ahead ==
    \A a, b \in Nat : a - b \in 0 .. BufSize - 1 =>
        ((a % BufSize) + BufSize - (b % BufSize)) % BufSize = a - b
  BY Sizes, DiffMod, Zenon

\* How far cell i is behind the place of the next byte.
Off(i) == (i + BufSize - (wr % BufSize)) % BufSize

\* Where the bytes that arrive go: byte k of the stream into its place, and
\* none into that of a byte the driver has not given back.
LEMMA OffIs ==
    ASSUME IInv, Connected, NEW n \in 1 .. BufSize - Received,
           NEW k \in 1 .. sent + n, k > Given
    PROVE  /\ (k - 1) % BufSize \in 0 .. BufSize - 1
           /\ k > sent => Off((k - 1) % BufSize) = (k - 1) - sent /\ (k - 1) - sent < n
           /\ k <= sent => ~(Off((k - 1) % BufSize) < n)
<1>0. /\ Received = sent - Given /\ Given \in Nat /\ sent \in Nat /\ Received \in Nat
      /\ Taken \in Nat
  BY ReceivedIs, CountTypes, ReceivedType DEF IInv
<1>1. /\ Received = sent - Given /\ Given \in Nat /\ sent \in Nat /\ Received \in Nat
      /\ wr = sent % PtrMod /\ Given <= sent
  <2>1. wr = sent % PtrMod /\ Given <= Taken /\ Taken <= sent
    BY DEF IInv, WindowInv
  <2> QED BY <1>0, <2>1
<1>2. wr % BufSize = sent % BufSize
  <2>1. ((sent % PtrMod) + 0) % BufSize = (sent + 0) % BufSize BY <1>1, PlaceOf
  <2>2. (sent % PtrMod) + 0 = wr /\ sent + 0 = sent
    <3>1. wr \in 0 .. PtrMod - 1 BY DEF IInv, TypeOK
    <3>2. wr + 0 = wr BY <3>1, Sizes
    <3>3. sent + 0 = sent BY <1>1
    <3>. QED BY <3>2, <3>3, <1>1, Zenon
  <2>. QED BY <2>1, <2>2, Zenon
<1>3. k - 1 \in Nat /\ k \in Nat /\ n \in Nat /\ n <= BufSize - (sent - Given) BY <1>1, Sizes
<1>4. (k - 1) % BufSize \in 0 .. BufSize - 1
  <2>1. k - 1 \in Int BY <1>3, MinusPlus, Zenon
  <2>. QED BY <2>1, Sizes, DivMod, Zenon
<1>5. ASSUME k > sent
      PROVE  Off((k - 1) % BufSize) = (k - 1) - sent /\ (k - 1) - sent < n
  <2>1. (k - 1) - sent \in 0 .. BufSize - 1 /\ (k - 1) - sent < n BY <1>1, <1>3, <1>5, Sizes
  <2>2. (((k - 1) % BufSize) + BufSize - (sent % BufSize)) % BufSize = (k - 1) - sent
    BY <1>1, <1>3, <2>1, Ahead, Zenon
  <2>. QED BY <2>1, <2>2, <1>2, Zenon DEF Off
<1>6. ASSUME k <= sent
      PROVE  ~(Off((k - 1) % BufSize) < n)
  <2>1. sent - (k - 1) \in 1 .. BufSize /\ ~(((k - 1) + BufSize) - sent < n)
    BY <1>1, <1>3, <1>6, Sizes
  <2>2. (((k - 1) % BufSize) + BufSize - (sent % BufSize)) % BufSize = ((k - 1) + BufSize) - sent
    BY <1>1, <1>3, <2>1, Sizes, DiffModBehind, Zenon
  <2>. QED BY <2>1, <2>2, <1>2, Zenon DEF Off
<1>. QED BY <1>4, <1>5, <1>6

LEMMA DeliverInv == ASSUME IInv, Deliver, UNCHANGED driverVars PROVE IInv'
<1>1. PICK n \in 1 .. BufSize - Received :
         /\ sent' = sent + n /\ wr' = (wr + n) % PtrMod
         /\ mem' = [i \in DOMAIN mem |->
                      IF Off(i) < n THEN Sent(conn, sent + Off(i) + 1) ELSE mem[i]]
  BY DEF Deliver, Off
<1>2. /\ UNCHANGED <<pc, part, again, seen, rsr, polls, lb, dst, len, result, loads>>
      /\ UNCHANGED <<sr, taken, rd, conn, lens>> /\ sr = "ESTABLISHED"
  BY DEF Deliver, driverVars, local
<1>3. /\ n \in Nat \ {0} /\ Received \in Nat /\ Received + n <= BufSize /\ sent \in Nat
      /\ Received + n < PtrMod /\ wr \in 0 .. PtrMod - 1 /\ taken \in 0 .. PtrMod - 1
      /\ n \in Nat
  <2>1. Received \in Nat /\ sent \in Nat BY ReceivedType, CountTypes DEF IInv
  <2>2. n \in Nat \ {0} /\ n \in Nat /\ Received + n <= BufSize /\ Received + n < PtrMod
    BY <2>1, Fits, Zenon
  <2>3. wr \in 0 .. PtrMod - 1 /\ taken \in 0 .. PtrMod - 1 BY DEF IInv, TypeOK
  <2>. QED BY <2>1, <2>2, <2>3
<1>4. TypeOK'
  <2>1. ((wr + PtrMod - taken) % PtrMod) + n < PtrMod BY <1>3 DEF Received
  <2>2. (((wr + n) % PtrMod) + PtrMod - taken) % PtrMod = ((wr + PtrMod - taken) % PtrMod) + n
    BY <1>3, <2>1, Sizes, AddDistance
  <2>3. Received' = Received + n BY <1>1, <1>2, <2>2, Zenon DEF Received
  <2>4. Received' <= BufSize BY <1>3, <2>3
  <2>5. wr' \in 0 .. PtrMod - 1
    <3>1. wr + n \in Int BY <1>3, Sizes
    <3>. QED BY <1>1, <3>1, Sizes, DivMod, Zenon
  <2>6. mem' \in [0 .. BufSize - 1 -> Cell]
    <3>1. mem \in [0 .. BufSize - 1 -> Cell] /\ conn \in 0 .. MaxLoads BY DEF IInv, TypeOK
    <3>2. ASSUME NEW i \in 0 .. BufSize - 1 PROVE Sent(conn, sent + Off(i) + 1) \in Cell
      <4>1. wr % BufSize \in 0 .. BufSize - 1
        <5>1. wr \in Int BY <1>3, Sizes
        <5>. QED BY <5>1, Sizes, DivMod, Zenon
      <4>2. i + BufSize - (wr % BufSize) \in Int BY <4>1, Sizes
      <4>3. Off(i) \in 0 .. BufSize - 1 BY <4>2, Sizes, DivMod, Zenon DEF Off
      <4>4. sent + Off(i) + 1 \in Nat BY <4>3, <1>3, Sizes
      <4>. QED BY <4>4, <3>1 DEF Sent, Cell
    <3>. QED BY <1>1, <3>1, <3>2
  <2>7. sent' \in Nat BY <1>1, <1>3
  <2>. QED BY <1>2, <2>4, <2>5, <2>6, <2>7 DEF IInv, TypeOK
<1>5. ReceivedIsStream' BY <1>2 DEF IInv, ReceivedIsStream, InOrder
<1>6. Taken' = Taken /\ Given' = Given /\ Connected' = Connected /\ Active' = Active
  BY <1>2 DEF Taken, Given, Connected, Active
<1>7. LocalInv'
  <2>1. Given \in Int /\ seen \in Nat /\ rsr \in Nat BY CountTypes DEF IInv
  <2>2. sent' - Given' = (sent + n) - Given BY <1>1, <1>6
  <2>3. pc = "low" => seen <= sent' - Given'
    <3>1. pc = "low" => seen <= sent - Given BY DEF IInv, LocalInv
    <3>2. pc = "low" => seen <= (sent + n) - Given BY <3>1, <2>1, <1>3, Longer, Zenon
    <3>. QED BY <2>2, <3>2, Zenon
  <2>4. pc = "read" => rsr <= sent' - Given'
    <3>1. pc = "read" => rsr <= sent - Given BY DEF IInv, LocalInv
    <3>2. pc = "read" => rsr <= (sent + n) - Given BY <3>1, <2>1, <1>3, Longer, Zenon
    <3>. QED BY <2>2, <3>2, Zenon
  <2>. QED BY <1>2, <2>3, <2>4 DEF IInv, LocalInv, Active
<1>8. WindowInv'
  <2> SUFFICES ASSUME Connected PROVE WindowInv' BY <1>6 DEF WindowInv
  <2>1. /\ conn = loads /\ 0 <= Given /\ Given <= Taken /\ Taken <= sent
        /\ wr = sent % PtrMod /\ taken = Given % PtrMod
        /\ rd = (IF pc = "recv" THEN Taken ELSE Given) % PtrMod
        /\ \A k \in 1 .. sent : k > Given => mem[(k - 1) % BufSize] = Sent(loads, k)
    BY DEF IInv, WindowInv
  <2>2. Received = sent - Given /\ Given \in Nat BY ReceivedIs DEF IInv
  <2>3. Taken <= sent' /\ sent' - Given <= BufSize
    <3>1. Taken \in Nat /\ Given \in Int BY CountTypes DEF IInv
    <3>2. Taken <= sent + n /\ (sent + n) - Given = Received + n
      BY <3>1, <1>3, <2>1, <2>2, Longer, ZenonT(40)
    <3>. QED BY <1>1, <1>3, <3>2, Zenon
  <2>4. wr' = sent' % PtrMod
    <3>1. ((sent % PtrMod) + n) % PtrMod = (sent + n) % PtrMod BY <1>3, Sizes, AddMod
    <3>. QED BY <1>1, <2>1, <3>1, Zenon
  <2>5. ASSUME NEW k \in 1 .. sent + n, k > Given
        PROVE  mem'[(k - 1) % BufSize] = Sent(loads, k)
    <3>1. /\ (k - 1) % BufSize \in 0 .. BufSize - 1
          /\ k > sent => Off((k - 1) % BufSize) = (k - 1) - sent /\ (k - 1) - sent < n
          /\ k <= sent => ~(Off((k - 1) % BufSize) < n)
      BY <2>5, OffIs
    <3>2. DOMAIN mem = 0 .. BufSize - 1 BY DEF IInv, TypeOK
    <3>3. CASE k > sent
      <4>1. mem'[(k - 1) % BufSize] = Sent(conn, sent + ((k - 1) - sent) + 1)
        BY <1>1, <3>1, <3>2, <3>3, Zenon
      <4>2. sent + ((k - 1) - sent) + 1 = k BY <1>3
      <4>. QED BY <2>1, <4>1, <4>2, Zenon
    <3>4. CASE k <= sent
      <4>1. mem'[(k - 1) % BufSize] = mem[(k - 1) % BufSize]
        BY <1>1, <3>1, <3>2, <3>4, Zenon
      <4>2. k \in 1 .. sent BY <1>3, <3>4
      <4>. QED BY <2>1, <2>5, <4>1, <4>2, Zenon
    <3>. QED BY <1>3, <3>3, <3>4
  <2>. QED BY <1>1, <1>2, <1>6, <2>1, <2>3, <2>4, <2>5 DEF WindowInv
<1>. QED BY <1>4, <1>5, <1>7, <1>8 DEF IInv

-----------------------------------------------------------------------------
LEMMA StepInv == IInv /\ [Next]_vars => IInv'
<1> SUFFICES ASSUME IInv, [Next]_vars PROVE IInv' OBVIOUS
<1>1. CASE Load
  BY <1>1, W5500InitInv, TcpOpenInv, ConnectPollInv, LengthDoneInv, ImageDoneInv,
     SizeHighInv, SizeLowInv, StatusInv, ReadChunkInv, WritePointerInv, RecvInv DEF Load
<1>2. CASE User BY <1>2, CommandInv
<1>3. CASE Peer BY <1>3, HandshakeInv, DeliverInv, ServerClosesInv DEF Peer
<1>4. CASE UNCHANGED vars
  <2> USE <1>4 DEF vars, driverVars, local, chipVars, pointers, serverVars
  <2>1. TypeOK' BY ZenonT(60) DEF IInv, TypeOK, Received
  <2>2. ReceivedIsStream' BY DEF IInv, ReceivedIsStream, InOrder
  <2>3. LocalInv' BY DEF IInv, LocalInv, Active, Given, Taken
  <2>4. WindowInv' BY DEF IInv, WindowInv, Connected, Active, Given, Taken
  <2>. QED BY <2>1, <2>2, <2>3, <2>4 DEF IInv
<1>. QED BY <1>1, <1>2, <1>3, <1>4 DEF Next

LEMMA Inductive == Spec => []IInv
  BY InitInv, StepInv, PTL DEF Spec

\* The registers and locals of the netboot command keep their types; in
\* particular the socket never holds more than its memory.
THEOREM TypeCorrect == Spec => []TypeOK
<1>1. IInv => TypeOK BY DEF IInv
<1>. QED BY <1>1, Inductive, PTL

\* Whatever the sizes are, and wherever the arrival of bytes falls between
\* the reads of w5500_tcp_recv, the command receives the stream of this
\* connection, in order, without gap, repetition or stale byte.
THEOREM StreamReceived == Spec => []ReceivedIsStream
<1>1. IInv => ReceivedIsStream BY DEF IInv
<1>. QED BY <1>1, Inductive, PTL
-----------------------------------------------------------------------------
(* How a load ends.                                                        *)

\* The length is that of this connection, for as long as it counts; the size
\* is read while something is missing; and what is known of a connection the
\* server has ended stays true, with nothing arriving between the two reads.
Ended == sr \in {"CLOSE_WAIT", "CLOSED"}
EndInv ==
    /\ part = "data" => len = lens[loads] /\ (Active \/ sr = "CLOSED")
    /\ pc \in {"low", "status", "check"} => got < goal
    /\ Active /\ Ended => (cut <=> sent < Total)
    /\ pc = "check" \/ (pc = "low" /\ again) => Ended
    /\ pc = "low" /\ again => seen = Received
    /\ result \in {"ok", "short"} => pc = "prompt" /\ sr = "CLOSED"
EInv == EndInv /\ ShortOnlyIfCut

\* A size of which both bytes are of the same count is that count.
LEMMA TornSame == \A r \in Nat : Torn(r, r) = r
<1> SUFFICES ASSUME NEW r \in Nat PROVE Torn(r, r) = r OBVIOUS
<1>1. r \in Int OBVIOUS
<1>2. r \div Byte \in Int /\ r % Byte \in 0 .. Byte - 1 /\ r = (Byte * (r \div Byte)) + (r % Byte)
  BY <1>1, Sizes, DivMod, Zenon
<1>3. \A a, b \in Int : a * b = b * a OBVIOUS
<1>4. Byte * (r \div Byte) = (r \div Byte) * Byte BY <1>2, <1>3, Sizes
<1>. QED BY <1>2, <1>4, Zenon DEF Torn

\* What is wanted of the image is what the server sends of it.
LEMMA GoalIsTotal ==
    ASSUME IInv, EndInv, Active, got < goal
    PROVE  Taken < Total
<1>1. conn = loads BY DEF IInv, WindowInv, Connected
<1>2. Len(lb) \in Nat /\ Len(dst) \in Nat /\ len \in Nat BY CountTypes DEF IInv
<1>3. lens[loads] \in Nat
  <2>1. loads \in 0 .. MaxLoads /\ lens \in [0 .. MaxLoads -> LengthRange] BY DEF IInv, TypeOK
  <2>. QED BY <2>1, LengthsAreNat
<1>4. CASE part = "length"
  <2>1. Len(lb) < HeaderLen /\ Len(dst) = 0 BY <1>4 DEF got, goal, buf, IInv, LocalInv
  <2>. QED BY <1>1, <1>2, <1>3, <2>1, Sizes DEF Taken, Total
<1>5. CASE part # "length"
  <2>1. part = "data" BY <1>5 DEF IInv, TypeOK
  <2>2. Len(lb) = HeaderLen /\ len = lens[loads] BY <2>1 DEF IInv, ReceivedIsStream, EndInv
  <2>3. Len(dst) < len BY <1>5 DEF got, goal, buf
  <2>. QED BY <1>1, <1>2, <1>3, <2>2, <2>3, Sizes DEF Taken, Total
<1>. QED BY <1>4, <1>5

LEMMA InitEnd == Init => EInv
  BY DEF Init, EInv, EndInv, ShortOnlyIfCut, Active

LEMMA CommandEnd == ASSUME IInv, EInv, User PROVE EInv'
  BY DEF User, Command, EInv, EndInv, ShortOnlyIfCut, Active, chipVars, pointers, serverVars

LEMMA W5500InitEnd == ASSUME IInv, EInv, W5500Init, UNCHANGED serverVars PROVE EInv'
<1>1. part = "length" BY DEF IInv, LocalInv, W5500Init
<1>. QED
  BY <1>1 DEF W5500Init, Return, EInv, EndInv, ShortOnlyIfCut, Active, local, serverVars

LEMMA TcpOpenEnd == ASSUME IInv, EInv, TcpOpen, UNCHANGED serverVars PROVE EInv'
<1>1. part = "length" BY DEF IInv, LocalInv, TcpOpen
<1>. QED
  BY <1>1 DEF TcpOpen, Return, EInv, EndInv, ShortOnlyIfCut, Active, local, pointers, serverVars

LEMMA ConnectPollEnd == ASSUME IInv, EInv, ConnectPoll, UNCHANGED serverVars PROVE EInv'
<1>1. part = "length" /\ (pc' = "loop" => sr = "ESTABLISHED")
  BY DEF IInv, LocalInv, ConnectPoll, Return
<1>. QED
  BY <1>1 DEF ConnectPoll, Return, EInv, EndInv, ShortOnlyIfCut, Active, Ended,
              chipVars, pointers, serverVars

LEMMA LengthDoneEnd == ASSUME IInv, EInv, LengthDone, UNCHANGED serverVars PROVE EInv'
<1> USE DEF LengthDone
<1>1. Len(lb) = HeaderLen BY DEF got, goal, buf
<1>2. len' = lens[loads] BY <1>1, DecodeIs DEF IInv
<1>3. Total' = Total BY DEF Total, serverVars
<1>. QED
  BY <1>2, <1>3 DEF EInv, EndInv, ShortOnlyIfCut, Active, Ended, chipVars, pointers, serverVars

LEMMA ImageDoneEnd == ASSUME IInv, EInv, ImageDone, UNCHANGED serverVars PROVE EInv'
<1> USE DEF ImageDone, Close, Return
<1>1. Len(dst) = lens[loads] BY DEF EInv, EndInv, got, goal, buf
<1>. QED
  BY <1>1 DEF EInv, EndInv, ShortOnlyIfCut, Active, local, pointers, serverVars

LEMMA SizeHighEnd == ASSUME IInv, EInv, SizeHigh, UNCHANGED serverVars PROVE EInv'
<1> USE DEF SizeHigh
<1>1. got < goal BY DEF EInv, EndInv
<1>2. got' = got /\ goal' = goal BY DEF got, goal, buf
<1>3. Total' = Total BY DEF Total, serverVars
<1>4. Received' = Received BY DEF Received, chipVars, pointers
<1>. QED
  BY <1>1, <1>2, <1>3, <1>4
     DEF EInv, EndInv, ShortOnlyIfCut, Active, Ended, chipVars, pointers, serverVars

LEMMA SizeLowEnd == ASSUME IInv, EInv, SizeLow, UNCHANGED serverVars PROVE EInv'
<1> USE DEF SizeLow, Close, Return
<1>1. got < goal BY DEF EInv, EndInv
<1>2. got' = got /\ goal' = goal BY DEF got, goal, buf
<1>3. Total' = Total BY DEF Total, serverVars
<1>4. ASSUME rsr' = 0, again
      PROVE  cut /\ Len(lb) + Len(dst) = sent
  <2>1. Ended /\ seen = Received /\ Active BY <1>4 DEF EInv, EndInv, Active
  <2>2. Received \in Nat /\ Received = sent - Given
    BY <2>1, ReceivedType, ReceivedIs DEF IInv, Connected
  <2>3. Received = 0 BY <1>4, <2>1, <2>2, TornSame
  <2>4. Given = Taken /\ Taken \in Nat /\ sent \in Nat BY CountTypes DEF Given, IInv
  <2>5. Taken = sent BY <2>2, <2>3, <2>4
  <2>6. Taken < Total BY <1>1, <2>1, GoalIsTotal DEF EInv
  <2>. QED BY <2>1, <2>5, <2>6 DEF EInv, EndInv, Taken
<1>. QED
  BY <1>1, <1>2, <1>3, <1>4
     DEF EInv, EndInv, ShortOnlyIfCut, Active, Ended, pointers, serverVars

LEMMA StatusEnd == ASSUME IInv, EInv, Status, UNCHANGED serverVars PROVE EInv'
<1> USE DEF Status
<1>1. got < goal BY DEF EInv, EndInv
<1>2. got' = got /\ goal' = goal BY DEF got, goal, buf, local
<1>3. Total' = Total BY DEF Total, serverVars
<1>. QED
  BY <1>1, <1>2, <1>3
     DEF EInv, EndInv, ShortOnlyIfCut, Active, Ended, local, chipVars, pointers, serverVars

LEMMA ReadChunkEnd == ASSUME IInv, EInv, ReadChunk, UNCHANGED serverVars PROVE EInv'
<1>1. Total' = Total BY DEF Total, serverVars
<1>. QED
  BY <1>1 DEF ReadChunk, EInv, EndInv, ShortOnlyIfCut, Active, Ended, chipVars, pointers, serverVars

LEMMA WritePointerEnd == ASSUME IInv, EInv, WritePointer, UNCHANGED serverVars PROVE EInv'
<1>1. Total' = Total BY DEF Total, serverVars
<1>. QED
  BY <1>1 DEF WritePointer, EInv, EndInv, ShortOnlyIfCut, Active, Ended, local, serverVars

LEMMA RecvEnd == ASSUME IInv, EInv, Recv, UNCHANGED serverVars PROVE EInv'
<1>1. Total' = Total BY DEF Total, serverVars
<1>. QED
  BY <1>1 DEF Recv, EInv, EndInv, ShortOnlyIfCut, Active, Ended, local, serverVars

LEMMA HandshakeEnd == ASSUME IInv, EInv, Handshake, UNCHANGED driverVars PROVE EInv'
<1>1. ~Active /\ part # "data" /\ result \notin {"ok", "short"}
  BY DEF IInv, LocalInv, EInv, EndInv, Handshake
<1>. QED
  BY <1>1 DEF EInv, EndInv, ShortOnlyIfCut, Active, driverVars, local

LEMMA DeliverEnd == ASSUME IInv, EInv, Deliver, UNCHANGED driverVars PROVE EInv'
<1>1. /\ sr = "ESTABLISHED" /\ sr' = sr /\ lens' = lens
      /\ result \notin {"ok", "short"} /\ pc # "check" /\ ~(pc = "low" /\ again)
  BY DEF EInv, EndInv, Ended, Deliver
<1>2. got' = got /\ goal' = goal BY DEF got, goal, buf, driverVars, local
<1>. QED
  BY <1>1, <1>2 DEF EInv, EndInv, ShortOnlyIfCut, Active, Ended, driverVars, local

LEMMA ServerClosesEnd == ASSUME IInv, EInv, ServerCloses, UNCHANGED driverVars PROVE EInv'
<1> USE DEF ServerCloses
<1>1. /\ sr = "ESTABLISHED"
      /\ result \notin {"ok", "short"} /\ pc # "check" /\ ~(pc = "low" /\ again)
  BY DEF EInv, EndInv, Ended
<1>2. got' = got /\ goal' = goal BY DEF got, goal, buf, driverVars, local
<1>3. Total' = Total /\ (cut' <=> sent' < Total) BY DEF Total
<1>. QED
  BY <1>1, <1>2, <1>3 DEF EInv, EndInv, ShortOnlyIfCut, Active, Ended, driverVars, local

LEMMA StepEnd == IInv /\ EInv /\ [Next]_vars => EInv'
<1> SUFFICES ASSUME IInv, EInv, [Next]_vars PROVE EInv' OBVIOUS
<1>1. CASE Load
  BY <1>1, W5500InitEnd, TcpOpenEnd, ConnectPollEnd, LengthDoneEnd, ImageDoneEnd,
     SizeHighEnd, SizeLowEnd, StatusEnd, ReadChunkEnd, WritePointerEnd, RecvEnd DEF Load
<1>2. CASE User BY <1>2, CommandEnd
<1>3. CASE Peer BY <1>3, HandshakeEnd, DeliverEnd, ServerClosesEnd DEF Peer
<1>4. CASE UNCHANGED vars
  <2> USE <1>4 DEF vars, driverVars, local, chipVars, pointers, serverVars
  <2>1. got' = got /\ goal' = goal /\ Received' = Received /\ Total' = Total
    BY DEF got, goal, buf, Received, Total
  <2>. QED BY <2>1 DEF EInv, EndInv, ShortOnlyIfCut, Active, Ended
<1>. QED BY <1>1, <1>2, <1>3, <1>4 DEF Next

\* However the connection ends: a load that reports the image has all the
\* bytes the length announces, and one that reports a short read has been cut
\* off by the server, with every byte it had sent read.
THEOREM ShortIsCut == Spec => []ShortOnlyIfCut
<1>1. EInv => ShortOnlyIfCut BY DEF EInv
<1>2. Init => IInv /\ EInv BY InitInv, InitEnd
<1>3. (IInv /\ EInv) /\ [Next]_vars => (IInv /\ EInv)' BY StepInv, StepEnd
<1>. QED BY <1>1, <1>2, <1>3, PTL DEF Spec
=============================================================================
