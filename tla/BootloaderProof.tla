--------------------------- MODULE BootloaderProof ---------------------------
(***************************************************************************)
(* The properties of Bootloader, for every set of disks and cards, every   *)
(* number of tries and commands, and every range the memory tests run on.  *)
(* First the commands that work on memory, which share no state with the   *)
(* rest; then the drivers; then fat16.c and the program above it.          *)
(***************************************************************************)
EXTENDS Bootloader, SequenceTheorems, TLAPS

Tests == {"mem8", "mem16", "mem32", "dtest"}
InTest == test.op \in Tests

ByteSets == SUBSET Int
TestRecord ==
    [op : Tests \cup {"none", "zero"}, first : Nat, cells : Nat, k : Nat, i : Nat,
     pass : {"write", "random", "read", "done", "panic"}, errors : 0 .. 1,
     cached : BOOLEAN, zeroed : ByteSets]

MemTyped ==
    /\ ram \in [Cells -> Values] /\ dcache \in [Cells -> Values \cup {Invalid}]
    /\ fault \in Faults \cup {NoFault} /\ dcache_on \in BOOLEAN
    /\ test \in TestRecord

\* Where a test or zero is.
Progress ==
    /\ test.op = "none" => test.pass = "done"
    /\ InTest => /\ test.first + test.cells <= 4
                 /\ test.pass \in {"write", "read"} => test.i <= test.cells
                 /\ test.pass = "random" => test.op = "dtest"
                 /\ test.k \in 1 .. IF test.op \in {"mem8", "mem16"} THEN 4 ELSE 1
    /\ test.op = "zero" =>
           \/ /\ test.pass = "write" /\ test.i + 4 * test.k = 4 * (test.cells \div 4)
              /\ test.zeroed = 0 .. test.i - 1
           \/ test.pass = "done" /\ test.zeroed = 0 .. test.cells - 1

\* What a memory without a fault holds during a test.
SoundMemory ==
    fault = NoFault /\ InTest =>
        /\ test.errors = 0
        /\ test.pass = "write" =>
               \A a \in test.first .. test.first + test.i - 1 : ram[a] = Target(a)
        /\ test.pass \in {"random", "read"} => \A a \in Cells : Tested(a) => ram[a] = Target(a)

\* The data cache is off, or it is on in the random reads of dtest only.
Uncached == test.cached => test.op = "dtest"
CacheOff == InTest /\ Uncached /\ test.pass \in {"write", "read"} => ~dcache_on

\* Without an error so far, a test that sees the fault has not come to the
\* value that shows it.
Compares ==
    InTest /\ Uncached /\ test.errors = 0 /\ test.pass = "read" =>
        \A a \in test.first .. test.first + test.i - 1 : Load(a) = Target(a)
Unnoticed ==
    InTest /\ Uncached /\ test.errors = 0 /\ Visible =>
        /\ test.pass # "done"
        /\ fault.kind = "stuck_high" => test.k <= 1
        /\ fault.kind = "joined" => test.k <= 2

MemInv ==
    /\ MemTyped /\ Progress /\ CacheCurrent /\ SoundMemory /\ CacheOff /\ Compares
    /\ Unnoticed

-----------------------------------------------------------------------------
\* A step of a test or of zero changes these fields only.
Changed(k, i, zeroed, pass, errors) ==
    [test EXCEPT !.k = k, !.i = i, !.zeroed = zeroed, !.pass = pass, !.errors = errors]

LEMMA RecordStep ==
    ASSUME test \in TestRecord, NEW k \in Nat, NEW i \in Nat, NEW zeroed \in ByteSets,
           NEW pass \in {"write", "random", "read", "done", "panic"}, NEW errors \in 0 .. 1,
           test' = Changed(k, i, zeroed, pass, errors)
    PROVE  /\ test' \in TestRecord
           /\ test'.op = test.op /\ test'.first = test.first /\ test'.cells = test.cells
           /\ test'.cached = test.cached
           /\ test'.k = k /\ test'.i = i /\ test'.zeroed = zeroed /\ test'.pass = pass
           /\ test'.errors = errors
BY DEF TestRecord, Changed

\* A load gives a value of the lines, and in sound memory the cell's.
LEMMA LoadTyped ==
    ASSUME fault \in Faults \cup {NoFault}, NEW mem \in [Cells -> Values], NEW a \in Cells
    PROVE  /\ Cell(a) \in Cells /\ LoadFrom(mem, a) \in Values
           /\ fault = NoFault => Cell(a) = a /\ LoadFrom(mem, a) = mem[a]
<1>1. Cell(a) \in Cells /\ (fault = NoFault => Cell(a) = a)
  BY DEF Cell, Faults, NoFault, Cells
<1>2. mem[Cell(a)] \in Values
  BY <1>1
<1>3. LoadFrom(mem, a) \in Values
  BY <1>2, SMT DEF LoadFrom, Values, Has, Faults, NoFault, Cells
<1>4. fault = NoFault => LoadFrom(mem, a) = mem[a]
  BY <1>1 DEF LoadFrom, NoFault
<1>. QED
  BY <1>1, <1>3, <1>4

\* A line that is stuck is read as it is stuck, joined lines as one.
LEMMA LoadFaulty ==
    ASSUME fault \in Faults \cup {NoFault}, NEW mem \in [Cells -> Values], NEW a \in Cells
    PROVE  /\ fault.kind = "stuck_low" /\ a = fault.at => LoadFrom(mem, a) # 3
           /\ fault.kind = "stuck_high" /\ a = fault.at => LoadFrom(mem, a) # 0
           /\ fault.kind = "joined" => LoadFrom(mem, a) # 2
<1>1. Cell(a) \in Cells
  BY LoadTyped
<1>2. mem[Cell(a)] \in Values
  BY <1>1
<1>. QED
  BY <1>2, SMT DEF LoadFrom, Values, Has, Faults, NoFault, Cells

LEMMA TargetTyped ==
    ASSUME MemTyped, Progress, InTest, NEW a \in Cells
    PROVE  Target(a) \in Values
<1>1. CASE test.op \in {"mem8", "mem16"}
  BY <1>1, SMT DEF Target, Targets, Values, Progress, MemTyped, TestRecord, InTest
<1>2. CASE test.op \notin {"mem8", "mem16"}
  BY <1>2 DEF Target, Values, Cells
<1>. QED
  BY <1>1, <1>2

\* A target is the same as long as the test and its value are.
LEMMA TargetSame ==
    ASSUME test'.op = test.op, test'.k = test.k
    PROVE  \A a : Target(a)' = Target(a)
BY DEF Target, Targets

-----------------------------------------------------------------------------
\* An entry that is taken, and one that is written through, are current.
LEMMA TakenCurrent ==
    ASSUME MemTyped, CacheCurrent, NEW a \in Cells
    PROVE  /\ Read(a) \in Values
           /\ Taken(a) \in [Cells -> Values \cup {Invalid}]
           /\ ~dcache_on => Read(a) = Load(a)
           /\ fault = NoFault => Read(a) = ram[a]
           /\ dcache_on /\ fault = NoFault =>
                  \A b \in Cells : Taken(a)[b] \in {Invalid, ram[b]}
<1>1. /\ Load(a) \in Values
      /\ fault = NoFault => Load(a) = ram[a]
  BY LoadTyped DEF MemTyped, Load
<1>2. Hit(a) => dcache[a] \in Values
  BY DEF Hit, MemTyped
<1>3. fault = NoFault /\ Hit(a) => dcache[a] = ram[a]
  BY DEF Hit, CacheCurrent
<1>4. /\ Read(a) \in Values
      /\ ~dcache_on => Read(a) = Load(a)
      /\ fault = NoFault => Read(a) = ram[a]
  BY <1>1, <1>2, <1>3 DEF Read, Hit
<1>. QED
  BY <1>4 DEF Taken, MemTyped, CacheCurrent

LEMMA WriteCurrent ==
    ASSUME MemTyped, CacheCurrent, NEW a \in Cells, NEW v \in Values, Write(a, v),
           UNCHANGED <<fault, dcache_on>>
    PROVE  /\ ram' \in [Cells -> Values]
           /\ dcache' \in [Cells -> Values \cup {Invalid}]
           /\ CacheCurrent'
           /\ fault = NoFault => ram' = [ram EXCEPT ![a] = v]
<1>1. Cell(a) \in Cells /\ (fault = NoFault => Cell(a) = a)
  BY LoadTyped DEF MemTyped
<1>2. /\ ram' \in [Cells -> Values]
      /\ dcache' \in [Cells -> Values \cup {Invalid}]
      /\ fault = NoFault => ram' = [ram EXCEPT ![a] = v]
  BY <1>1 DEF Write, MemTyped
<1>3. CacheCurrent'
  <2> SUFFICES ASSUME dcache_on, fault = NoFault, NEW b \in Cells
               PROVE  dcache'[b] \in {Invalid, ram'[b]}
    BY DEF CacheCurrent
  <2>1. CASE b = a
    BY <2>1, <1>2 DEF Write, Hit, MemTyped
  <2>2. CASE b # a
    BY <2>2, <1>2 DEF Write, Hit, MemTyped, CacheCurrent
  <2>. QED
    BY <2>1, <2>2
<1>. QED
  BY <1>2, <1>3

LEMMA CacrCurrent ==
    ASSUME MemTyped, CacheCurrent, NEW on \in BOOLEAN, NEW clear \in BOOLEAN,
           SetCacr(on, clear), on => dcache_on \/ clear, UNCHANGED <<ram, fault>>
    PROVE  /\ dcache_on' \in BOOLEAN
           /\ dcache' \in [Cells -> Values \cup {Invalid}]
           /\ CacheCurrent'
<1>1. CASE clear
  BY <1>1 DEF SetCacr, MemTyped, CacheCurrent
<1>2. CASE ~clear
  BY <1>2 DEF SetCacr, MemTyped, CacheCurrent
<1>. QED
  BY <1>1, <1>2

\* Between two commands memory may change as it likes.
LEMMA BetweenTests ==
    ASSUME MemInv, test.pass \in {"done", "panic"}, UNCHANGED <<test, fault>>
    PROVE  /\ Progress' /\ SoundMemory' /\ CacheOff' /\ Compares' /\ Unnoticed'
           /\ test' \in TestRecord
BY DEF MemInv, MemTyped, Progress, InTest, SoundMemory, CacheOff, Compares, Unnoticed, Uncached,
       Visible, Tested

LEMMA PeekKeeps ==
    ASSUME MemInv, test.pass = "done", Peek
    PROVE  MemInv'
<1>1. PICK a \in Cells : dcache' = Taken(a) /\ UNCHANGED <<ram, fault, dcache_on, test>>
  BY DEF Peek
<1>2. MemTyped /\ CacheCurrent
  BY DEF MemInv
<1>3. /\ Progress' /\ SoundMemory' /\ CacheOff' /\ Compares' /\ Unnoticed'
  BY <1>1, BetweenTests
<1>4. MemTyped' /\ CacheCurrent'
  BY <1>1, <1>2, TakenCurrent DEF MemTyped, CacheCurrent
<1>. QED
  BY <1>3, <1>4 DEF MemInv

LEMMA PokeKeeps ==
    ASSUME MemInv, test.pass = "done", Poke
    PROVE  MemInv'
<1>1. PICK a \in Cells, v \in {0, 2} : Write(a, v) /\ UNCHANGED <<fault, dcache_on, test>>
  BY DEF Poke
<1>2. MemTyped /\ CacheCurrent /\ v \in Values
  BY DEF MemInv, Values
<1>3. /\ Progress' /\ SoundMemory' /\ CacheOff' /\ Compares' /\ Unnoticed'
  BY <1>1, BetweenTests
<1>4. MemTyped' /\ CacheCurrent'
  BY <1>1, <1>2, WriteCurrent DEF MemTyped
<1>. QED
  BY <1>3, <1>4 DEF MemInv

LEMMA CacheCommandsKeep ==
    ASSUME MemInv, test.pass = "done", Cache \/ Cinv
    PROVE  MemInv'
<1>1. UNCHANGED <<ram, fault, test>> /\ MemTyped /\ CacheCurrent
  BY DEF Cache, Cinv, MemInv
<1>2. \E on, clear \in BOOLEAN : SetCacr(on, clear) /\ (on => dcache_on \/ clear)
  BY <1>1 DEF Cache, CacheModes, Cinv, MemTyped
<1>3. /\ Progress' /\ SoundMemory' /\ CacheOff' /\ Compares' /\ Unnoticed'
  BY <1>1, BetweenTests
<1>4. MemTyped' /\ CacheCurrent'
  BY <1>1, <1>2, CacrCurrent DEF MemTyped
<1>. QED
  BY <1>3, <1>4 DEF MemInv

LEMMA StartTestKeeps ==
    ASSUME MemInv, NEW op \in Tests, StartTest(op)
    PROVE  MemInv'
<1>1. PICK r \in Ranges :
          test' = [NoTest EXCEPT !.op = op, !.first = r[1], !.cells = r[2],
                                 !.pass = "write", !.cached = dcache_on]
  BY DEF StartTest
<1>2. r \in Nat \X Nat /\ r[1] + r[2] <= 4
  BY MemoryAssumption
<1>3. MemTyped /\ CacheCurrent /\ UNCHANGED <<ram, fault>>
  BY DEF MemInv, StartTest
<1>4. CacheCurrent' /\ dcache_on' \in BOOLEAN /\ dcache' \in [Cells -> Values \cup {Invalid}]
  <2>1. CASE op = "dtest"
    BY <2>1, <1>3, CacrCurrent DEF StartTest
  <2>2. CASE op # "dtest"
    BY <2>2, <1>3 DEF StartTest, CacheCurrent, MemTyped
  <2>. QED
    BY <2>1, <2>2
<1>a. dcache_on \in BOOLEAN /\ {} \in ByteSets
  BY <1>3 DEF MemTyped, ByteSets
<1>b. test' \in TestRecord
  <2>1. test' = [op |-> op, first |-> r[1], cells |-> r[2], k |-> 1, i |-> 0,
                 pass |-> "write", errors |-> 0, cached |-> dcache_on, zeroed |-> {}]
    BY <1>1 DEF NoTest
  <2>. QED
    BY <2>1, <1>2, <1>a DEF TestRecord, Tests
<1>5. MemTyped'
  BY <1>b, <1>3, <1>4 DEF MemTyped
<1>6. Progress' /\ SoundMemory' /\ Compares' /\ Unnoticed'
  BY <1>1, <1>2, <1>3 DEF Progress, SoundMemory, Compares, Unnoticed, InTest, NoTest, Tests
<1>7. CacheOff'
  BY <1>1 DEF CacheOff, StartTest, SetCacr, NoTest, InTest, Uncached
<1>. QED
  BY <1>4, <1>5, <1>6, <1>7 DEF MemInv

LEMMA StartZeroKeeps ==
    ASSUME MemInv, StartZero
    PROVE  MemInv'
<1>1. PICK bytes \in ZeroSizes :
           test' = [NoTest EXCEPT !.op = "zero", !.cells = bytes, !.k = bytes \div 4,
                                  !.pass = "write"]
  BY DEF StartZero
<1>2. bytes \in Nat /\ bytes \div 4 \in Nat
  BY MemoryAssumption
<1>3. UNCHANGED <<ram, fault, dcache_on, dcache>>
  BY DEF StartZero
<1>a. {} \in ByteSets
  BY DEF ByteSets
<1>b. test' \in TestRecord
  <2>1. test' = [op |-> "zero", first |-> 0, cells |-> bytes, k |-> bytes \div 4, i |-> 0,
                 pass |-> "write", errors |-> 0, cached |-> FALSE, zeroed |-> {}]
    BY <1>1 DEF NoTest
  <2>. QED
    BY <2>1, <1>2, <1>a DEF TestRecord
<1>4. MemTyped'
  BY <1>b, <1>3 DEF MemTyped, MemInv
<1>5. Progress'
  BY <1>1, <1>2 DEF Progress, NoTest, InTest, Tests
<1>6. CacheCurrent' /\ SoundMemory' /\ CacheOff' /\ Compares' /\ Unnoticed'
  BY <1>1, <1>3 DEF MemInv, CacheCurrent, SoundMemory, CacheOff, Compares, Unnoticed, InTest,
                    Tests, NoTest
<1>. QED
  BY <1>4, <1>5, <1>6 DEF MemInv

\* The bytes that are cleared stay one piece, from the first.
LEMMA ZeroKeeps ==
    ASSUME MemInv, Zero
    PROVE  MemInv'
<1>1. /\ test.op = "zero" /\ test.pass = "write" /\ UNCHANGED <<ram, fault, dcache_on, dcache>>
      /\ test.i + 4 * test.k = 4 * (test.cells \div 4)
      /\ test.zeroed = 0 .. test.i - 1
      /\ test.i \in Nat /\ test.k \in Nat /\ test.cells \in Nat
      /\ test \in TestRecord /\ test.errors \in 0 .. 1 /\ MemTyped
  BY DEF Zero, MemInv, Progress, MemTyped, TestRecord
<1>2. MemTyped' /\ Progress' /\ test'.op = "zero"
  <2>1. ASSUME NEW n \in {1, 8}, n <= test.k, ZeroWords(n)
        PROVE  MemTyped' /\ Progress' /\ test'.op = "zero"
    <3> DEFINE end == test.i + 4 * n
    <3>a. n \in Nat /\ n <= test.k
      BY <2>1
    <3>1. /\ test.k - n \in Nat /\ end \in Nat
          /\ test.zeroed \cup test.i .. end - 1 = 0 .. end - 1
          /\ end + 4 * (test.k - n) = 4 * (test.cells \div 4)
      <4>1. test.k - n \in Nat /\ end \in Nat /\ test.i <= end
        <5>1. test.k - n \in Nat
          BY <3>a, <1>1
        <5>2. end \in Nat /\ test.i <= end
          BY <3>a, <1>1
        <5>. QED BY <5>1, <5>2
      <4>2. test.zeroed \cup test.i .. end - 1 = 0 .. end - 1
        BY <4>1, <1>1, SMTT(40)
      <4>3. end + 4 * (test.k - n) = test.i + 4 * test.k
        BY <3>a, <1>1, SMTT(40)
      <4>4. end + 4 * (test.k - n) = 4 * (test.cells \div 4)
        BY <4>3, <1>1
      <4>. QED
        BY <4>1, <4>2, <4>4
    <3>2. (0 .. end - 1) \in ByteSets
      BY <1>1, <3>1 DEF ByteSets
    <3>3. test' = Changed(test.k - n, end, (0 .. end - 1), "write", test.errors)
      <4>1. test' = [test EXCEPT !.k = @ - n, !.i = @ + 4 * n,
                          !.zeroed = @ \cup test.i .. test.i + 4 * n - 1]
        BY <2>1 DEF ZeroWords
      <4>0. test.zeroed \cup test.i .. test.i + 4 * n - 1 = 0 .. end - 1
        <5>1. test.i + 4 * n - 1 = end - 1
          BY <3>a, <1>1
        <5>. QED
          BY <5>1, <3>1, Zenon
      <4>2. test' = [test EXCEPT !.k = test.k - n, !.i = end, !.zeroed = 0 .. end - 1]
        BY <4>1, <4>0, Zenon
      <4>. QED
        BY <4>2, <1>1 DEF TestRecord, Changed
    <3> DEFINE cleared == 0 .. end - 1
    <3>. HIDE DEF end, cleared
    <3>4. test' \in TestRecord /\ test'.op = "zero"
      BY <1>1, <3>1, <3>2, <3>3, RecordStep
    <3>5. /\ test'.k = test.k - n /\ test'.i = end /\ test'.cells = test.cells
          /\ test'.pass = "write" /\ test'.zeroed = (0 .. end - 1)
      <4>1. cleared \in ByteSets /\ test' = Changed(test.k - n, end, cleared, "write", test.errors)
        BY <3>2, <3>3 DEF cleared
      <4>2. /\ test'.k = test.k - n /\ test'.i = end /\ test'.cells = test.cells
            /\ test'.pass = "write" /\ test'.zeroed = cleared
        <5>1. test.k - n \in Nat /\ end \in Nat /\ test \in TestRecord /\ test.errors \in 0 .. 1
          BY <1>1, <3>1
        <5>. QED
          BY <5>1, <4>1, RecordStep
      <4>. QED
        BY <4>2 DEF cleared
    <3>6. /\ test'.i + 4 * test'.k = 4 * (test'.cells \div 4)
          /\ test'.zeroed = 0 .. test'.i - 1
      BY <3>1, <3>5
    <3>7. Progress'
      BY <3>4, <3>5, <3>6 DEF Progress, InTest, Tests
    <3>. QED
      BY <3>4, <3>7, <1>1 DEF MemTyped
  <2>2. CASE test.k # 0
    BY <2>1, <2>2, <1>1 DEF Zero, Unrolled
  <2>3. CASE test.k = 0
    <3>1. /\ 4 * (test.cells \div 4) = test.i /\ test.i <= test.cells
          /\ test.zeroed \cup test.i .. test.cells - 1 = 0 .. test.cells - 1
      BY <2>3, <1>1
    <3>2. (0 .. test.cells - 1) \in ByteSets
      BY <1>1, <3>1 DEF ByteSets
    <3>3. test' = Changed(0, test.i, (0 .. test.cells - 1), "done", test.errors)
      <4>1. test' = [test EXCEPT !.pass = "done",
                         !.zeroed = test.zeroed \cup 4 * (test.cells \div 4) .. test.cells - 1]
        BY <2>3, <1>1 DEF Zero, Unrolled
      <4>. QED
        BY <4>1, <2>3, <1>1, <3>1 DEF TestRecord, Changed
    <3>4. test' \in TestRecord /\ test'.op = "zero"
      BY <1>1, <3>1, <3>2, <3>3, RecordStep
    <3> DEFINE cleared == 0 .. test.cells - 1
    <3>. HIDE DEF cleared
    <3>5. /\ test'.k = 0 /\ test'.i = test.i /\ test'.cells = test.cells
          /\ test'.pass = "done" /\ test'.zeroed = (0 .. test.cells - 1)
      <4>1. cleared \in ByteSets /\ test' = Changed(0, test.i, cleared, "done", test.errors)
        BY <3>2, <3>3 DEF cleared
      <4>2. /\ test'.k = 0 /\ test'.i = test.i /\ test'.cells = test.cells
            /\ test'.pass = "done" /\ test'.zeroed = cleared
        BY <1>1, <3>1, <4>1, RecordStep
      <4>. QED
        BY <4>2 DEF cleared
    <3>6. Progress'
      BY <1>1, <3>1, <3>4, <3>5 DEF Progress, InTest, Tests
    <3>. QED
      BY <3>4, <3>6, <1>1 DEF MemTyped
  <2>. QED
    BY <1>1, <2>1, <2>2, <2>3
<1>3. CacheCurrent' /\ SoundMemory' /\ CacheOff' /\ Compares' /\ Unnoticed'
  BY <1>1, <1>2 DEF MemInv, CacheCurrent, SoundMemory, CacheOff, Compares, Unnoticed, InTest,
                    Tests
<1>. QED
  BY <1>2, <1>3 DEF MemInv

-----------------------------------------------------------------------------
\* What a step of a test leaves as it was, and where it is.
LEMMA InTestFacts ==
    ASSUME MemInv, test.op # "zero", test.pass \in {"write", "random", "read"}
    PROVE  /\ InTest /\ test \in TestRecord
           /\ test.first \in Nat /\ test.cells \in Nat /\ test.i \in Nat /\ test.k \in 1 .. 4
           /\ test.errors \in 0 .. 1 /\ test.zeroed \in ByteSets
           /\ test.pass \in {"write", "read"} => test.i <= test.cells
           /\ \A a \in test.first .. test.first + test.cells - 1 : a \in Cells
BY DEF MemInv, MemTyped, TestRecord, Progress, InTest, Tests, Cells

\* The next cell: write and read.
LEMMA HereTyped ==
    ASSUME MemInv, test.op # "zero", test.pass \in {"write", "read"}, ~Through
    PROVE  /\ Here \in Cells /\ Here = test.first + test.i /\ test.i + 1 <= test.cells
           /\ Target(Here) \in Values
           /\ Tested(Here)
<1>1. /\ Here \in Cells /\ Here = test.first + test.i /\ test.i + 1 <= test.cells
      /\ Tested(Here) /\ InTest
  BY InTestFacts DEF Here, Through, Tested
<1>. QED
  BY <1>1, TargetTyped DEF MemInv

LEMMA StepRecord ==
    ASSUME MemInv, test.op # "zero", test.pass \in {"write", "random", "read"},
           NEW errors \in 0 .. 1, test' = [Step EXCEPT !.errors = errors]
    PROVE  /\ test' \in TestRecord /\ InTest'
           /\ test'.op = test.op /\ test'.first = test.first /\ test'.cells = test.cells
           /\ test'.cached = test.cached /\ test'.k = test.k /\ test'.pass = test.pass
           /\ test'.i = test.i + 1 /\ test'.errors = errors
<1>1. /\ InTest /\ test \in TestRecord /\ test.i \in Nat /\ test.i + 1 \in Nat
      /\ test.zeroed \in ByteSets /\ test.k \in Nat
  BY InTestFacts
<1>2. test' = Changed(test.k, test.i + 1, test.zeroed, test.pass, errors)
  BY <1>1 DEF Step, TestRecord, Changed
<1>3. test.pass \in {"write", "random", "read", "done", "panic"}
  OBVIOUS
<1>. QED
  BY <1>1, <1>2, <1>3, RecordStep DEF InTest

\* A cell has been written with its target, and the test goes on.
LEMMA WrittenKeeps ==
    ASSUME MemInv, Testing("write"), ~Through, UNCHANGED <<fault, dcache_on>>,
           test' = Step,
           ram' \in [Cells -> Values], dcache' \in [Cells -> Values \cup {Invalid}],
           CacheCurrent', fault = NoFault => ram' = [ram EXCEPT ![Here] = Target(Here)]
    PROVE  MemInv'
<1>1. test.op # "zero" /\ test.pass = "write"
  BY DEF Testing
<1>2. /\ InTest /\ test \in TestRecord
      /\ test.first \in Nat /\ test.cells \in Nat /\ test.i \in Nat
      /\ test.errors \in 0 .. 1
  BY <1>1, InTestFacts
<1>3. test' = [Step EXCEPT !.errors = test.errors]
  BY <1>2 DEF Step, TestRecord
<1>4. /\ test' \in TestRecord /\ InTest'
      /\ test'.op = test.op /\ test'.first = test.first /\ test'.cells = test.cells
      /\ test'.cached = test.cached /\ test'.k = test.k /\ test'.pass = "write"
      /\ test'.i = test.i + 1 /\ test'.errors = test.errors
  BY <1>1, <1>2, <1>3, StepRecord
<1>5. /\ Here \in Cells /\ Here = test.first + test.i /\ test.i + 1 <= test.cells
  BY <1>1, HereTyped
<1>6. MemTyped'
  BY <1>4 DEF MemInv, MemTyped
<1>7. Progress'
  BY <1>2, <1>4, <1>5, <1>1 DEF MemInv, Progress, InTest, Tests
<1>8. SoundMemory'
  <2> SUFFICES ASSUME fault = NoFault
               PROVE  /\ test'.errors = 0
                      /\ \A a \in test.first .. test.first + test.i :
                             ram'[a] = Target(a)'
    BY <1>2, <1>4 DEF SoundMemory
  <2>1. test.errors = 0 /\ \A a \in test.first .. test.first + test.i - 1 : ram[a] = Target(a)
    BY <1>1, <1>2 DEF MemInv, SoundMemory
  <2>2. ram' = [ram EXCEPT ![Here] = Target(Here)] /\ ram \in [Cells -> Values]
    BY DEF MemInv, MemTyped
  <2>3. \A a : Target(a)' = Target(a)
    BY <1>4, TargetSame
  <2>4. \A a \in test.first .. test.first + test.i : a \in Cells
    BY <1>1, <1>2, <1>5, InTestFacts
  <2>. QED
    BY <2>1, <2>2, <2>3, <2>4, <1>2, <1>4, <1>5
<1>9. CacheOff' /\ Compares' /\ Unnoticed'
  BY <1>1, <1>2, <1>4 DEF MemInv, CacheOff, Compares, Unnoticed, Uncached, Visible, Tested
<1>. QED
  BY <1>6, <1>7, <1>8, <1>9 DEF MemInv

LEMMA WriteCellKeeps ==
    ASSUME MemInv, WriteCell
    PROVE  MemInv'
<1>1. /\ Testing("write") /\ ~Through /\ Write(Here, Target(Here)) /\ test' = Step
      /\ UNCHANGED <<fault, dcache_on>> /\ MemTyped /\ CacheCurrent
  BY DEF WriteCell, MemInv
<1>2. Here \in Cells /\ Target(Here) \in Values
  BY <1>1, HereTyped DEF Testing
<1>3. /\ ram' \in [Cells -> Values] /\ dcache' \in [Cells -> Values \cup {Invalid}]
      /\ CacheCurrent' /\ (fault = NoFault => ram' = [ram EXCEPT ![Here] = Target(Here)])
  BY <1>1, <1>2, WriteCurrent
<1>. QED
  BY <1>1, <1>3, WrittenKeeps

LEMMA WriteAndLookKeeps ==
    ASSUME MemInv, test.op = "mem32", WriteAndLook
    PROVE  MemInv'
<1>1. /\ Testing("write") /\ ~Through /\ test' = Step
      /\ UNCHANGED <<fault, dcache_on>> /\ MemTyped /\ CacheCurrent
  BY DEF WriteAndLook, MemInv
<1>2. Here \in Cells /\ Target(Here) = Here /\ Here \in Values
  BY <1>1, HereTyped DEF Testing, Target, Cells, Values
<1>3. Cell(Here) \in Cells /\ (fault = NoFault => Cell(Here) = Here)
  BY <1>1, <1>2, LoadTyped DEF MemTyped
<1>4. ram' \in [Cells -> Values] /\ (fault = NoFault => ram' = [ram EXCEPT ![Here] = Here])
  BY <1>1, <1>2, <1>3 DEF WriteAndLook, MemTyped
<1>5. LoadFrom(ram', Here) \in Values /\ (fault = NoFault => LoadFrom(ram', Here) = Here)
  BY <1>1, <1>2, <1>4, LoadTyped DEF MemTyped
<1>6. \E v \in Values : /\ dcache' = IF dcache_on THEN [dcache EXCEPT ![Here] = v] ELSE dcache
                        /\ fault = NoFault => v = Here
  BY <1>2, <1>5 DEF WriteAndLook
<1>7. dcache' \in [Cells -> Values \cup {Invalid}]
  BY <1>1, <1>2, <1>6 DEF MemTyped
<1>8. CacheCurrent'
  <2> SUFFICES ASSUME dcache_on, fault = NoFault, NEW b \in Cells
               PROVE  dcache'[b] \in {Invalid, ram'[b]}
    BY <1>1 DEF CacheCurrent
  <2>1. dcache' = [dcache EXCEPT ![Here] = Here] /\ ram' = [ram EXCEPT ![Here] = Here]
    BY <1>4, <1>6
  <2>2. dcache[b] \in {Invalid, ram[b]}
    BY <1>1 DEF CacheCurrent
  <2>. QED
    BY <2>1, <2>2, <1>1 DEF MemTyped
<1>. QED
  BY <1>1, <1>2, <1>4, <1>7, <1>8, WrittenKeeps

LEMMA AllWrittenKeeps ==
    ASSUME MemInv, AllWritten
    PROVE  MemInv'
<1>1. /\ test.op # "zero" /\ test.pass = "write" /\ test.i = test.cells
      /\ UNCHANGED <<ram, fault>> /\ MemTyped /\ CacheCurrent
  BY DEF AllWritten, Testing, Through, MemInv
<1>2. /\ InTest /\ test \in TestRecord /\ test.first \in Nat /\ test.cells \in Nat
      /\ test.i \in Nat /\ test.k \in Nat /\ test.errors \in 0 .. 1 /\ test.zeroed \in ByteSets
  BY <1>1, InTestFacts
<1>3. PICK pass \in {"random", "read", "panic"} :
          /\ test' = [test EXCEPT !.i = 0, !.pass = pass]
          /\ IF pass = "read" THEN test.op # "dtest" /\ UNCHANGED <<dcache_on, dcache>>
             ELSE test.op = "dtest" /\ SetCacr(TRUE, TRUE)
  BY DEF AllWritten
<1>4. test' = Changed(test.k, 0, test.zeroed, pass, test.errors)
  BY <1>2, <1>3 DEF TestRecord, Changed
<1>5. /\ test' \in TestRecord /\ InTest'
      /\ test'.op = test.op /\ test'.first = test.first /\ test'.cells = test.cells
      /\ test'.cached = test.cached /\ test'.k = test.k /\ test'.i = 0
      /\ test'.pass = pass /\ test'.errors = test.errors
  <2>1. pass \in {"write", "random", "read", "done", "panic"}
    OBVIOUS
  <2>. QED
    BY <1>2, <1>4, <2>1, RecordStep DEF InTest
<1>6. CacheCurrent' /\ dcache_on' \in BOOLEAN /\ dcache' \in [Cells -> Values \cup {Invalid}]
  <2>1. CASE pass = "read"
    BY <2>1, <1>1, <1>3 DEF CacheCurrent, MemTyped
  <2>2. CASE pass # "read"
    BY <2>2, <1>1, <1>3, CacrCurrent
  <2>. QED
    BY <2>1, <2>2
<1>7. MemTyped'
  BY <1>1, <1>5, <1>6 DEF MemTyped
<1>8. Progress'
  <2>1. /\ test.first + test.cells <= 4
        /\ test.k \in 1 .. IF test.op \in {"mem8", "mem16"} THEN 4 ELSE 1
    BY <1>2 DEF MemInv, Progress
  <2>2. pass = "random" => test.op = "dtest"
    BY <1>3
  <2>. QED
    BY <2>1, <2>2, <1>2, <1>5 DEF Progress, InTest, Tests
<1>9. SoundMemory'
  <2>1. \A a : Target(a)' = Target(a)
    BY <1>5, TargetSame
  <2>. QED
    BY <2>1, <1>1, <1>2, <1>5 DEF MemInv, SoundMemory, Tested
<1>10. CacheOff' /\ Compares' /\ Unnoticed'
  <2>1. CacheOff'
    BY <1>1, <1>2, <1>3, <1>5 DEF MemInv, CacheOff, Uncached
  <2>2. Compares'
    BY <1>5, <1>2 DEF Compares
  <2>3. Unnoticed'
    BY <1>1, <1>2, <1>5 DEF MemInv, Unnoticed, Uncached, Visible, Tested
  <2>. QED
    BY <2>1, <2>2, <2>3
<1>. QED
  BY <1>6, <1>7, <1>8, <1>9, <1>10 DEF MemInv

-----------------------------------------------------------------------------
\* A cell has been read and compared, at random or in turn.
LEMMA ComparedKeeps ==
    ASSUME MemInv, test.op # "zero", test.pass \in {"random", "read"},
           UNCHANGED <<ram, fault, dcache_on>>,
           NEW a \in Cells, Tested(a), dcache' = Taken(a), test' = Compared(a, Step),
           test.pass = "read" => ~Through /\ a = Here
    PROVE  MemInv'
<1>1. /\ InTest /\ test \in TestRecord /\ test.first \in Nat /\ test.cells \in Nat
      /\ test.i \in Nat /\ test.errors \in 0 .. 1
      /\ MemTyped /\ CacheCurrent
  BY InTestFacts DEF MemInv
<1>2. PICK errors \in 0 .. 1 :
          errors = IF Read(a) # Target(a) THEN 1 ELSE test.errors
  BY <1>1
<1>3. test' = [Step EXCEPT !.errors = errors]
  BY <1>1, <1>2 DEF Compared, Step, TestRecord
<1>4. /\ test' \in TestRecord /\ InTest'
      /\ test'.op = test.op /\ test'.first = test.first /\ test'.cells = test.cells
      /\ test'.cached = test.cached /\ test'.k = test.k /\ test'.pass = test.pass
      /\ test'.i = test.i + 1 /\ test'.errors = errors
  BY <1>3, StepRecord
<1>5. /\ dcache' \in [Cells -> Values \cup {Invalid}]
      /\ ~dcache_on => Read(a) = Load(a)
      /\ fault = NoFault => Read(a) = ram[a]
      /\ CacheCurrent'
  BY <1>1, TakenCurrent DEF CacheCurrent
<1>6. MemTyped'
  BY <1>1, <1>4, <1>5 DEF MemTyped
<1>7. Progress'
  <2>1. test.pass = "read" => test.i + 1 <= test.cells
    BY HereTyped
  <2>2. /\ test.first + test.cells <= 4
        /\ test.pass = "random" => test.op = "dtest"
        /\ test.k \in 1 .. IF test.op \in {"mem8", "mem16"} THEN 4 ELSE 1
    BY <1>1 DEF MemInv, Progress
  <2>. QED
    BY <2>1, <2>2, <1>1, <1>4 DEF Progress, InTest, Tests
<1>8. \A b : Target(b)' = Target(b)
  BY <1>4, TargetSame
<1>9. SoundMemory'
  <2> SUFFICES ASSUME fault = NoFault
               PROVE  /\ test'.errors = 0
                      /\ \A b \in Cells : Tested(b) => ram[b] = Target(b)
    BY <1>1, <1>4, <1>8 DEF SoundMemory, Tested
  <2>1. test.errors = 0 /\ \A b \in Cells : Tested(b) => ram[b] = Target(b)
    BY <1>1 DEF MemInv, SoundMemory
  <2>. QED
    BY <2>1, <1>2, <1>4, <1>5
<1>10. CacheOff' /\ Unnoticed'
  BY <1>1, <1>2, <1>4 DEF MemInv, CacheOff, Unnoticed, Uncached, Visible, Tested
<1>11. Compares'
  <2> SUFFICES ASSUME Uncached, errors = 0, test.pass = "read",
                      NEW b \in test.first .. test.first + test.i
               PROVE  Load(b) = Target(b)
    BY <1>1, <1>4, <1>8 DEF Compares, Uncached, Load, LoadFrom, Cell
  <2>1. ~dcache_on /\ Read(a) = Target(a) /\ test.errors = 0
    BY <1>1, <1>2 DEF MemInv, CacheOff
  <2>2. Load(a) = Target(a) /\ a = test.first + test.i
    BY <2>1, <1>5, HereTyped
  <2>3. \A c \in test.first .. test.first + test.i - 1 : Load(c) = Target(c)
    BY <2>1, <1>1 DEF MemInv, Compares
  <2>. QED
    BY <2>2, <2>3, <1>1
<1>. QED
  BY <1>5, <1>6, <1>7, <1>9, <1>10, <1>11 DEF MemInv

LEMMA RandomReadKeeps ==
    ASSUME MemInv, RandomRead
    PROVE  MemInv'
<1>1. /\ test.op # "zero" /\ test.pass = "random" /\ UNCHANGED <<ram, fault, dcache_on>>
  BY DEF RandomRead, Testing
<1>2. PICK a \in test.first .. test.first + test.cells - 1 :
          dcache' = Taken(a) /\ test' = Compared(a, Step)
  BY DEF RandomRead
<1>3. a \in Cells /\ Tested(a)
  BY <1>1, <1>2, InTestFacts DEF Tested
<1>. QED
  BY <1>1, <1>2, <1>3, ComparedKeeps

LEMMA ReadCellKeeps ==
    ASSUME MemInv, ReadCell
    PROVE  MemInv'
<1>1. /\ test.op # "zero" /\ test.pass = "read" /\ ~Through
      /\ UNCHANGED <<ram, fault, dcache_on>>
      /\ dcache' = Taken(Here) /\ test' = Compared(Here, Step)
  BY DEF ReadCell, Testing
<1>2. Here \in Cells /\ Tested(Here)
  BY <1>1, HereTyped
<1>. QED
  BY <1>1, <1>2, ComparedKeeps

LEMMA RandomDoneKeeps ==
    ASSUME MemInv, RandomDone
    PROVE  MemInv'
<1>1. /\ test.op # "zero" /\ test.pass = "random" /\ SetCacr(FALSE, FALSE)
      /\ test' = [test EXCEPT !.i = 0, !.pass = "read"] /\ UNCHANGED <<ram, fault>>
      /\ MemTyped /\ CacheCurrent
  BY DEF RandomDone, Testing, MemInv
<1>2. /\ InTest /\ test \in TestRecord /\ test.first \in Nat /\ test.cells \in Nat
      /\ test.k \in Nat /\ test.errors \in 0 .. 1 /\ test.zeroed \in ByteSets
  BY <1>1, InTestFacts
<1>3. test' = Changed(test.k, 0, test.zeroed, "read", test.errors)
  BY <1>1, <1>2 DEF TestRecord, Changed
<1>4. /\ test' \in TestRecord /\ InTest'
      /\ test'.op = test.op /\ test'.first = test.first /\ test'.cells = test.cells
      /\ test'.cached = test.cached /\ test'.k = test.k /\ test'.i = 0
      /\ test'.pass = "read" /\ test'.errors = test.errors
  BY <1>2, <1>3, RecordStep DEF InTest
<1>5. CacheCurrent' /\ dcache_on' = FALSE /\ dcache' \in [Cells -> Values \cup {Invalid}]
  BY <1>1, CacrCurrent DEF SetCacr
<1>6. MemTyped'
  BY <1>1, <1>4, <1>5 DEF MemTyped
<1>7. Progress'
  <2>1. /\ test.first + test.cells <= 4
        /\ test.k \in 1 .. IF test.op \in {"mem8", "mem16"} THEN 4 ELSE 1
    BY <1>2 DEF MemInv, Progress
  <2>. QED
    BY <2>1, <1>2, <1>4 DEF Progress, InTest, Tests
<1>8. SoundMemory'
  <2>1. \A a : Target(a)' = Target(a)
    BY <1>4, TargetSame
  <2>. QED
    BY <2>1, <1>1, <1>2, <1>4 DEF MemInv, SoundMemory, Tested
<1>9. CacheOff' /\ Compares' /\ Unnoticed'
  <2>1. CacheOff'
    BY <1>5 DEF CacheOff
  <2>2. Compares'
    BY <1>2, <1>4 DEF Compares
  <2>3. Unnoticed'
    BY <1>1, <1>2, <1>4 DEF MemInv, Unnoticed, Uncached, Visible, Tested
  <2>. QED
    BY <2>1, <2>2, <2>3
<1>. QED
  BY <1>5, <1>6, <1>7, <1>8, <1>9 DEF MemInv

\* Through a whole pass of reads without an error, no fault that the test
\* sees is one that this value shows.
LEMMA PassNotices ==
    ASSUME MemInv, test.op # "zero", test.pass = "read", Through, Uncached,
           test.errors = 0, Visible
    PROVE  /\ fault.kind = "stuck_high" => test.k # 1
           /\ fault.kind = "stuck_low" => test.k # 4
           /\ fault.kind = "joined" => test.k # 2
           /\ fault.kind # "alias"
<1>1. /\ InTest /\ test \in TestRecord /\ test.first \in Nat /\ test.cells \in Nat
      /\ fault \in Faults \cup {NoFault} /\ ram \in [Cells -> Values]
      /\ test.first + test.cells <= 4
  BY InTestFacts DEF MemInv, MemTyped, Progress
<1>2. \A a : Tested(a) => a \in Cells /\ Load(a) = Target(a)
  BY <1>1, InTestFacts DEF MemInv, Compares, Through, Tested
<1>3. ASSUME fault.kind \in {"stuck_high", "stuck_low"}
      PROVE  /\ fault.kind = "stuck_high" => test.k # 1
             /\ fault.kind = "stuck_low" => test.k # 4
  <2>1. Tested(fault.at) /\ test.op \in {"mem8", "mem16"}
    BY <1>3 DEF Visible
  <2>2. fault.at \in Cells /\ Load(fault.at) = Target(fault.at)
    BY <1>2, <2>1
  <2>3. /\ fault.kind = "stuck_low" => Load(fault.at) # 3
        /\ fault.kind = "stuck_high" => Load(fault.at) # 0
    BY <1>1, <2>2, LoadFaulty DEF Load
  <2>. QED
    BY <2>1, <2>2, <2>3 DEF Target, Targets
<1>4. ASSUME fault.kind = "joined"
      PROVE  test.k # 2
  <2>1. test.op = "mem8" /\ test.cells # 0
    BY <1>4 DEF Visible
  <2>2. Tested(test.first)
    BY <1>1, <2>1 DEF Tested
  <2>3. Load(test.first) # 2 /\ Load(test.first) = Target(test.first)
    BY <1>1, <1>2, <1>4, <2>2, LoadFaulty DEF Load
  <2>. QED
    BY <2>1, <2>3 DEF Target, Targets
<1>5. ASSUME fault.kind = "alias"
      PROVE  FALSE
  <2>1. /\ Tested(fault.at) /\ Tested(fault.to) /\ test.op \in {"mem32", "dtest"}
    BY <1>5 DEF Visible
  <2>2. fault.at \in Cells /\ fault.to \in Cells /\ fault.at # fault.to
    BY <1>1, <1>5 DEF Faults, NoFault
  <2>3. Load(fault.at) = fault.at /\ Load(fault.to) = fault.to
    BY <1>2, <2>1 DEF Target
  <2>4. Load(fault.at) = ram[fault.to] /\ Load(fault.to) = ram[fault.to]
    BY <1>5, <2>2 DEF Load, LoadFrom, Cell
  <2>. QED
    BY <2>2, <2>3, <2>4
<1>. QED
  BY <1>3, <1>4, <1>5

LEMMA ReadDoneKeeps ==
    ASSUME MemInv, ReadDone
    PROVE  MemInv'
<1>1. /\ test.op # "zero" /\ test.pass = "read" /\ Through
      /\ UNCHANGED <<ram, fault, dcache_on, dcache>> /\ MemTyped /\ CacheCurrent
  BY DEF ReadDone, Testing, MemInv
<1>2. /\ InTest /\ test \in TestRecord /\ test.first \in Nat /\ test.cells \in Nat
      /\ test.k \in 1 .. 4 /\ test.errors \in 0 .. 1 /\ test.zeroed \in ByteSets
      /\ test.k \in 1 .. IF test.op \in {"mem8", "mem16"} THEN 4 ELSE 1
      /\ test.first + test.cells <= 4
  BY <1>1, InTestFacts DEF MemInv, Progress
<1>3. Len(Targets(test.op)) = IF test.op \in {"mem8", "mem16"} THEN 4 ELSE 1
  BY DEF Targets
<1>4. PICK k \in 1 .. 4, pass \in {"write", "done"} :
          /\ test' = [test EXCEPT !.i = 0, !.k = k, !.pass = pass]
          /\ pass = "write" => k = test.k + 1 /\ test.op \in {"mem8", "mem16"}
          /\ pass = "done" => k = test.k /\ (test.op \in {"mem8", "mem16"} => k = 4)
  <2>1. CASE test.k < Len(Targets(test.op))
    <3>1. test.op \in {"mem8", "mem16"} /\ test.k + 1 \in 1 .. 4
      BY <2>1, <1>2, <1>3
    <3>2. test' = [test EXCEPT !.i = 0, !.k = test.k + 1, !.pass = "write"]
      BY <2>1 DEF ReadDone
    <3>. QED
      BY <3>1, <3>2
  <2>2. CASE ~(test.k < Len(Targets(test.op)))
    <3>1. test.op \in {"mem8", "mem16"} => test.k = 4
      BY <2>2, <1>2, <1>3
    <3>2. test' = [test EXCEPT !.i = 0, !.k = test.k, !.pass = "done"]
      BY <2>2, <1>2 DEF ReadDone, TestRecord
    <3>. QED
      BY <3>1, <3>2, <1>2
  <2>. QED
    BY <2>1, <2>2
<1>5. test' = Changed(k, 0, test.zeroed, pass, test.errors)
  BY <1>2, <1>4 DEF TestRecord, Changed
<1>6. /\ test' \in TestRecord /\ InTest'
      /\ test'.op = test.op /\ test'.first = test.first /\ test'.cells = test.cells
      /\ test'.cached = test.cached /\ test'.k = k /\ test'.i = 0
      /\ test'.pass = pass /\ test'.errors = test.errors
  <2>1. pass \in {"write", "random", "read", "done", "panic"} /\ k \in Nat
    OBVIOUS
  <2>. QED
    BY <1>2, <1>5, <2>1, RecordStep DEF InTest
<1>7. MemTyped' /\ CacheCurrent'
  BY <1>1, <1>6 DEF MemTyped, CacheCurrent
<1>8. Progress'
  <2>1. k \in 1 .. IF test.op \in {"mem8", "mem16"} THEN 4 ELSE 1
    BY <1>2, <1>4
  <2>. QED
    BY <2>1, <1>2, <1>6 DEF Progress, InTest, Tests
<1>9. SoundMemory'
  BY <1>1, <1>2, <1>6 DEF MemInv, SoundMemory
<1>10. CacheOff' /\ Compares'
  BY <1>1, <1>2, <1>6 DEF MemInv, CacheOff, Compares, Uncached
<1>11. Unnoticed'
  <2> SUFFICES ASSUME Uncached, test.errors = 0, Visible
               PROVE  /\ pass # "done"
                      /\ fault.kind = "stuck_high" => k <= 1
                      /\ fault.kind = "joined" => k <= 2
    BY <1>1, <1>2, <1>6 DEF Unnoticed, Uncached, Visible, Tested
  <2>1. /\ fault.kind = "stuck_high" => test.k # 1
        /\ fault.kind = "stuck_low" => test.k # 4
        /\ fault.kind = "joined" => test.k # 2
        /\ fault.kind # "alias"
    BY <1>1, PassNotices
  <2>2. /\ fault.kind = "stuck_high" => test.k <= 1
        /\ fault.kind = "joined" => test.k <= 2
    BY <1>2 DEF MemInv, Unnoticed
  <2>3. /\ fault.kind \in {"stuck_high", "stuck_low", "joined"}
        /\ test.op \in {"mem8", "mem16"}
    BY <2>1 DEF Visible
  <2>. QED
    BY <1>2, <1>4, <2>1, <2>2, <2>3
<1>. QED
  BY <1>7, <1>8, <1>9, <1>10, <1>11 DEF MemInv

-----------------------------------------------------------------------------
LEMMA MemInitially == MemoryInit => MemInv
<1> SUFFICES ASSUME MemoryInit PROVE MemInv
  OBVIOUS
<1>1. test = NoTest /\ fault \in Faults \cup {NoFault} /\ dcache_on = FALSE
  BY DEF MemoryInit
<1>2. test \in TestRecord
  <2>1. {} \in ByteSets
    BY DEF ByteSets
  <2>. QED
    BY <1>1, <2>1 DEF NoTest, TestRecord
<1>3. MemTyped
  <2>1. ram \in [Cells -> Values]
    BY DEF MemoryInit, Values
  <2>2. dcache \in [Cells -> Values \cup {Invalid}]
    BY DEF MemoryInit
  <2>. QED
    BY <1>1, <1>2, <2>1, <2>2 DEF MemTyped
<1>. QED
  BY <1>1, <1>3 DEF MemInv, Progress, CacheCurrent, SoundMemory, CacheOff, Compares, Unnoticed,
                    InTest, Tests, NoTest

LEMMA MemStepKeeps ==
    ASSUME MemInv, [Next]_vars
    PROVE  MemInv'
<1>1. CASE UNCHANGED memoryVars
  BY <1>1 DEF memoryVars, MemInv, MemTyped, Progress, CacheCurrent, SoundMemory, CacheOff,
              Compares, Unnoticed, InTest, Uncached, Visible, Tested, Target, Load, LoadFrom, Cell
<1>2. CASE Memory
  <2>1. test.pass = "done" /\ (Command \/ CommandOf30)
    BY <1>2 DEF Memory, Prompt
  <2>. QED
    BY <2>1, PeekKeeps, PokeKeeps, CacheCommandsKeep, StartTestKeeps, StartZeroKeeps
       DEF Command, CommandOf30, Tests
<1>3. CASE MemoryStep
  BY <1>3, WriteAndLookKeeps, WriteCellKeeps, AllWrittenKeeps, RandomReadKeeps,
     RandomDoneKeeps, ReadCellKeeps, ReadDoneKeeps, ZeroKeeps DEF MemoryStep
<1>4. \/ UNCHANGED memoryVars \/ Memory \/ MemoryStep
  BY DEF Next, vars, Program, Boot, Gpio, Exit, Start, BroughtUp, PrintTable, FindPartition,
         ListFiles, LoadNamedFile, Countdown, Loaded, Report, ToPrompt, StaysPut
<1>. QED
  BY <1>1, <1>2, <1>3, <1>4

\* What holds of the memory commands holds at every time.
LEMMA MemAlways == Spec => []MemInv
<1>1. Init => MemInv
  BY MemInitially DEF Init
<1>2. MemInv /\ [Next]_vars => MemInv'
  BY MemStepKeeps
<1>. QED
  BY <1>1, <1>2, PTL DEF Spec

\* A memory test that has ended has reported the fault it is made for, and
\* no fault of sound memory: handler_mem8 to handler_dtest, for every range.
THEOREM TestsTell == Spec => []Verdict
<1>1. MemInv => Verdict
  BY DEF MemInv, MemTyped, TestRecord, Verdict, Unnoticed, SoundMemory, InTest, Tests, Uncached
<1>. QED
  BY <1>1, MemAlways, PTL

\* The data cache of the 68030 never answers what is not in memory, though
\* entries get old while it is off: set_cacr clears it before it is on.
THEOREM CacheStaysCurrent == Spec => []CacheCurrent
<1>1. MemInv => CacheCurrent
  BY DEF MemInv
<1>. QED
  BY <1>1, MemAlways, PTL

\* zero clears the bytes it was given and no other, for every size.
THEOREM ZeroIsExact == Spec => []ZeroExact
<1>1. MemInv => ZeroExact
  BY DEF MemInv, Progress, ZeroExact
<1>. QED
  BY <1>1, MemAlways, PTL

-----------------------------------------------------------------------------
\* The disk: the board, its driver and its card.
CallRecord == [st : {"none", "init", "read", "ok", "failed"}, lba : Int, count : Nat,
               got : Seq(Int)]
InitPcs == {"cmd0", "cmd8", "acmd41", "cmd58", "first"}
ReadPcs == {"token", "blocks", "nothing", "sectors"}
DriverRecord == [pc : {"rest"} \cup InitPcs \cup ReadPcs, n : Nat, attempt : Nat, v2 : BOOLEAN]
CardRecord == [hc : BOOLEAN, v2 : BOOLEAN, ready : BOOLEAN, left : BOOLEAN, addr : Int]

DriverTyped ==
    /\ board \in Boards /\ io \in CallRecord /\ drv \in DriverRecord /\ card \in CardRecord
    /\ sdhc \in BOOLEAN /\ class_known \in BOOLEAN
    /\ gpio \subseteq 0 .. 7

\* The blocks whose byte address has 32 bits: no call goes past them.
Reach == 2 ^ 23

LEMMA ReachIs == Reach = 8388608
BY SMT DEF Reach

\* A call and the place of its driver.
Calling ==
    /\ Len(io.got) <= io.count /\ io.count <= 255
    /\ io.st \notin {"init", "read"} => drv = AtRest
    /\ io.st = "init" => drv.pc \notin ReadPcs /\ io.count = 0
    /\ io.st = "read" => drv.pc \notin InitPcs /\ io.count # 0
    /\ io.st = "ok" => Len(io.got) = io.count
    /\ 0 <= io.lba /\ io.lba + io.count <= Reach
    /\ IdeBoard => drv.pc \in {"rest", "sectors"}
    /\ board = "F" => drv.pc \notin {"first", "blocks", "nothing", "sectors"}
    /\ board = "08" => drv.pc \notin {"token", "sectors"}

\* Whether something of the call has been read, and where the card is.
Place ==
    /\ ~LateErrors /\ io.st = "failed" /\ io.count # 0 => Len(io.got) < io.count
    /\ board # "F" /\ drv.pc = "rest" /\ io.st = "read" => io.got = <<>>
    /\ drv.pc = "nothing" => io.got = <<>>
    /\ drv.pc = "token" => More /\ card.addr = Address
    /\ drv.pc = "blocks" => card.addr = io.lba

\* What has been read is what was asked for.
Honest == Addressed => \A k \in 1 .. Len(io.got) : io.got[k] = io.lba + k - 1

DriverInv == DriverTyped /\ Calling /\ Place /\ Honest

\* Where the program waits for a call, and for which.
ReadingPcs == {"mbr", "partition", "boot_sector", "list", "whole", "in_sector", "in_fat"}
IdlePcs == {"start", "prompt", "countdown", "file", "cluster", "sector", "fat", "failed",
            "running", "read_ok"}
UpPcs == ReadingPcs \cup {"countdown", "file", "cluster", "sector", "fat"}
FilePcs == {"cluster", "whole", "sector", "in_sector", "fat", "in_fat"}

Waiting ==
    /\ pc \in ReadingPcs \cup IdlePcs \cup {"init"}
    /\ pc \in IdlePcs => io.st = "none"
    /\ pc = "init" => io.st \in {"init", "ok", "failed"} /\ io.count = 0
    /\ pc \in ReadingPcs => io.st \in {"read", "ok", "failed"} /\ io.count # 0
    /\ task \in {"boot", "autoboot", "sdread"}
    /\ task = "sdread" => board = "F" /\ pc \notin {"prompt", "running"}
    /\ pc = "countdown" => task = "autoboot"
    /\ pc \in {"mbr", "partition"} => task = "sdread"

\* The driver counts as the card does, once it has been brought up.
Counting == board = "F" /\ class_known /\ (pc \in UpPcs \/ io.st = "ok") => sdhc = card.hc

FatWindow == [0 .. Entries - 1 -> 0 .. EOC]
HalfSectors == Int \X {1, 2}
Words == 0 .. EOC
FileRecord == [cluster : Words, size : Nat, swapped : BOOLEAN]

StoreTyped ==
    /\ disk \in Disks
    /\ part_lba \in {PART_LBA, disk.part} /\ (part_lba # PART_LBA => task = "sdread")
    /\ boot_sector \in Geometry /\ boot_sector.spc <= disk.geo.spc
    /\ entry \in FileRecord
    /\ current_cluster \in 0 .. EOC /\ size \in Nat /\ sector \in Nat
    /\ buffer \in Seq(HalfSectors) /\ Len(buffer) <= size
    /\ sector \in 0 .. disk.geo.spc \cup 0 .. Lights
    /\ cached_sector \in Nat /\ fat_buffer \in FatWindow

\* What the program waits for.
Asked ==
    /\ pc = "in_sector" => sector < boot_sector.spc /\ io.count = 1
    /\ pc = "in_fat" => io.count = 1 /\ io.lba = FatSector
    /\ pc = "boot_sector" => io.count = 1 /\ io.lba = part_lba

\* The sector the cache names is the one it holds.
Cached ==
    ~LateErrors /\ Addressed /\ cached_sector # NoSector =>
        fat_buffer = AsFat(disk, cached_sector)

\* The card is selected during a read, and where gpio has done it.
Selected ==
    board \in {"F", "08"} /\ Cs \in gpio =>
        \/ drv.pc \in {"token", "blocks", "nothing"}
        \/ board = "08" /\ pc = "prompt"
        \/ board = "08" /\ pc = "init" /\ io.st = "init" /\ drv.pc \in {"rest", "first"}

DiskInv == DriverInv /\ Waiting /\ Counting /\ StoreTyped /\ Asked /\ Cached /\ Selected

-----------------------------------------------------------------------------
\* A step of a driver that reads nothing: it goes on, or it gives up.
LEMMA ReturnKeeps ==
    ASSUME DriverInv, NEW st \in {"ok", "failed"}, Return(st), io.st \in {"init", "read"},
           board' = board, gpio' \subseteq 0 .. 7, card' \in CardRecord, card'.hc = card.hc,
           sdhc' \in BOOLEAN, class_known' \in BOOLEAN, class_known' => class_known,
           st = "ok" => Len(io.got) = io.count,
           st = "failed" /\ ~LateErrors /\ io.count # 0 => Len(io.got) < io.count
    PROVE  DriverInv'
<1>1. /\ io' = [io EXCEPT !.st = st] /\ drv' = AtRest /\ io \in CallRecord
      /\ DriverTyped /\ Calling /\ Honest
  BY DEF Return, DriverInv, DriverTyped
<1>2. /\ io' \in CallRecord /\ io'.st = st /\ io'.lba = io.lba /\ io'.count = io.count
      /\ io'.got = io.got
  BY <1>1 DEF CallRecord
<1>3. drv' \in DriverRecord /\ drv'.pc = "rest"
  BY <1>1 DEF AtRest, DriverRecord
<1>4. DriverTyped'
  BY <1>1, <1>2, <1>3 DEF DriverTyped
<1>5. Calling'
  BY <1>1, <1>2, <1>3 DEF Calling, IdeBoard, InitPcs, ReadPcs
<1>6. Place'
  BY <1>2, <1>3 DEF Place
<1>7. Honest'
  BY <1>1, <1>2 DEF Honest, Addressed, DriverTyped
<1>. QED
  BY <1>4, <1>5, <1>6, <1>7 DEF DriverInv

LEMMA BringUpKeeps ==
    ASSUME DriverInv, io.st = "init", io' = io, board' = board, gpio' \subseteq 0 .. 7,
           drv' \in DriverRecord, drv'.pc \in InitPcs,
           board = "F" => drv'.pc # "first", ~IdeBoard,
           card' \in CardRecord, card'.hc = card.hc, UNCHANGED <<sdhc, class_known>>
    PROVE  DriverInv'
<1>1. DriverTyped /\ Calling /\ Place /\ Honest
  BY DEF DriverInv
<1>2. DriverTyped'
  BY <1>1 DEF DriverTyped
<1>3. Calling'
  BY <1>1 DEF Calling, IdeBoard, InitPcs, ReadPcs
<1>4. Place'
  BY <1>1 DEF Place, InitPcs
<1>5. Honest'
  BY <1>1 DEF Honest, Addressed
<1>. QED
  BY <1>2, <1>3, <1>4, <1>5 DEF DriverInv

LEMMA GotoTyped ==
    ASSUME DriverInv, NEW p \in {"rest"} \cup InitPcs \cup ReadPcs, Goto(p)
    PROVE  drv' \in DriverRecord /\ drv'.pc = p /\ io' = io
BY DEF Goto, DriverInv, DriverTyped, DriverRecord

LEMMA PinsTyped ==
    ASSUME DriverInv
    PROVE  Deselected \subseteq 0 .. 7 /\ gpio \cup {Cs} \subseteq 0 .. 7
BY DEF DriverInv, DriverTyped, Deselected, Cs

LEMMA CardTyped ==
    ASSUME DriverInv
    PROVE  /\ card \in CardRecord
           /\ \A b \in BOOLEAN : /\ [card EXCEPT !.ready = b] \in CardRecord
                                 /\ [card EXCEPT !.left = b] \in CardRecord
                                 /\ [card EXCEPT !.ready = b].hc = card.hc
                                 /\ [card EXCEPT !.left = b].hc = card.hc
BY DEF DriverInv, DriverTyped, CardRecord

\* Where a driver is, is what its call is.
LEMMA CallOf ==
    ASSUME DriverInv
    PROVE  /\ drv \in DriverRecord /\ io \in CallRecord /\ sdhc \in BOOLEAN /\ class_known \in BOOLEAN
           /\ drv.pc \in InitPcs => io.st = "init" /\ io.count = 0 /\ Len(io.got) = 0
           /\ drv.pc \in ReadPcs => io.st = "read"
           /\ io.st = "init" => Len(io.got) = io.count
           /\ io.got \in Seq(Int) /\ io.lba \in Int /\ io.count \in Nat /\ Len(io.got) \in Nat
           /\ gpio \subseteq 0 .. 7
<1>0. io.lba \in Int /\ gpio \subseteq 0 .. 7
  BY DEF DriverInv, DriverTyped, CallRecord
<1>1. io.got \in Seq(Int) /\ io.count \in Nat /\ io.st \in {"none", "init", "read", "ok", "failed"}
  BY DEF DriverInv, DriverTyped, CallRecord
<1>2. Len(io.got) \in Nat
  BY <1>1
<1>3. drv # AtRest => io.st \in {"init", "read"}
  BY <1>1 DEF DriverInv, Calling
<1>4. drv.pc # "rest" => drv # AtRest
  BY DEF AtRest
<1>5. drv \in DriverRecord /\ io \in CallRecord /\ sdhc \in BOOLEAN /\ class_known \in BOOLEAN
  BY DEF DriverInv, DriverTyped
<1>6. drv.pc \in InitPcs => io.st = "init" /\ io.count = 0 /\ Len(io.got) = 0
  BY <1>1, <1>2, <1>3, <1>4 DEF DriverInv, Calling, InitPcs, ReadPcs
<1>7. drv.pc \in ReadPcs => io.st = "read"
  BY <1>1, <1>3, <1>4 DEF DriverInv, Calling, ReadPcs
<1>8. io.st = "init" => Len(io.got) = io.count
  BY <1>1, <1>2 DEF DriverInv, Calling
<1>9. io.count \in Nat /\ io.got \in Seq(Int)
  BY <1>1
<1>. QED
  BY <1>0, <1>2, <1>5, <1>6, <1>7, <1>8, <1>9

LEMMA AgainKeeps ==
    ASSUME DriverInv, NEW limit, Again(limit), drv.pc \in InitPcs, ~IdeBoard,
           board' = board, gpio' \subseteq 0 .. 7, UNCHANGED <<card, sdhc, class_known>>
    PROVE  DriverInv'
<1>1. /\ card \in CardRecord /\ drv \in DriverRecord /\ sdhc \in BOOLEAN /\ class_known \in BOOLEAN
      /\ io.st = "init" /\ Len(io.got) = io.count
  BY CardTyped, CallOf
<1>2. CASE drv.n + 1 < limit
  <2>1. io' = io /\ drv' = [drv EXCEPT !.n = drv.n + 1]
    BY <1>2 DEF Again
  <2>2. drv.n + 1 \in Nat
    BY <1>1 DEF DriverRecord
  <2>3. drv' \in DriverRecord /\ drv'.pc = drv.pc
    BY <1>1, <2>1, <2>2 DEF DriverRecord
  <2>4. board = "F" => drv.pc # "first"
    BY DEF DriverInv, Calling
  <2>. QED
    BY <1>1, <2>1, <2>3, <2>4, BringUpKeeps
<1>3. CASE ~(drv.n + 1 < limit)
  <2>1. Return("failed")
    BY <1>3 DEF Again
  <2>2. io.count = 0
    BY CallOf
  <2>. QED
    BY <1>1, <2>1, <2>2, ReturnKeeps
<1>. QED
  BY <1>2, <1>3

LEMMA BringUpSpi ==
    ASSUME DriverInv, SdSpiInit \/ SdSpiReset \/ SdSpiVersion \/ SdSpiReady \/ SdSpiClass
    PROVE  DriverInv'
<1>1. /\ card \in CardRecord /\ drv \in DriverRecord /\ sdhc \in BOOLEAN /\ class_known \in BOOLEAN
      /\ \A b \in BOOLEAN : /\ [card EXCEPT !.ready = b] \in CardRecord
                            /\ [card EXCEPT !.ready = b].hc = card.hc
      /\ Deselected \subseteq 0 .. 7
  BY CardTyped, CallOf, PinsTyped
<1>2. drv.pc \in InitPcs => io.st = "init" /\ Len(io.got) = io.count /\ io.count = 0
  BY CallOf
<1>3. CASE SdSpiInit
  <2>1. /\ board = "F" /\ io.st = "init" /\ Goto("cmd0") /\ gpio' = Deselected
        /\ UNCHANGED <<board, card, sdhc, class_known>>
    BY <1>3 DEF SdSpiInit, At
  <2>2. drv' \in DriverRecord /\ drv'.pc = "cmd0" /\ io' = io
    BY <2>1, GotoTyped DEF InitPcs
  <2>. QED
    BY <1>1, <2>1, <2>2, BringUpKeeps DEF InitPcs, IdeBoard
<1>4. CASE SdSpiReset
  <2>1. /\ board = "F" /\ drv.pc = "cmd0" /\ gpio' = Deselected
        /\ UNCHANGED <<board, sdhc, class_known>>
    BY <1>4 DEF SdSpiReset, At
  <2>2. drv.pc \in InitPcs /\ ~IdeBoard
    BY <2>1 DEF InitPcs, IdeBoard
  <2>3. CASE Goto("cmd8") /\ card' = [card EXCEPT !.ready = FALSE]
    <3>1. drv' \in DriverRecord /\ drv'.pc = "cmd8" /\ io' = io
      BY <2>3, GotoTyped DEF InitPcs
    <3>. QED
      BY <1>1, <1>2, <2>1, <2>2, <2>3, <3>1, BringUpKeeps DEF InitPcs
  <2>4. CASE Again(Cmd0Tries) /\ UNCHANGED card
    BY <1>1, <2>1, <2>2, <2>4, AgainKeeps
  <2>. QED
    BY <1>4, <2>3, <2>4 DEF SdSpiReset
<1>5. CASE SdSpiVersion
  <2>1. /\ board = "F" /\ drv.pc = "cmd8" /\ gpio' = Deselected
        /\ UNCHANGED <<board, io, card, sdhc, class_known>>
    BY <1>5 DEF SdSpiVersion, At
  <2>2. PICK v2 \in {FALSE, card.v2} :
            drv' = [drv EXCEPT !.pc = "acmd41", !.n = 0, !.v2 = v2]
    BY <1>5 DEF SdSpiVersion
  <2>3. v2 \in BOOLEAN
    BY <1>1, <2>2 DEF CardRecord
  <2>4. drv' \in DriverRecord /\ drv'.pc = "acmd41"
    BY <1>1, <2>2, <2>3 DEF DriverRecord, InitPcs
  <2>5. drv.pc \in InitPcs /\ ~IdeBoard
    BY <2>1 DEF InitPcs, IdeBoard
  <2>. QED
    BY <1>1, <1>2, <2>1, <2>4, <2>5, BringUpKeeps DEF InitPcs
<1>6. CASE SdSpiReady
  <2>1. /\ board = "F" /\ drv.pc = "acmd41" /\ gpio' = Deselected
        /\ UNCHANGED <<board, sdhc, class_known>>
    BY <1>6 DEF SdSpiReady, At
  <2>2. drv.pc \in InitPcs /\ ~IdeBoard
    BY <2>1 DEF InitPcs, IdeBoard
  <2>3. CASE Goto("cmd58") /\ card' = [card EXCEPT !.ready = TRUE]
    <3>1. drv' \in DriverRecord /\ drv'.pc = "cmd58" /\ io' = io
      BY <2>3, GotoTyped DEF InitPcs
    <3>. QED
      BY <1>1, <1>2, <2>1, <2>2, <2>3, <3>1, BringUpKeeps DEF InitPcs
  <2>4. CASE Again(ReadyTries) /\ UNCHANGED card
    BY <1>1, <2>1, <2>2, <2>4, AgainKeeps
  <2>. QED
    BY <1>6, <2>3, <2>4 DEF SdSpiReady
<1>7. CASE SdSpiClass
  <2>1. /\ board = "F" /\ drv.pc = "cmd58" /\ gpio' = Deselected /\ Return("ok")
        /\ UNCHANGED <<board, card>>
        /\ sdhc' \in BOOLEAN /\ class_known' \in BOOLEAN /\ (class_known' => class_known)
    BY <1>1, <1>7 DEF SdSpiClass, At, CardRecord
  <2>2. drv.pc \in InitPcs
    BY <2>1 DEF InitPcs
  <2>. QED
    BY <1>1, <1>2, <2>1, <2>2, ReturnKeeps
<1>. QED
  BY <1>3, <1>4, <1>5, <1>6, <1>7

LEMMA ResetFailsKeeps ==
    ASSUME DriverInv, ResetFails, drv.pc \in InitPcs, board = "08",
           board' = board, gpio' \subseteq 0 .. 7, card' \in CardRecord, card'.hc = card.hc,
           UNCHANGED <<sdhc, class_known>>
    PROVE  DriverInv'
<1>1. /\ drv \in DriverRecord /\ sdhc \in BOOLEAN /\ class_known \in BOOLEAN
      /\ io.st = "init" /\ Len(io.got) = io.count /\ io.count = 0
  BY CallOf
<1>2. CASE drv.attempt + 1 < ResetTries
  <2>1. io' = io /\ drv' = [AtRest EXCEPT !.pc = "first", !.attempt = drv.attempt + 1]
    BY <1>2 DEF ResetFails
  <2>2. drv.attempt + 1 \in Nat
    BY <1>1 DEF DriverRecord
  <2>3. drv' = [pc |-> "first", n |-> 0, attempt |-> drv.attempt + 1, v2 |-> FALSE]
    BY <2>1 DEF AtRest
  <2>4. drv' \in DriverRecord /\ drv'.pc = "first"
    BY <2>2, <2>3 DEF DriverRecord, InitPcs
  <2>. QED
    BY <1>1, <2>1, <2>4, BringUpKeeps DEF InitPcs, IdeBoard
<1>3. CASE ~(drv.attempt + 1 < ResetTries)
  <2>1. Return("failed")
    BY <1>3 DEF ResetFails
  <2>. QED
    BY <1>1, <2>1, ReturnKeeps
<1>. QED
  BY <1>2, <1>3

LEMMA BringUpBitbang ==
    ASSUME DriverInv,
           \/ BitInit \/ BitFirst \/ BitReady
           \/ BitCommand("cmd0", "cmd8") \/ BitCommand("cmd8", "cmd58")
           \/ BitCommand("cmd58", "acmd41")
    PROVE  DriverInv'
<1>1. /\ card \in CardRecord /\ drv \in DriverRecord /\ sdhc \in BOOLEAN /\ class_known \in BOOLEAN
      /\ \A b \in BOOLEAN : /\ [card EXCEPT !.ready = b] \in CardRecord
                            /\ [card EXCEPT !.ready = b].hc = card.hc
                            /\ [card EXCEPT !.left = b] \in CardRecord
                            /\ [card EXCEPT !.left = b].hc = card.hc
      /\ Deselected \subseteq 0 .. 7 /\ gpio \subseteq 0 .. 7
  BY CardTyped, CallOf, PinsTyped DEF DriverInv, DriverTyped
<1>2. drv.pc \in InitPcs => io.st = "init" /\ Len(io.got) = io.count /\ io.count = 0
  BY CallOf
<1>3. CASE BitInit
  <2>1. /\ board = "08" /\ io.st = "init" /\ Goto("first")
        /\ UNCHANGED <<board, gpio, card, sdhc, class_known>>
    BY <1>3 DEF BitInit, On08
  <2>2. drv' \in DriverRecord /\ drv'.pc = "first" /\ io' = io
    BY <2>1, GotoTyped DEF InitPcs
  <2>. QED
    BY <1>1, <2>1, <2>2, BringUpKeeps DEF InitPcs, IdeBoard
<1>4. CASE BitFirst
  <2>1. /\ board = "08" /\ drv.pc = "first" /\ gpio' = Deselected
        /\ card' = [card EXCEPT !.left = FALSE] /\ UNCHANGED <<board, sdhc, class_known>>
        /\ Goto("cmd0") \/ ResetFails
    BY <1>4 DEF BitFirst, On08
  <2>2. drv.pc \in InitPcs
    BY <2>1 DEF InitPcs
  <2>3. ASSUME Goto("cmd0") PROVE DriverInv'
    <3>1. drv' \in DriverRecord /\ drv'.pc = "cmd0" /\ io' = io
      BY <2>3, GotoTyped DEF InitPcs
    <3>. QED
      BY <1>1, <1>2, <2>1, <2>2, <3>1, BringUpKeeps DEF InitPcs, IdeBoard
  <2>. QED
    BY <1>1, <2>1, <2>2, <2>3, ResetFailsKeeps
<1>5. ASSUME NEW p \in {"cmd0", "cmd8", "cmd58"}, NEW next \in {"cmd8", "cmd58", "acmd41"},
             BitCommand(p, next)
      PROVE  DriverInv'
  <2>1. /\ board = "08" /\ drv.pc \in InitPcs /\ UNCHANGED <<board, gpio, sdhc, class_known>>
        /\ Goto(next) \/ ResetFails
        /\ card' \in CardRecord /\ card'.hc = card.hc
    BY <1>1, <1>5 DEF BitCommand, On08, InitPcs
  <2>2. ASSUME Goto(next) PROVE DriverInv'
    <3>1. drv' \in DriverRecord /\ drv'.pc = next /\ io' = io
      BY <2>2, GotoTyped DEF InitPcs
    <3>. QED
      BY <1>1, <1>2, <2>1, <3>1, BringUpKeeps DEF InitPcs, IdeBoard
  <2>. QED
    BY <1>1, <2>1, <2>2, ResetFailsKeeps
<1>6. CASE BitReady
  <2>1. /\ board = "08" /\ drv.pc = "acmd41" /\ UNCHANGED <<board, gpio, sdhc, class_known>>
    BY <1>6 DEF BitReady, On08
  <2>2. drv.pc \in InitPcs
    BY <2>1 DEF InitPcs
  <2>3. ASSUME card' = [card EXCEPT !.ready = TRUE], Return("ok") PROVE DriverInv'
    BY <1>1, <1>2, <2>1, <2>2, <2>3, ReturnKeeps
  <2>4. ASSUME card' = card, drv' = [drv EXCEPT !.n = @ + 1], io' = io PROVE DriverInv'
    <3>1. drv.n + 1 \in Nat
      BY <1>1 DEF DriverRecord
    <3>2. drv' \in DriverRecord /\ drv'.pc = drv.pc
      BY <1>1, <2>4, <3>1 DEF DriverRecord
    <3>. QED
      BY <1>1, <1>2, <2>1, <2>2, <2>4, <3>2, BringUpKeeps DEF IdeBoard
  <2>5. ASSUME card' = card, ResetFails PROVE DriverInv'
    BY <1>1, <2>1, <2>2, <2>5, ResetFailsKeeps
  <2>. QED
    BY <1>6, <2>3, <2>4, <2>5 DEF BitReady
<1>. QED
  BY <1>3, <1>4, <1>5, <1>6

-----------------------------------------------------------------------------
\* A driver has read the next block of a call.
LEMMA ReadKeeps ==
    ASSUME DriverInv, io.st = "read", Len(io.got) < io.count, NEW block \in Int,
           Addressed => block = io.lba + Len(io.got),
           NEW st \in {"read", "failed"},
           io' = [io EXCEPT !.got = Received(block), !.st = st],
           UNCHANGED <<board, card, sdhc, class_known>>, gpio' \subseteq 0 .. 7,
           drv' \in DriverRecord,
           \/ st = "failed" /\ drv' = AtRest /\ IdeBoard /\ LateErrors
           \/ st = "read" /\ board = "F" /\ drv'.pc = "rest"
           \/ st = "read" /\ drv' = drv /\ drv.pc \in {"blocks", "sectors"}
    PROVE  DriverInv'
<1>1. /\ DriverTyped /\ Calling /\ Place /\ Honest /\ io \in CallRecord
      /\ io.got \in Seq(Int) /\ io.count \in Nat /\ io.lba \in Int
  BY DEF DriverInv, DriverTyped, CallRecord
<1> DEFINE got == Append(io.got, block)
<1>2. /\ got \in Seq(Int) /\ Len(got) = Len(io.got) + 1
      /\ \A k \in 1 .. Len(got) : got[k] = IF k <= Len(io.got) THEN io.got[k] ELSE block
  <2>1. Len(io.got) \in Nat
    BY <1>1
  <2>. QED
    BY <1>1, <2>1, AppendProperties
<1>. HIDE DEF got
<1>3. io' = [io EXCEPT !.got = got, !.st = st]
  BY DEF got, Received
<1>4. /\ io' \in CallRecord /\ io'.st = st /\ io'.lba = io.lba /\ io'.count = io.count
      /\ io'.got = got
  BY <1>1, <1>2, <1>3 DEF CallRecord
<1>5. DriverTyped'
  BY <1>1, <1>4 DEF DriverTyped
<1>6. Len(io.got) \in Nat /\ AtRest.pc = "rest"
  BY <1>1 DEF AtRest
<1>7. Calling'
  <2>1. /\ Len(io'.got) <= io'.count /\ io'.st \in {"read", "failed"}
        /\ io'.st = "failed" => drv' = AtRest
        /\ io'.count # 0
    <3>0. Len(got) = Len(io.got) + 1
      BY <1>2
    <3>a. Len(io.got) \in Nat /\ io.count \in Nat
      BY <1>1
    <3>1. Len(got) <= io.count /\ io.count # 0
      BY <3>0, <3>a
    <3>2. st = "failed" => drv' = AtRest
      OBVIOUS
    <3>. QED
      BY <1>4, <3>1, <3>2
  <2>2. /\ drv'.pc \in {"rest", "blocks", "sectors"}
        /\ IdeBoard => drv'.pc \in {"rest", "sectors"}
        /\ board = "F" => drv'.pc = "rest"
        /\ board = "08" => drv'.pc # "sectors"
    BY <1>1, <1>6 DEF Calling, IdeBoard
  <2>. QED
    BY <2>1, <2>2, <1>1, <1>4 DEF Calling, IdeBoard, InitPcs, ReadPcs
<1>8. Place'
  <2>1. drv'.pc \in {"rest", "blocks", "sectors"}
    BY <1>6
  <2>2. board # "F" /\ drv'.pc = "rest" => st = "failed"
    BY <1>6
  <2>3. st = "failed" => LateErrors
    OBVIOUS
  <2>4. drv'.pc = "blocks" => card.addr = io.lba
    BY <1>1, <1>6 DEF Place
  <2>. QED
    BY <2>1, <2>2, <2>3, <2>4, <1>4 DEF Place
<1>9. Honest'
  <2> SUFFICES ASSUME Addressed, NEW k \in 1 .. Len(got)
               PROVE  got[k] = io.lba + k - 1
    BY <1>4 DEF Honest, Addressed
  <2>1. CASE k <= Len(io.got)
    BY <2>1, <1>1, <1>2, <1>6 DEF Honest
  <2>2. CASE ~(k <= Len(io.got))
    <3>1. k = Len(io.got) + 1 /\ got[k] = block
      BY <2>2, <1>2, <1>6
    <3>. QED
      BY <3>1, <1>1, <1>6
  <2>. QED
    BY <2>1, <2>2
<1>. QED
  BY <1>5, <1>7, <1>8, <1>9 DEF DriverInv

\* The command of a read has been taken, and its driver waits for the data.
LEMMA CommandKeeps ==
    ASSUME DriverInv, io.st = "read", NEW p \in ReadPcs, Goto(p), board' = board,
           gpio' \subseteq 0 .. 7, card' \in CardRecord, card'.hc = card.hc,
           UNCHANGED <<sdhc, class_known>>,
           p = "token" => board = "F" /\ More /\ card'.addr = Address,
           p = "blocks" => board = "08" /\ card'.addr = io.lba,
           p = "nothing" => board = "08" /\ io.got = <<>>,
           p = "sectors" => IdeBoard
    PROVE  DriverInv'
<1>1. DriverTyped /\ Calling /\ Place /\ Honest
  BY DEF DriverInv
<1>2. drv' \in DriverRecord /\ drv'.pc = p /\ io' = io
  BY GotoTyped
<1>3. DriverTyped'
  BY <1>1, <1>2 DEF DriverTyped
<1>4. Calling'
  BY <1>1, <1>2 DEF Calling, IdeBoard, InitPcs, ReadPcs
<1>5. Place'
  BY <1>1, <1>2 DEF Place, More, Address, ReadPcs
<1>6. Honest'
  BY <1>1, <1>2 DEF Honest, Addressed
<1>. QED
  BY <1>3, <1>4, <1>5, <1>6 DEF DriverInv

LEMMA AddrTyped ==
    ASSUME DriverInv, NEW addr \in Int
    PROVE  /\ [card EXCEPT !.addr = addr] \in CardRecord
           /\ [card EXCEPT !.addr = addr].hc = card.hc
           /\ [card EXCEPT !.addr = addr].addr = addr
           /\ [card EXCEPT !.addr = addr, !.left = FALSE] \in CardRecord
           /\ [card EXCEPT !.addr = addr, !.left = FALSE].hc = card.hc
           /\ [card EXCEPT !.addr = addr, !.left = FALSE].addr = addr
BY DEF DriverInv, DriverTyped, CardRecord

LEMMA BlockTyped ==
    ASSUME DriverInv
    PROVE  BlockOf(card.addr) \in Int
<1>1. card.addr \in Int
  BY DEF DriverInv, DriverTyped, CardRecord
<1>. QED
  BY <1>1 DEF BlockOf, Block

\* No address of a read that is not through is too long for 32 bits.
LEMMA AddressIs ==
    ASSUME DriverInv, io.st = "read", More
    PROVE  Address = IF sdhc THEN io.lba + Len(io.got) ELSE (io.lba + Len(io.got)) * 512
<1>1. /\ io.lba \in Int /\ 0 <= io.lba /\ io.count \in Nat /\ io.lba + io.count <= Reach
      /\ Len(io.got) \in Nat /\ Len(io.got) < io.count
  BY DEF DriverInv, DriverTyped, CallRecord, Calling, More
<1> DEFINE lba == io.lba + Len(io.got)
<1>2. lba \in Int /\ 0 <= lba /\ lba < 8388608
  BY <1>1, ReachIs
<1>3. lba % 8388608 = lba
  BY <1>2, SMT
<1>4. 2 ^ 23 = 8388608
  BY ReachIs DEF Reach
<1>. QED
  BY <1>3, <1>4 DEF Address, Block

LEMMA ReadSpi ==
    ASSUME DriverInv, SdSpiCommand \/ SdSpiData \/ SdSpiEnd,
           board = "F" /\ class_known /\ io.st = "read" => sdhc = card.hc
    PROVE  DriverInv'
<1>1. /\ card \in CardRecord /\ drv \in DriverRecord /\ sdhc \in BOOLEAN /\ class_known \in BOOLEAN
      /\ Deselected \subseteq 0 .. 7 /\ gpio \cup {Cs} \subseteq 0 .. 7
      /\ io \in CallRecord /\ io.lba \in Int /\ Len(io.got) \in Nat
  BY CardTyped, CallOf, PinsTyped
<1>2. io.st = "read" /\ More => Address \in Int
  BY <1>1, AddressIs
<1>3. CASE SdSpiCommand
  <2>1. /\ board = "F" /\ More /\ io.st = "read" /\ Len(io.got) < io.count
        /\ UNCHANGED <<board, sdhc, class_known>>
    BY <1>3 DEF SdSpiCommand, At, More
  <2>2. ASSUME card' = [card EXCEPT !.addr = Address], Goto("token"), gpio' = gpio \cup {Cs}
        PROVE  DriverInv'
    BY <1>1, <1>2, <2>1, <2>2, AddrTyped, CommandKeeps DEF ReadPcs
  <2>3. ASSUME Return("failed"), gpio' = Deselected, card' = card
        PROVE  DriverInv'
    BY <1>1, <2>1, <2>3, ReturnKeeps
  <2>. QED
    BY <1>3, <2>2, <2>3 DEF SdSpiCommand
<1>4. CASE SdSpiData
  <2>1. /\ board = "F" /\ drv.pc = "token" /\ gpio' = Deselected
        /\ UNCHANGED <<board, card, sdhc, class_known>>
    BY <1>4 DEF SdSpiData, At
  <2>2. More /\ card.addr = Address /\ io.st = "read" /\ Len(io.got) < io.count
    BY <2>1 DEF DriverInv, Place, More
  <2>3. Addressed => BlockOf(card.addr) = io.lba + Len(io.got)
    BY <1>1, <2>1, <2>2, AddressIs DEF Addressed, BlockOf, Block
  <2>4. ASSUME io' = [io EXCEPT !.got = Received(BlockOf(card.addr))], drv' = AtRest
        PROVE  DriverInv'
    <3>1. io' = [io EXCEPT !.got = Received(BlockOf(card.addr)), !.st = "read"]
      BY <1>1, <2>2, <2>4 DEF CallRecord
    <3>2. drv' \in DriverRecord /\ drv'.pc = "rest"
      BY <2>4 DEF AtRest, DriverRecord
    <3>. QED
      BY <1>1, <2>1, <2>2, <2>3, <3>1, <3>2, BlockTyped, ReadKeeps
  <2>5. ASSUME Return("failed") PROVE DriverInv'
    BY <1>1, <2>1, <2>2, <2>5, ReturnKeeps
  <2>. QED
    BY <1>4, <2>4, <2>5 DEF SdSpiData
<1>5. CASE SdSpiEnd
  <2>1. /\ Return("ok") /\ Len(io.got) = io.count /\ io.st = "read"
        /\ UNCHANGED <<board, gpio, card, sdhc, class_known>>
    BY <1>5 DEF SdSpiEnd, Done
  <2>2. gpio' \subseteq 0 .. 7
    BY <1>1, <2>1
  <2>. QED
    BY <1>1, <2>1, <2>2, ReturnKeeps
<1>. QED
  BY <1>3, <1>4, <1>5

LEMMA ReadBitbang ==
    ASSUME DriverInv, BitRead \/ BitBlock \/ BitNoToken \/ BitStop
    PROVE  DriverInv'
<1>1. /\ card \in CardRecord /\ drv \in DriverRecord /\ sdhc \in BOOLEAN /\ class_known \in BOOLEAN
      /\ Deselected \subseteq 0 .. 7 /\ gpio \cup {Cs} \subseteq 0 .. 7 /\ gpio \subseteq 0 .. 7
      /\ io \in CallRecord /\ io.lba \in Int /\ Len(io.got) \in Nat
      /\ \A b \in BOOLEAN : /\ [card EXCEPT !.left = b] \in CardRecord
                            /\ [card EXCEPT !.left = b].hc = card.hc
  BY CardTyped, CallOf, PinsTyped
<1>2. CASE BitRead
  <2>1. /\ board = "08" /\ drv.pc = "rest" /\ io.st = "read" /\ Len(io.got) < io.count
        /\ UNCHANGED <<board, sdhc, class_known>>
    BY <1>2 DEF BitRead, On08, More
  <2>2. io.got = <<>>
    BY <2>1 DEF DriverInv, Place
  <2>3. ASSUME card' = [card EXCEPT !.addr = io.lba, !.left = FALSE], Goto("blocks"),
               gpio' = gpio \cup {Cs}
        PROVE  DriverInv'
    BY <1>1, <2>1, <2>3, AddrTyped, CommandKeeps DEF ReadPcs
  <2>4. ASSUME card' = [card EXCEPT !.left = FALSE], Goto("nothing"), gpio' = gpio \cup {Cs}
        PROVE  DriverInv'
    BY <1>1, <2>1, <2>2, <2>4, CommandKeeps DEF ReadPcs
  <2>5. ASSUME card' = [card EXCEPT !.left = FALSE], Return("failed"), gpio' = Deselected
        PROVE  DriverInv'
    BY <1>1, <2>1, <2>5, ReturnKeeps
  <2>. QED
    BY <1>2, <2>3, <2>4, <2>5 DEF BitRead
<1>3. CASE BitBlock
  <2>1. /\ board = "08" /\ drv.pc = "blocks" /\ io.st = "read" /\ Len(io.got) < io.count
        /\ UNCHANGED <<board, drv, gpio, card, sdhc, class_known>>
        /\ io' = [io EXCEPT !.got = Received(BlockOf(card.addr) + Len(io.got))]
    BY <1>3 DEF BitBlock, On08, More
  <2>2. card.addr = io.lba
    BY <2>1 DEF DriverInv, Place
  <2>3. Addressed => BlockOf(card.addr) + Len(io.got) = io.lba + Len(io.got)
    BY <2>1, <2>2 DEF Addressed, BlockOf
  <2>4. BlockOf(card.addr) + Len(io.got) \in Int
    BY <1>1, BlockTyped
  <2>5. io' = [io EXCEPT !.got = Received(BlockOf(card.addr) + Len(io.got)), !.st = "read"]
    BY <1>1, <2>1 DEF CallRecord
  <2>6. gpio' \subseteq 0 .. 7
    BY <1>1, <2>1
  <2>. QED
    BY <1>1, <2>1, <2>3, <2>4, <2>5, <2>6, ReadKeeps
<1>4. CASE BitNoToken
  <2>1. /\ io.st = "read" /\ Len(io.got) < io.count /\ Return("failed")
        /\ card' = [card EXCEPT !.left = TRUE] /\ gpio' = Deselected
        /\ UNCHANGED <<board, sdhc, class_known>>
    BY <1>4 DEF BitNoToken, More
  <2>. QED
    BY <1>1, <2>1, ReturnKeeps
<1>5. CASE BitStop
  <2>1. /\ io.st = "read" /\ Len(io.got) = io.count /\ Return("ok")
        /\ gpio' = Deselected /\ UNCHANGED <<board, sdhc, class_known>>
        /\ \E left \in BOOLEAN : card' = [card EXCEPT !.left = left]
    BY <1>5 DEF BitStop, Done
  <2>. QED
    BY <1>1, <2>1, ReturnKeeps
<1>. QED
  BY <1>2, <1>3, <1>4, <1>5

LEMMA Widths ==
    ASSUME DriverInv, IdeBoard
    PROVE  /\ IdeCount = io.count
           /\ \A s \in Nat : IdeSector(s) = io.lba + s
<1>1. io.count \in Nat /\ io.count <= 255 /\ io.lba \in Int /\ 0 <= io.lba
      /\ io.lba + io.count <= Reach
  BY DEF DriverInv, DriverTyped, CallRecord, Calling
<1>2. 2 ^ 8 = 256
  BY SMT
<1>3. 2 ^ 24 = 16777216
  BY SMT
<1>4. IdeCount = io.count
  BY <1>1, <1>2, SMT DEF IdeCount
<1>5. \A s \in Nat : IdeSector(s) = io.lba + s
  <2>1. io.lba \in Int /\ 0 <= io.lba /\ io.lba < 16777216
    BY <1>1, ReachIs, SMT
  <2>2. io.lba % 16777216 = io.lba
    BY <2>1, SMT
  <2>. QED
    BY <1>3, <2>1, <2>2, SMT DEF IdeSector
<1>. QED
  BY <1>4, <1>5

LEMMA IdeKeeps ==
    ASSUME DriverInv, IdeStep, UNCHANGED <<card, sdhc, class_known>>
    PROVE  DriverInv'
<1>1. /\ card \in CardRecord /\ drv \in DriverRecord /\ sdhc \in BOOLEAN /\ class_known \in BOOLEAN
      /\ gpio \subseteq 0 .. 7 /\ io \in CallRecord /\ io.lba \in Int
      /\ Len(io.got) \in Nat /\ io.count \in Nat
  BY CardTyped, CallOf
<1>2. IdeBoard /\ UNCHANGED <<board, gpio>>
  BY DEF IdeStep, IdeInit, IdeCommand, IdeTransfer, IdeEnd, AtIde
<1>3. /\ IdeCount = io.count
      /\ \A s \in Nat : IdeSector(s) = io.lba + s
  BY <1>2, Widths
<1>4. gpio' \subseteq 0 .. 7
  BY <1>1, <1>2
<1>5. CASE IdeInit
  <2>1. io.st = "init" /\ Return("ok") /\ Len(io.got) = io.count
    BY <1>5, CallOf DEF IdeInit
  <2>. QED
    BY <1>1, <1>2, <1>4, <2>1, ReturnKeeps
<1>6. CASE IdeCommand
  <2>1. io.st = "read" /\ drv.pc = "rest"
    BY <1>6 DEF IdeCommand, AtIde
  <2>2. io.got = <<>> /\ io.count # 0
    BY <1>2, <2>1 DEF DriverInv, Place, Calling, IdeBoard
  <2>3. ASSUME Goto("sectors") PROVE DriverInv'
    BY <1>1, <1>2, <1>4, <2>1, <2>3, CommandKeeps DEF ReadPcs
  <2>4. ASSUME Return("failed") PROVE DriverInv'
    <3>1. Len(io.got) < io.count
      BY <1>1, <2>2
    <3>. QED
      BY <1>1, <1>2, <1>4, <2>1, <2>4, <3>1, ReturnKeeps
  <2>. QED
    BY <1>6, <2>3, <2>4 DEF IdeCommand
<1>7. CASE IdeTransfer
  <2>1. io.st = "read" /\ drv.pc = "sectors" /\ Len(io.got) < io.count
    BY <1>3, <1>7, CallOf DEF IdeTransfer, AtIde, ReadPcs
  <2>2. ASSUME NEW st \in After,
               io' = [io EXCEPT !.got = Received(IdeSector(Len(io.got))), !.st = st],
               drv' = IF st = "read" THEN drv ELSE AtRest
        PROVE  DriverInv'
    <3>1. st \in {"read", "failed"} /\ (st = "failed" => LateErrors)
      BY <2>2 DEF After
    <3>2. /\ IdeSector(Len(io.got)) = io.lba + Len(io.got)
          /\ IdeSector(Len(io.got)) \in Int
      BY <1>1, <1>3
    <3>3. drv' \in DriverRecord
      BY <1>1, <2>2 DEF AtRest, DriverRecord
    <3>. QED
      BY <1>2, <1>4, <2>1, <2>2, <3>1, <3>2, <3>3, ReadKeeps
  <2>3. ASSUME Return("failed") PROVE DriverInv'
    BY <1>1, <1>2, <1>4, <2>1, <2>3, ReturnKeeps
  <2>. QED
    BY <1>7, <2>2, <2>3 DEF IdeTransfer
<1>8. CASE IdeEnd
  <2>1. io.st = "read" /\ Return("ok") /\ Len(io.got) = io.count
    BY <1>3, <1>8, CallOf DEF IdeEnd, AtIde, ReadPcs
  <2>. QED
    BY <1>1, <1>2, <1>4, <2>1, ReturnKeeps
<1>. QED
  BY <1>5, <1>6, <1>7, <1>8 DEF IdeStep

-----------------------------------------------------------------------------
\* The sums of fat16.c stay below 2 ^ 23 for every partition and
\* geometry: within the 24 bits of an IDE address, and the 32 of one in bytes.
LEMMA Product ==
    ASSUME NEW c \in Int, 0 <= c, c <= 65535, NEW s \in Int, 1 <= s, s <= 64
    PROVE  (c - 2) * s \in Int /\ 0 - 128 <= (c - 2) * s /\ (c - 2) * s <= 65533 * 64
<1>1. c \in Int /\ s \in Int /\ 0 <= c /\ c <= 65535 /\ 1 <= s /\ s <= 64
  OBVIOUS
<1>2. (c - 2) * s = c * s - 2 * s /\ c * s \in Int
  BY <1>1, SMT
<1>3. 0 <= c * s
  BY <1>1, SMT
<1>4. (c - 2) * s <= 65533 * 64
  <2>1. CASE c <= 2
    <3>1. (2 - c) * s >= 0
      BY <1>1, <2>1, SMT
    <3>2. (c - 2) * s = 0 - (2 - c) * s
      BY <1>1, SMT
    <3>. QED
      BY <1>1, <3>1, <3>2, SMT
  <2>2. CASE 2 < c
    <3>1. (c - 2) * s <= (c - 2) * 64
      BY <1>1, <2>2, SMT
    <3>. QED
      BY <1>1, <3>1, SMT
  <2>. QED
    BY <1>1, <2>1, <2>2, SMT
<1>. QED
  BY <1>1, <1>2, <1>3, <1>4, SMT

\* The fields of a geometry, each in its width.
LEMMA GeometryFields ==
    ASSUME NEW geo \in Geometry
    PROVE  /\ geo.reserved \in Nat /\ geo.reserved <= 65535
           /\ geo.fats = 1 \/ geo.fats = 2
           /\ geo.fat_size \in Nat /\ geo.fat_size <= 65535
           /\ geo.spc \in Nat /\ 1 <= geo.spc /\ geo.spc <= 64
           /\ geo.root_sectors \in Nat /\ geo.root_sectors <= 4096
BY SMT DEF Geometry

LEMMA EocIs == EOC \in Nat /\ EOC <= 65535
BY SMT DEF EOC

LEMMA WordTyped ==
    ASSUME NEW c \in 0 .. EOC
    PROVE  c \in Nat /\ c <= 65535
BY EocIs

\* Where the partition may be.
Parts == 2 ^ 7 .. 2 ^ 21

LEMMA PartsAre ==
    ASSUME NEW part \in Parts
    PROVE  part \in Nat /\ 128 <= part /\ part <= 2097152
<1>1. 2 ^ 7 = 128 /\ 2 ^ 21 = 2097152
  BY SMT
<1>. QED
  BY <1>1, SMT DEF Parts

LEMMA SumsTyped ==
    ASSUME NEW part \in Parts, NEW geo \in Geometry, NEW c \in 0 .. EOC
    PROVE  /\ RootSector(part, geo) \in Nat /\ RootSector(part, geo) + 1 <= Reach
           /\ FatSectorOf(part, geo, c) \in Nat /\ FatSectorOf(part, geo, c) + 1 <= Reach
           /\ FatSectorOf(part, geo, c) # NoSector
           /\ FirstSectorOf(part, geo, c) \in Nat
           /\ FirstSectorOf(part, geo, c) + 64 <= Reach
<1>1. /\ geo.reserved \in Nat /\ geo.reserved <= 65535
      /\ geo.fats = 1 \/ geo.fats = 2
      /\ geo.fat_size \in Nat /\ geo.fat_size <= 65535
      /\ geo.spc \in Nat /\ 1 <= geo.spc /\ geo.spc <= 64
      /\ geo.root_sectors \in Nat /\ geo.root_sectors <= 4096
  BY GeometryFields
<1>2. c \in Nat /\ c <= 65535
  BY WordTyped
<1>3. part \in Nat /\ 128 <= part /\ part <= 2097152
  BY PartsAre
<1>4. geo.fats * geo.fat_size \in Nat /\ geo.fats * geo.fat_size <= 131070
  BY <1>1, SMT
<1>5. c \div Entries \in Nat /\ c \div Entries <= 65535
  <2>1. Entries \in Nat /\ Entries >= 1
    BY VolumeAssumption, SMT
  <2>. QED
    BY <1>2, <2>1, SMT
<1>6. (c - 2) * geo.spc \in Int /\ 0 - 128 <= (c - 2) * geo.spc /\ (c - 2) * geo.spc <= 65533 * 64
  <2>1. c \in Int /\ 0 <= c /\ geo.spc \in Int
    BY <1>1, <1>2, SMT
  <2>. QED
    BY <1>1, <1>2, <2>1, Product, SMT
<1>7. /\ FatStart(part, geo) \in Nat /\ 128 <= FatStart(part, geo)
      /\ FatStart(part, geo) <= 2162687
  BY <1>1, <1>3, SMT DEF FatStart
<1>8. /\ RootSector(part, geo) \in Nat /\ 128 <= RootSector(part, geo)
      /\ RootSector(part, geo) <= 2293757
  BY <1>4, <1>7, SMT DEF RootSector
<1>9. FatSectorOf(part, geo, c) \in Nat /\ FatSectorOf(part, geo, c) <= 2228222
  BY <1>5, <1>7, SMT DEF FatSectorOf
<1>10. FirstSectorOf(part, geo, c) \in Nat /\ FirstSectorOf(part, geo, c) <= 6491965
  BY <1>1, <1>6, <1>8, SMT DEF FirstSectorOf
<1>11. FatSectorOf(part, geo, c) # NoSector
  BY <1>9, SMT DEF NoSector
<1>. QED
  BY <1>8, <1>9, <1>10, <1>11, ReachIs, SMT

-----------------------------------------------------------------------------
\* What a step of a driver leaves to the program: its call, and the card.
Frame ==
    /\ board' = board /\ card'.hc = card.hc
    /\ io'.lba = io.lba /\ io'.count = io.count
    /\ class_known' => class_known
    /\ io.st \in {"init", "read"} /\ io'.st \in {io.st, "ok", "failed"}
    /\ io.st = "read" => sdhc' = sdhc
    /\ board = "F" /\ class_known' /\ io.st = "init" /\ io'.st = "ok" => sdhc' = card.hc

\* What a driver makes of the call: nothing, its end, or more data.
Answered ==
    \/ io' = io \/ Return("ok") \/ Return("failed")
    \/ \E got : io' = [io EXCEPT !.got = got]
    \/ \E got : io' = [io EXCEPT !.got = got, !.st = "failed"]

LEMMA CallFrame ==
    ASSUME DriverInv, Answered
    PROVE  /\ io'.lba = io.lba /\ io'.count = io.count
           /\ io'.st = io.st \/ io'.st = "ok" \/ io'.st = "failed"
           /\ Return("failed") => io'.st = "failed"
<1>1. io \in CallRecord
  BY DEF DriverInv, DriverTyped
<1>2. CASE io' = io \/ Return("ok") \/ Return("failed")
  BY <1>1, <1>2 DEF CallRecord, Return
<1>3. ASSUME NEW got, io' = [io EXCEPT !.got = got] \/ io' = [io EXCEPT !.got = got, !.st = "failed"]
      PROVE  /\ io'.lba = io.lba /\ io'.count = io.count
             /\ io'.st = io.st \/ io'.st = "failed"
  BY <1>1, <1>3 DEF CallRecord
<1>4. Return("failed") => io'.st = "failed"
  BY <1>1 DEF CallRecord, Return
<1>. QED
  BY <1>2, <1>3, <1>4 DEF Answered

LEMMA FrameSpi ==
    ASSUME DriverInv, Waiting, Selected, SdSpiStep, pc' = pc
    PROVE  Frame /\ Selected'
<1>1. board = "F" /\ board' = board /\ Cs \notin Deselected
  BY DEF SdSpiStep, SdSpiInit, SdSpiReset, SdSpiVersion, SdSpiReady, SdSpiClass, SdSpiCommand,
         SdSpiData, SdSpiEnd, At, Deselected
<1>2. card'.hc = card.hc
  BY CardTyped DEF SdSpiStep, SdSpiInit, SdSpiReset, SdSpiVersion, SdSpiReady, SdSpiClass,
         SdSpiCommand, SdSpiData, SdSpiEnd, CardRecord
<1>3. io.st = "init" \/ io.st = "read"
  BY CallOf DEF SdSpiStep, SdSpiInit, SdSpiReset, SdSpiVersion, SdSpiReady, SdSpiClass,
         SdSpiCommand, SdSpiData, SdSpiEnd, At, InitPcs, ReadPcs, More, Done
<1>4. /\ io'.lba = io.lba /\ io'.count = io.count
      /\ io'.st = io.st \/ io'.st = "ok" \/ io'.st = "failed"
  <2>1. Answered
    <3>1. CASE SdSpiInit \/ SdSpiReset \/ SdSpiReady
      BY <3>1 DEF SdSpiInit, SdSpiReset, SdSpiReady, Goto, Again, Answered
    <3>2. CASE SdSpiVersion \/ SdSpiClass \/ SdSpiCommand \/ SdSpiEnd
      BY <3>2 DEF SdSpiVersion, SdSpiClass, SdSpiCommand, SdSpiEnd, Goto, Answered
    <3>3. CASE SdSpiData
      BY <3>3 DEF SdSpiData, Answered
    <3>. QED
      BY <3>1, <3>2, <3>3 DEF SdSpiStep
  <2>. QED
    BY <2>1, CallFrame
<1>5. \/ /\ UNCHANGED <<sdhc, class_known>>
         /\ io.st = "init" => io'.st # "ok"
      \/ /\ io.st = "init"
         /\ (sdhc' = card.hc /\ UNCHANGED class_known) \/ class_known' = FALSE
  <2>1. CASE SdSpiClass
    <3>1. io.st = "init"
      BY <2>1, CallOf DEF SdSpiClass, At, InitPcs
    <3>. QED
      BY <2>1, <3>1 DEF SdSpiClass
  <2>2. CASE SdSpiData \/ SdSpiEnd \/ SdSpiCommand
    <3>1. io.st = "read"
      BY <2>2, CallOf DEF SdSpiData, SdSpiEnd, SdSpiCommand, At, ReadPcs, More, Done
    <3>. QED
      BY <2>2, <3>1 DEF SdSpiData, SdSpiEnd, SdSpiCommand
  <2>3. CASE SdSpiInit \/ SdSpiReset \/ SdSpiVersion \/ SdSpiReady
    <3>1. io' = io \/ io'.st = "failed"
      <4>1. io' = io \/ Return("failed")
        BY <2>3 DEF SdSpiInit, SdSpiReset, SdSpiVersion, SdSpiReady, Goto, Again
      <4>. QED
        BY <4>1, CallFrame DEF Answered
    <3>2. UNCHANGED <<sdhc, class_known>>
      BY <2>3 DEF SdSpiInit, SdSpiReset, SdSpiVersion, SdSpiReady
    <3>. QED
      BY <3>1, <3>2
  <2>. QED
    BY <2>1, <2>2, <2>3 DEF SdSpiStep
<1>6. Frame
  BY <1>1, <1>2, <1>3, <1>4, <1>5 DEF Frame
<1>7. Cs \in gpio' => drv'.pc = "token"
  <2>1. CASE SdSpiCommand
    <3>1. CASE Goto("token")
      BY <3>1, GotoTyped DEF ReadPcs
    <3>2. CASE gpio' = Deselected
      BY <3>2, <1>1
    <3>. QED
      BY <2>1, <3>1, <3>2 DEF SdSpiCommand
  <2>2. CASE SdSpiEnd
    BY <1>1, <2>2 DEF SdSpiEnd, Selected, At
  <2>3. CASE gpio' = Deselected
    BY <2>3, <1>1
  <2>. QED
    BY <2>1, <2>2, <2>3 DEF SdSpiStep, SdSpiInit, SdSpiReset, SdSpiVersion, SdSpiReady,
                           SdSpiClass, SdSpiData
<1>. QED
  BY <1>6, <1>7 DEF Selected

LEMMA FrameBitbang ==
    ASSUME DriverInv, Waiting, Selected, SdBitbangStep, pc' = pc
    PROVE  Frame /\ Selected'
<1>1. board = "08" /\ board' = board /\ Cs \notin Deselected /\ UNCHANGED <<sdhc, class_known>>
  BY DEF SdBitbangStep, BitInit, BitFirst, BitCommand, BitReady, BitRead, BitBlock, BitNoToken,
         BitStop, On08, Deselected
<1>2. card'.hc = card.hc
  <2>1. card \in CardRecord
    BY CardTyped
  <2>2. CASE BitRead
    BY <2>1, <2>2 DEF BitRead, CardRecord
  <2>3. CASE BitFirst \/ BitReady \/ BitNoToken \/ BitStop \/ BitInit \/ BitBlock
    BY <2>1, <2>3 DEF BitFirst, BitReady, BitNoToken, BitStop, BitInit, BitBlock, CardRecord
  <2>4. ASSUME NEW p, NEW next, BitCommand(p, next) PROVE card'.hc = card.hc
    BY <2>1, <2>4 DEF BitCommand, CardRecord
  <2>. QED
    BY <2>2, <2>3, <2>4 DEF SdBitbangStep
<1>3. io.st = "init" \/ io.st = "read"
  BY CallOf DEF SdBitbangStep, BitInit, BitFirst, BitCommand, BitReady, BitRead, BitBlock,
         BitNoToken, BitStop, On08, InitPcs, ReadPcs, More, Done
<1>4. /\ io'.lba = io.lba /\ io'.count = io.count
      /\ io'.st = io.st \/ io'.st = "ok" \/ io'.st = "failed"
  <2>1. CASE BitBlock
    BY <2>1, CallFrame DEF BitBlock, Answered
  <2>2. ASSUME NEW p, NEW next, BitCommand(p, next) PROVE io' = io \/ Return("failed")
    BY <2>2 DEF BitCommand, Goto, ResetFails
  <2>3. CASE BitInit \/ BitFirst \/ BitReady \/ BitRead \/ BitNoToken \/ BitStop
    <3>1. io' = io \/ Return("ok") \/ Return("failed")
      BY <2>3 DEF BitInit, BitFirst, BitReady, BitRead, BitNoToken, BitStop, Goto, ResetFails
    <3>. QED
      BY <3>1, CallFrame DEF Answered
  <2>. QED
    BY <2>1, <2>2, <2>3, CallFrame DEF SdBitbangStep, Answered
<1>5. Frame
  BY <1>1, <1>2, <1>3, <1>4 DEF Frame
<1>6. CASE BitInit
  <2>1. io.st = "init" /\ io' = io /\ drv'.pc = "first"
    BY <1>6, GotoTyped DEF BitInit, InitPcs
  <2>2. pc = "init"
    BY <2>1 DEF Waiting
  <2>. QED
    BY <1>5, <2>1, <2>2, <1>1 DEF Selected
<1>7. CASE (\E p \in {"cmd0", "cmd8", "cmd58"} : On08(p) /\ UNCHANGED gpio) \/ BitReady
  <2>1. drv.pc \in {"cmd0", "cmd8", "cmd58", "acmd41"} /\ gpio' = gpio
    BY <1>7 DEF On08, BitReady
  <2>2. io.st = "init"
    BY <2>1, CallOf DEF InitPcs
  <2>3. pc # "prompt"
    BY <2>2 DEF Waiting, IdlePcs
  <2>4. Cs \notin gpio
    BY <2>1, <2>3, <1>1 DEF Selected
  <2>. QED
    BY <1>5, <2>1, <2>4 DEF Selected
<1>8. CASE BitRead
  <2>1. gpio' = Deselected \/ Goto("blocks") \/ Goto("nothing")
    BY <1>8 DEF BitRead
  <2>2. gpio' = Deselected \/ drv'.pc = "blocks" \/ drv'.pc = "nothing"
    BY <2>1, GotoTyped DEF ReadPcs
  <2>. QED
    BY <1>1, <1>5, <2>2 DEF Selected
<1>9. CASE BitBlock
  BY <1>1, <1>5, <1>9 DEF BitBlock, Selected, On08
<1>10. CASE gpio' = Deselected
  BY <1>1, <1>5, <1>10 DEF Selected
<1>. QED
  BY <1>5, <1>6, <1>7, <1>8, <1>9, <1>10
     DEF SdBitbangStep, BitFirst, BitCommand, BitNoToken, BitStop

LEMMA FrameIde ==
    ASSUME DriverInv, Waiting, Selected, IdeStep, UNCHANGED <<card, sdhc, class_known>>, pc' = pc
    PROVE  Frame /\ Selected'
<1>1. board \notin {"F", "08"} /\ board' = board
  BY DEF IdeStep, IdeInit, IdeCommand, IdeTransfer, IdeEnd, AtIde, IdeBoard
<1>2. io.st = "init" \/ io.st = "read"
  BY CallOf DEF IdeStep, IdeInit, IdeCommand, IdeTransfer, IdeEnd, AtIde, ReadPcs
<1>3. After \subseteq {"read", "failed"}
  BY DEF After
<1>4. /\ io'.lba = io.lba /\ io'.count = io.count
      /\ io'.st = io.st \/ io'.st = "ok" \/ io'.st = "failed"
  <2>1. CASE IdeTransfer
    <3>1. io.st = "read"
      BY <2>1, CallOf DEF IdeTransfer, AtIde, ReadPcs
    <3>. QED
      <4>1. CASE Return("failed")
        BY <4>1, CallFrame DEF Answered
      <4>2. ASSUME NEW st \in {"read", "failed"}, NEW got, io' = [io EXCEPT !.got = got, !.st = st]
            PROVE  /\ io'.lba = io.lba /\ io'.count = io.count
                   /\ io'.st = "read" \/ io'.st = "failed"
        BY <4>2 DEF DriverInv, DriverTyped, CallRecord
      <4>. QED
        BY <2>1, <3>1, <1>3, <4>1, <4>2 DEF IdeTransfer
  <2>2. CASE IdeInit \/ IdeCommand \/ IdeEnd
    BY <2>2, CallFrame DEF IdeInit, IdeCommand, IdeEnd, Goto, Answered
  <2>. QED
    BY <2>1, <2>2 DEF IdeStep
<1>5. Frame
  BY <1>1, <1>2, <1>4 DEF Frame
<1>6. Selected'
  BY <1>1 DEF Selected
<1>. QED
  BY <1>5, <1>6

LEMMA DriverKeeps ==
    ASSUME DiskInv, Driver
    PROVE  DriverInv' /\ Frame /\ Selected'
<1>1. /\ DriverInv /\ Waiting /\ Counting /\ Selected /\ DriverStep /\ pc' = pc
  BY DEF DiskInv, Driver
<1>2. board = "F" /\ class_known /\ io.st = "read" => sdhc = card.hc
  BY <1>1 DEF Waiting, Counting, UpPcs, IdlePcs, ReadingPcs
<1>3. CASE SdSpiStep
  <2>1. DriverInv'
    BY <1>1, <1>2, <1>3, BringUpSpi, ReadSpi DEF SdSpiStep
  <2>. QED
    BY <1>1, <1>3, <2>1, FrameSpi
<1>4. CASE SdBitbangStep
  <2>1. DriverInv'
    BY <1>1, <1>4, BringUpBitbang, ReadBitbang DEF SdBitbangStep
  <2>. QED
    BY <1>1, <1>4, <2>1, FrameBitbang
<1>5. CASE IdeStep /\ UNCHANGED <<card, sdhc, class_known>>
  BY <1>1, <1>5, IdeKeeps, FrameIde
<1>. QED
  BY <1>1, <1>3, <1>4, <1>5 DEF DriverStep

LEMMA DriverDisk ==
    ASSUME DiskInv, Driver, UNCHANGED task
    PROVE  DiskInv'
<1>1. /\ DriverInv' /\ Frame /\ Selected'
      /\ UNCHANGED <<pc, part_lba, stackVars, fileVars, fatVars, disk, task>>
      /\ Waiting /\ Counting /\ StoreTyped /\ Asked /\ Cached
  BY DriverKeeps DEF Driver, DiskInv
<1>2. Waiting'
  BY <1>1 DEF Frame, Waiting, IdlePcs, ReadingPcs
<1>3. Counting'
  <2>1. CASE io.st = "read"
    <3>1. pc \in UpPcs
      BY <1>1, <2>1 DEF Waiting, UpPcs, IdlePcs
    <3>. QED
      BY <1>1, <2>1, <3>1 DEF Counting, Frame
  <2>2. CASE io.st = "init"
    <3>1. pc = "init"
      BY <1>1, <2>2 DEF Waiting, IdlePcs, ReadingPcs
    <3>. QED
      BY <1>1, <2>2, <3>1 DEF Counting, Frame, UpPcs, ReadingPcs
  <2>. QED
    BY <1>1, <2>1, <2>2 DEF Frame
<1>4. StoreTyped' /\ Asked'
  <2>1. FatSector' = FatSector
    BY <1>1 DEF stackVars, fileVars, FatSector
  <2>2. UNCHANGED <<boot_sector, entry, current_cluster, sector, buffer, size, cached_sector,
                    fat_buffer>>
    BY <1>1 DEF stackVars, fileVars, fatVars
  <2>3. io'.count = io.count /\ io'.lba = io.lba
    BY <1>1 DEF Frame
  <2>4. StoreTyped'
    BY <1>1, <2>2 DEF StoreTyped
  <2>5. Asked'
    BY <1>1, <2>1, <2>2, <2>3 DEF Asked
  <2>. QED
    BY <2>4, <2>5
<1>5. Cached'
  BY <1>1 DEF Cached, Addressed, Frame, fatVars
<1>. QED
  BY <1>1, <1>2, <1>3, <1>4, <1>5 DEF DiskInv

\* A step of the program, that makes a call of the driver or none.
LEMMA NewCallKeeps ==
    ASSUME DriverInv, io.st \notin {"init", "read"}, gpio' \subseteq 0 .. 7,
           UNCHANGED <<board, drv, card, sdhc, class_known>>,
           io' = io \/ io' = NoCall \/ CallInit
    PROVE  DriverInv'
<1>1. DriverTyped /\ Calling /\ Place /\ Honest /\ io \in CallRecord /\ drv = AtRest
  BY DEF DriverInv, DriverTyped, Calling
<1>2. CASE io' = io
  <2>1. DriverTyped' /\ Calling' /\ Honest'
    BY <1>1, <1>2 DEF DriverTyped, Calling, IdeBoard, Honest, Addressed
  <2>2. Place'
    BY <1>1, <1>2 DEF Place, AtRest
  <2>. QED
    BY <2>1, <2>2 DEF DriverInv
<1>3. CASE io' = NoCall \/ CallInit
  <2>1. /\ io'.st = "none" \/ io'.st = "init"
        /\ io'.lba = 0 /\ io'.count = 0 /\ io'.got = <<>> /\ io' \in CallRecord
    <3>1. \/ io' = [st |-> "none", lba |-> 0, count |-> 0, got |-> <<>>]
          \/ io' = [st |-> "init", lba |-> 0, count |-> 0, got |-> <<>>]
      BY <1>3 DEF NoCall, CallInit
    <3>2. ASSUME NEW st \in {"none", "init"},
                 io' = [st |-> st, lba |-> 0, count |-> 0, got |-> <<>>]
          PROVE  /\ io'.st = st /\ io'.lba = 0 /\ io'.count = 0 /\ io'.got = <<>>
                 /\ io' \in CallRecord
      BY <3>2 DEF CallRecord
    <3>. QED
      BY <3>1, <3>2
  <2>2. DriverTyped'
    BY <1>1, <2>1 DEF DriverTyped
  <2>3. Calling'
    <3>1. 0 + 0 <= Reach
      BY ReachIs
    <3>. QED
      BY <1>1, <2>1, <3>1 DEF Calling, IdeBoard, AtRest, ReadPcs
  <2>4. Place' /\ Honest'
    BY <1>1, <2>1 DEF Place, Honest, AtRest
  <2>. QED
    BY <2>2, <2>3, <2>4 DEF DriverInv
<1>. QED
  BY <1>2, <1>3

LEMMA NewReadKeeps ==
    ASSUME DriverInv, io.st \notin {"init", "read"}, gpio' \subseteq 0 .. 7,
           UNCHANGED <<board, drv, card, sdhc, class_known>>,
           NEW l \in Int, NEW c \in Nat, 1 <= c, c <= 255, 0 <= l, l + c <= Reach,
           CallRead(l, c)
    PROVE  /\ DriverInv' /\ io'.st = "read" /\ io'.count = c /\ io'.lba = l
<1>1. DriverTyped /\ Calling /\ Place /\ Honest /\ drv = AtRest
  BY DEF DriverInv, Calling
<1>2. /\ io'.st = "read" /\ io'.lba = l /\ io'.count = c /\ io'.got = <<>> /\ io' \in CallRecord
  BY DEF CallRead, CallRecord
<1>3. DriverTyped'
  BY <1>1, <1>2 DEF DriverTyped
<1>4. Calling'
  BY <1>1, <1>2 DEF Calling, IdeBoard, AtRest, InitPcs
<1>5. Place' /\ Honest'
  BY <1>1, <1>2 DEF Place, Honest, AtRest
<1>. QED
  BY <1>2, <1>3, <1>4, <1>5 DEF DriverInv

\* What most steps of the program leave as it was.
LEMMA StepKeeps ==
    ASSUME DiskInv, UNCHANGED <<board, drv, card, sdhc, class_known>>,
           io.st \notin {"init", "read"}, pc # "prompt", Cs \in gpio' => Cs \in gpio,
           pc' \in UpPcs => pc \in UpPcs \/ io.st = "ok", io'.st = "ok" => io.st = "ok"
    PROVE  Counting' /\ Selected'
<1>1. Counting'
  BY DEF DiskInv, Counting
<1>2. drv = AtRest
  BY DEF DiskInv, DriverInv, Calling
<1>3. board \in {"F", "08"} => Cs \notin gpio
  BY <1>2 DEF DiskInv, Selected, AtRest
<1>. QED
  BY <1>1, <1>3 DEF Selected

LEMMA CachedKeeps ==
    ASSUME Cached, UNCHANGED <<board, card, class_known, cached_sector, fat_buffer, disk>>
    PROVE  Cached'
BY DEF Cached, Addressed

LEMMA DiskTyped ==
    ASSUME StoreTyped
    PROVE  /\ disk \in Disk /\ disk.part \in Parts /\ disk.geo \in Geometry
           /\ disk.size \in Nat /\ disk.chain \in Seq(Clusters) /\ disk.chain # <<>>
           /\ disk.end \in 0 .. EOC /\ disk.other \in 0 .. EOC
           /\ part_lba \in Parts
<1>1. disk \in Disk /\ disk.chain # <<>>
  BY DisksAssumption DEF StoreTyped
<1>2. /\ disk.part \in Parts /\ disk.geo \in Geometry
      /\ disk.size \in Nat /\ disk.chain \in Seq(Clusters)
      /\ disk.end \in 0 .. EOC /\ disk.other \in 0 .. EOC
  BY <1>1 DEF Disk, Parts
<1>3. 2 ^ 7 = 128 /\ 2 ^ 21 = 2097152
  BY SMT
<1>4. PART_LBA \in Parts
  BY <1>3, SMT DEF PART_LBA, Parts
<1>. QED
  BY <1>1, <1>2, <1>4 DEF StoreTyped

LEMMA StartKeeps ==
    ASSUME DiskInv, Start
    PROVE  DiskInv'
<1>1. /\ io.st = "none" /\ DriverInv /\ Waiting /\ StoreTyped /\ Cached
      /\ gpio' \subseteq 0 .. 7 /\ gpio' = gpio /\ pc = "start" /\ pc' = "init" /\ CallInit
      /\ UNCHANGED <<board, drv, card, sdhc, class_known, task, part_lba, disk, boot_sector, entry>>
      /\ UNCHANGED <<current_cluster, sector, buffer, size, cached_sector, fat_buffer>>
  BY DEF DiskInv, Waiting, IdlePcs, Start, StaysPut, stackVars, fileVars, fatVars, DriverInv,
         DriverTyped
<1>2. DriverInv'
  BY <1>1, NewCallKeeps
<1>3. io'.st = "init" /\ io'.count = 0
  BY <1>1 DEF CallInit, NoCall
<1>4. Counting' /\ Selected'
  BY <1>1, <1>3, StepKeeps DEF UpPcs, ReadingPcs
<1>5. Waiting' /\ Asked'
  BY <1>1, <1>3 DEF Waiting, Asked, IdlePcs, ReadingPcs
<1>6. StoreTyped' /\ Cached'
  BY <1>1, CachedKeeps DEF StoreTyped
<1>. QED
  BY <1>2, <1>4, <1>5, <1>6 DEF DiskInv

LEMMA BootKeeps ==
    ASSUME DiskInv, Boot
    PROVE  DiskInv'
<1>1. /\ io.st = "none" /\ DriverInv /\ Waiting /\ StoreTyped /\ Cached /\ Selected
      /\ gpio' \subseteq 0 .. 7 /\ gpio' = gpio /\ pc = "prompt" /\ pc' = "init" /\ CallInit
      /\ task' = "boot" /\ task # "sdread"
      /\ UNCHANGED <<board, drv, card, sdhc, class_known, part_lba, disk, boot_sector, entry>>
      /\ UNCHANGED <<current_cluster, sector, buffer, size, cached_sector, fat_buffer>>
  BY DEF DiskInv, Waiting, IdlePcs, Boot, Prompt, StaysPut, stackVars, fileVars, fatVars, DriverInv,
         DriverTyped
<1>2. DriverInv' /\ drv = AtRest
  BY <1>1, NewCallKeeps DEF DriverInv, Calling
<1>3. io'.st = "init" /\ io'.count = 0
  BY <1>1 DEF CallInit, NoCall
<1>4. Counting'
  BY <1>1, <1>3 DEF Counting, UpPcs, ReadingPcs
<1>5. Selected'
  BY <1>1, <1>2, <1>3 DEF Selected, AtRest
<1>6. Waiting' /\ Asked'
  BY <1>1, <1>3 DEF Waiting, Asked, IdlePcs, ReadingPcs
<1>7. StoreTyped' /\ Cached'
  BY <1>1, CachedKeeps DEF StoreTyped
<1>. QED
  BY <1>2, <1>4, <1>5, <1>6, <1>7 DEF DiskInv

\* A read of a block, by the program.
LEMMA ReadOneKeeps ==
    ASSUME DriverInv, Returned \/ io.st = "none", gpio' = gpio,
           UNCHANGED <<board, drv, card, sdhc, class_known>>,
           NEW l \in Int, 0 <= l, l + 1 <= Reach, CallRead(l, 1)
    PROVE  DriverInv' /\ io'.st = "read" /\ io'.count = 1 /\ io'.lba = l
<1>1. io.st \notin {"init", "read"} /\ gpio' \subseteq 0 .. 7
  BY DEF Returned, DriverInv, DriverTyped
<1>. QED
  BY <1>1, NewReadKeeps

LEMMA BroughtUpKeeps ==
    ASSUME DiskInv, BroughtUp
    PROVE  DiskInv'
<1>1. /\ Returned /\ DriverInv /\ Waiting /\ StoreTyped /\ Cached
      /\ gpio' = gpio /\ pc = "init"
      /\ UNCHANGED <<board, drv, card, sdhc, class_known, task, part_lba, disk, boot_sector, entry>>
      /\ UNCHANGED <<current_cluster, sector, buffer, size, cached_sector, fat_buffer>>
  BY DEF DiskInv, BroughtUp, StaysPut, stackVars, fileVars, fatVars
<1>2. StoreTyped' /\ Cached' /\ io.st \in {"ok", "failed"} /\ gpio' \subseteq 0 .. 7
  BY <1>1, CachedKeeps DEF StoreTyped, Returned, DriverInv, DriverTyped
<1>3. CASE io.st = "failed"
  <2>1. pc' = "failed" /\ io' = NoCall
    BY <1>3 DEF BroughtUp
  <2>2. DriverInv'
    BY <1>1, <1>2, <2>1, NewCallKeeps
  <2>3. Counting' /\ Selected'
    BY <1>1, <1>2, <2>1, StepKeeps DEF UpPcs, ReadingPcs, NoCall
  <2>4. Waiting' /\ Asked'
    BY <1>1, <2>1 DEF Waiting, Asked, IdlePcs, ReadingPcs, NoCall
  <2>. QED
    BY <1>2, <2>2, <2>3, <2>4 DEF DiskInv
<1>4. CASE io.st = "ok" /\ task = "sdread"
  <2>1. pc' = "mbr" /\ CallRead(0, 1)
    BY <1>4 DEF BroughtUp
  <2>2. 0 + 1 <= Reach
    BY ReachIs
  <2>3. DriverInv' /\ io'.st = "read" /\ io'.count = 1
    BY <1>1, <2>1, <2>2, ReadOneKeeps
  <2>4. Counting' /\ Selected'
    BY <1>1, <1>4, <2>1, <2>3, StepKeeps
  <2>5. Waiting' /\ Asked'
    BY <1>1, <1>4, <2>1, <2>3 DEF Waiting, Asked, IdlePcs, ReadingPcs
  <2>. QED
    BY <1>2, <2>3, <2>4, <2>5 DEF DiskInv
<1>5. CASE io.st = "ok" /\ task # "sdread"
  <2>1. pc' = "boot_sector" /\ CallRead(PART_LBA, 1) /\ part_lba = PART_LBA
    BY <1>1, <1>5 DEF BroughtUp, StoreTyped
  <2>2. PART_LBA \in Int /\ 0 <= PART_LBA /\ PART_LBA + 1 <= Reach
    BY ReachIs DEF PART_LBA
  <2>3. DriverInv' /\ io'.st = "read" /\ io'.count = 1 /\ io'.lba = PART_LBA
    BY <1>1, <2>1, <2>2, ReadOneKeeps
  <2>4. Counting' /\ Selected'
    BY <1>1, <1>5, <2>1, <2>3, StepKeeps
  <2>5. Waiting' /\ Asked'
    BY <1>1, <1>5, <2>1, <2>3 DEF Waiting, Asked, IdlePcs, ReadingPcs
  <2>. QED
    BY <1>2, <2>3, <2>4, <2>5 DEF DiskInv
<1>. QED
  BY <1>2, <1>3, <1>4, <1>5

\* A read that has failed ends the command.
LEMMA FailKeeps ==
    ASSUME DiskInv, Returned, pc' = "failed", io' = NoCall, gpio' = gpio,
           UNCHANGED <<board, drv, card, sdhc, class_known, task, part_lba, disk, boot_sector>>,
           UNCHANGED <<entry, current_cluster, sector, buffer, size, cached_sector, fat_buffer>>
    PROVE  DiskInv'
<1>1. /\ DriverInv /\ Waiting /\ StoreTyped /\ Cached
      /\ io.st \in {"ok", "failed"} /\ gpio' \subseteq 0 .. 7
  BY DEF DiskInv, Returned, DriverInv, DriverTyped
<1>2. DriverInv'
  BY <1>1, NewCallKeeps
<1>3. pc # "prompt"
  BY <1>1 DEF Waiting, IdlePcs
<1>4. Counting' /\ Selected'
  BY <1>1, <1>3, StepKeeps DEF UpPcs, ReadingPcs, NoCall
<1>5. Waiting' /\ Asked'
  BY <1>1 DEF Waiting, Asked, IdlePcs, ReadingPcs, NoCall
<1>6. StoreTyped' /\ Cached'
  BY <1>1, CachedKeeps DEF StoreTyped
<1>. QED
  BY <1>2, <1>4, <1>5, <1>6 DEF DiskInv

LEMMA PrintTableKeeps ==
    ASSUME DiskInv, PrintTable
    PROVE  DiskInv'
<1>1. /\ Returned /\ DriverInv /\ Waiting /\ StoreTyped /\ Cached
      /\ gpio' = gpio /\ pc = "mbr"
      /\ UNCHANGED <<board, drv, card, sdhc, class_known, task, part_lba, disk, boot_sector>>
      /\ UNCHANGED <<entry, current_cluster, sector, buffer, size, cached_sector, fat_buffer>>
  BY DEF DiskInv, PrintTable, StaysPut, stackVars, fileVars, fatVars
<1>2. CASE pc' = "failed"
  BY <1>1, <1>2, FailKeeps DEF PrintTable
<1>3. CASE io.st = "ok" /\ pc' # "failed"
  <2>1. pc' = "partition" /\ CallRead(0, 1)
    BY <1>3 DEF PrintTable
  <2>2. 0 + 1 <= Reach
    BY ReachIs
  <2>3. DriverInv' /\ io'.st = "read" /\ io'.count = 1
    BY <1>1, <2>1, <2>2, ReadOneKeeps
  <2>4. Counting' /\ Selected'
    BY <1>1, <1>3, <2>1, <2>3, StepKeeps
  <2>5. Waiting' /\ Asked'
    BY <1>1, <1>3, <2>1, <2>3 DEF Waiting, Asked, IdlePcs, ReadingPcs
  <2>6. StoreTyped' /\ Cached'
    BY <1>1, CachedKeeps DEF StoreTyped
  <2>. QED
    BY <2>3, <2>4, <2>5, <2>6 DEF DiskInv
<1>. QED
  BY <1>2, <1>3 DEF PrintTable

LEMMA FindPartitionKeeps ==
    ASSUME DiskInv, FindPartition
    PROVE  DiskInv'
<1>1. /\ Returned /\ DriverInv /\ Waiting /\ StoreTyped /\ Cached
      /\ gpio' = gpio /\ pc = "partition"
      /\ UNCHANGED <<board, drv, card, sdhc, class_known, task, disk, boot_sector>>
      /\ UNCHANGED <<entry, current_cluster, sector, buffer, size, cached_sector, fat_buffer>>
  BY DEF DiskInv, FindPartition, StaysPut, stackVars, fileVars, fatVars
<1>2. CASE pc' = "failed"
  BY <1>1, <1>2, FailKeeps DEF FindPartition
<1>3. CASE io.st = "ok" /\ pc' # "failed"
  <2>1. pc' = "boot_sector" /\ part_lba' = disk.part /\ CallRead(disk.part, 1)
    BY <1>3 DEF FindPartition
  <2>2. disk.part \in Int /\ 0 <= disk.part /\ disk.part + 1 <= Reach /\ task = "sdread"
    BY <1>1, DiskTyped, PartsAre, ReachIs DEF Waiting
  <2>3. DriverInv' /\ io'.st = "read" /\ io'.count = 1 /\ io'.lba = disk.part
    BY <1>1, <2>1, <2>2, ReadOneKeeps
  <2>4. Counting' /\ Selected'
    BY <1>1, <1>3, <2>1, <2>3, StepKeeps
  <2>5. Waiting' /\ Asked'
    BY <1>1, <1>3, <2>1, <2>3 DEF Waiting, Asked, IdlePcs, ReadingPcs
  <2>6. StoreTyped' /\ Cached'
    BY <1>1, <2>1, <2>2, CachedKeeps DEF StoreTyped
  <2>. QED
    BY <2>3, <2>4, <2>5, <2>6 DEF DiskInv
<1>. QED
  BY <1>2, <1>3 DEF FindPartition

\* A number of 16 bits whose bytes change places is one of 16 bits.
LEMMA SwapTyped ==
    ASSUME NEW n \in Nat, n <= 65535
    PROVE  Swap16(n) \in Nat /\ Swap16(n) <= 65535
<1>1. n % 256 \in Nat /\ n % 256 <= 255
  OBVIOUS
<1>2. n \div 256 \in Nat /\ n \div 256 <= 255
  OBVIOUS
<1>. QED
  BY <1>1, <1>2 DEF Swap16

Fields == [reserved : Nat, fats : Nat, fat_size : Nat, spc : Nat, root_sectors : Nat]

LEMMA SwappedFields ==
    ASSUME NEW geo \in Fields
    PROVE  /\ SwappedGeometry(geo).spc = geo.spc /\ SwappedGeometry(geo).fats = geo.fats
           /\ SwappedGeometry(geo).reserved = Swap16(geo.reserved)
           /\ SwappedGeometry(geo).fat_size = Swap16(geo.fat_size)
           /\ SwappedGeometry(geo).root_sectors = geo.root_sectors
           /\ Swap16(geo.reserved) \in Nat /\ Swap16(geo.fat_size) \in Nat =>
                  SwappedGeometry(geo) \in Fields
BY DEF Fields, SwappedGeometry

\* What is taken for a boot sector has clusters no larger than the disk's.
LEMMA BootSectorTyped ==
    ASSUME StoreTyped
    PROVE  /\ NoGeometry \in Geometry /\ NoGeometry.spc <= disk.geo.spc
           /\ SwappedGeometry(boot_sector) \in Geometry
           /\ SwappedGeometry(boot_sector).spc <= disk.geo.spc
           /\ \A lba : /\ AsBootSector(disk, lba) \in Geometry
                       /\ AsBootSector(disk, lba).spc <= disk.geo.spc
<1>1. disk.geo \in Geometry /\ disk.geo.spc \in Nat /\ 1 <= disk.geo.spc
  BY DiskTyped, GeometryFields
<1>2. NoGeometry \in Geometry /\ NoGeometry.spc <= disk.geo.spc
  BY <1>1, SMT DEF NoGeometry, Geometry
<1>3. /\ boot_sector \in Geometry /\ boot_sector.spc <= disk.geo.spc
  BY DEF StoreTyped
<1>4. /\ Swap16(boot_sector.reserved) \in Nat /\ Swap16(boot_sector.reserved) <= 65535
      /\ Swap16(boot_sector.fat_size) \in Nat /\ Swap16(boot_sector.fat_size) <= 65535
  BY <1>3, GeometryFields, SwapTyped
<1>5. /\ SwappedGeometry(boot_sector) \in Geometry
      /\ SwappedGeometry(boot_sector).spc <= disk.geo.spc
  <2>1. boot_sector \in Fields
    BY <1>3 DEF Geometry, Fields
  <2>2. SwappedGeometry(boot_sector) \in Fields
    BY <1>4, <2>1, SwappedFields
  <2>3. /\ boot_sector.fats \in {1, 2} /\ 1 <= boot_sector.spc /\ boot_sector.spc <= 64
        /\ boot_sector.root_sectors <= 4096
    BY <1>3 DEF Geometry
  <2>. DEFINE geo == SwappedGeometry(boot_sector)
  <2>4. /\ geo.spc = boot_sector.spc /\ geo.reserved = Swap16(boot_sector.reserved)
        /\ geo.fat_size = Swap16(boot_sector.fat_size) /\ geo.fats = boot_sector.fats
        /\ geo.root_sectors = boot_sector.root_sectors
    BY <2>1, SwappedFields
  <2>5. geo \in Fields
    BY <2>2
  <2>. HIDE DEF geo
  <2>6. geo.reserved <= 65535 /\ geo.fat_size <= 65535
    BY <1>4, <2>4
  <2>7. /\ geo.fats \in {1, 2} /\ 1 <= geo.spc /\ geo.spc <= 64
        /\ geo.root_sectors <= 4096 /\ geo.spc <= disk.geo.spc
    BY <1>3, <2>3, <2>4
  <2>8. geo \in Geometry
    BY <2>5, <2>6, <2>7 DEF Geometry, Fields
  <2>. QED
    BY <2>7, <2>8 DEF geo
<1>. QED
  BY <1>1, <1>2, <1>5 DEF AsBootSector

LEMMA ReadBootSectorKeeps ==
    ASSUME DiskInv, ReadBootSector, UNCHANGED task
    PROVE  DiskInv'
<1>1. /\ Returned /\ DriverInv /\ Waiting /\ StoreTyped /\ Cached
      /\ gpio' = gpio /\ pc = "boot_sector" /\ pc' = "list"
      /\ CallRead(RootSector(part_lba, boot_sector'), 1)
      /\ UNCHANGED <<board, drv, card, sdhc, class_known, task, disk, part_lba>>
      /\ UNCHANGED <<entry, current_cluster, sector, buffer, size, cached_sector, fat_buffer>>
  BY DEF DiskInv, ReadBootSector, driverVars, stackVars, fileVars, fatVars
<1>2. boot_sector' \in Geometry /\ boot_sector'.spc <= disk.geo.spc
  BY <1>1, BootSectorTyped DEF ReadBootSector
<1>3. 0 \in 0 .. EOC
  BY SMT DEF EOC
<1>4. /\ RootSector(part_lba, boot_sector') \in Nat
      /\ RootSector(part_lba, boot_sector') + 1 <= Reach
  BY <1>1, <1>2, <1>3, DiskTyped, SumsTyped
<1>5. RootSector(part_lba, boot_sector') \in Int /\ 0 <= RootSector(part_lba, boot_sector')
  BY <1>4
<1>6. DriverInv' /\ io'.st = "read" /\ io'.count = 1
  BY <1>1, <1>4, <1>5, ReadOneKeeps
<1>7. Counting' /\ Selected'
  BY <1>1, <1>6, StepKeeps DEF Returned, UpPcs, ReadingPcs
<1>8. Waiting' /\ Asked'
  BY <1>1, <1>6 DEF Waiting, Asked, IdlePcs, ReadingPcs
<1>9. StoreTyped' /\ Cached'
  BY <1>1, <1>2, CachedKeeps DEF StoreTyped
<1>. QED
  BY <1>6, <1>7, <1>8, <1>9 DEF DiskInv

LEMMA EocTyped == EOC \in Nat
BY SMT DEF EOC

LEMMA FilesTyped ==
    ASSUME StoreTyped
    PROVE  /\ NoFile \in FileRecord /\ SwappedFile(entry) \in FileRecord
           /\ \A lba : AsDirectory(disk, lba) \in FileRecord
<1>1. NoFile \in FileRecord
  BY EocTyped DEF NoFile, FileRecord, Words
<1>2. SwappedFile(entry) \in FileRecord
  <2>1. entry \in FileRecord
    BY DEF StoreTyped
  <2>2. \A b \in BOOLEAN : [entry EXCEPT !.swapped = b] \in FileRecord
    BY <2>1 DEF FileRecord
  <2>3. [entry EXCEPT !.swapped = ~@] = [entry EXCEPT !.swapped = ~entry.swapped]
    OBVIOUS
  <2>4. (~entry.swapped) \in BOOLEAN
    OBVIOUS
  <2>5. [entry EXCEPT !.swapped = ~entry.swapped] \in FileRecord
    BY <2>2, <2>4, Zenon
  <2>. QED
    BY <1>1, <2>3, <2>5, Zenon DEF SwappedFile
<1>3. File(disk) \in FileRecord
  <2>1. disk.size \in Nat /\ disk.chain \in Seq(Clusters) /\ disk.chain # <<>>
    BY DiskTyped
  <2>2. disk.chain[1] \in Clusters
    BY <2>1
  <2>3. disk.chain[1] \in 2 .. EOC - 1
    BY <2>2, VolumeAssumption
  <2>4. disk.chain[1] \in Words
    BY <2>3, EocTyped, SMT DEF Words
  <2>. QED
    BY <2>1, <2>4 DEF File, FileRecord
<1>. QED
  BY <1>1, <1>2, <1>3 DEF AsDirectory

LEMMA ListFilesKeeps ==
    ASSUME DiskInv, ListFiles
    PROVE  DiskInv'
<1>1. /\ Returned /\ DriverInv /\ Waiting /\ StoreTyped /\ Cached
      /\ gpio' = gpio /\ pc = "list" /\ io' = NoCall /\ entry' \in Listed
      /\ pc' \in {"failed", "countdown", "file"} /\ (pc' = "countdown" => task = "autoboot")
      /\ UNCHANGED <<board, drv, card, sdhc, class_known, task, disk, part_lba, boot_sector>>
      /\ UNCHANGED <<current_cluster, sector, buffer, size, cached_sector, fat_buffer>>
  BY DEF DiskInv, ListFiles, StaysPut, fileVars, fatVars
<1>2. entry' \in FileRecord
  BY <1>1, FilesTyped DEF Listed
<1>3. gpio' \subseteq 0 .. 7 /\ io.st \in {"ok", "failed"}
  BY <1>1 DEF Returned, DriverInv, DriverTyped
<1>4. DriverInv'
  BY <1>1, <1>3, NewCallKeeps
<1>5. Counting' /\ Selected'
  BY <1>1, <1>3, StepKeeps DEF UpPcs, ReadingPcs, NoCall
<1>6. Waiting' /\ Asked'
  BY <1>1 DEF Waiting, Asked, IdlePcs, ReadingPcs, NoCall
<1>7. StoreTyped' /\ Cached'
  BY <1>1, <1>2, CachedKeeps DEF StoreTyped
<1>. QED
  BY <1>4, <1>5, <1>6, <1>7 DEF DiskInv

\* A step that makes no call.
LEMMA IdleKeeps ==
    ASSUME DiskInv, io.st \notin {"init", "read"}, io' = io \/ io' = NoCall,
           gpio' \subseteq 0 .. 7, Cs \in gpio' => Cs \in gpio,
           pc # "prompt", pc' \in UpPcs => pc \in UpPcs,
           UNCHANGED <<board, drv, card, sdhc, class_known>>
    PROVE  DriverInv' /\ Counting' /\ Selected'
<1>1. DriverInv'
  BY NewCallKeeps DEF DiskInv
<1>2. io'.st = "ok" => io.st = "ok"
  BY DEF NoCall
<1>. QED
  BY <1>1, <1>2, StepKeeps

LEMMA LoadNamedFileKeeps ==
    ASSUME DiskInv, LoadNamedFile
    PROVE  DiskInv'
<1>1. /\ DriverInv /\ Waiting /\ StoreTyped /\ Cached
      /\ gpio' = gpio /\ pc = "file" /\ pc' = "cluster" /\ io' = io
      /\ current_cluster' = FirstCluster(entry) /\ buffer' = <<>> /\ sector' = 0
      /\ size' = ReadLimit \/ size' = FileSize(entry)
      /\ UNCHANGED <<board, drv, card, sdhc, class_known, task, disk, part_lba>>
      /\ UNCHANGED <<boot_sector, entry, cached_sector, fat_buffer>>
  BY DEF DiskInv, LoadNamedFile, ReadFile, StaysPut, stackVars, fatVars
<1>2. io.st = "none" /\ gpio' \subseteq 0 .. 7
  BY <1>1 DEF Waiting, IdlePcs, DriverInv, DriverTyped
<1>3. DriverInv' /\ Counting' /\ Selected'
  BY <1>1, <1>2, IdleKeeps DEF UpPcs
<1>4. Waiting' /\ Asked'
  BY <1>1, <1>2 DEF Waiting, Asked, IdlePcs, ReadingPcs
<1>5. StoreTyped'
  <2>1. entry \in FileRecord
    BY <1>1 DEF StoreTyped
  <2>2. entry.cluster \in Nat /\ entry.cluster <= EOC /\ entry.size \in Nat
    BY <2>1, EocTyped DEF FileRecord, Words
  <2>3. Swap16(entry.cluster) \in Nat /\ Swap16(entry.cluster) <= EOC
    BY <2>2, SwapTyped DEF EOC
  <2>4. current_cluster' \in 0 .. EOC
    BY <1>1, <2>2, <2>3, EocTyped DEF FirstCluster
  <2>5. size' \in Nat
    BY <1>1, <2>2, BootloaderAssumption DEF FileSize
  <2>6. buffer' \in Seq(HalfSectors) /\ Len(buffer') = 0
    BY <1>1
  <2>7. 0 \in Nat /\ 0 \in 0 .. disk.geo.spc
    BY <1>1, DiskTyped, GeometryFields
  <2>. QED
    BY <1>1, <2>4, <2>5, <2>6, <2>7 DEF StoreTyped
<1>6. Cached'
  BY <1>1, CachedKeeps
<1>. QED
  BY <1>3, <1>4, <1>5, <1>6 DEF DiskInv

\* The LEDs leave the card's bit alone.
LEMMA LedsTyped ==
    ASSUME DriverInv, NEW mask \in SUBSET LedBits
    PROVE  Leds(mask) \subseteq 0 .. 7 /\ (Cs \in Leds(mask) => Cs \in gpio)
BY DEF DriverInv, DriverTyped, Leds, LedBits, Cs

LEMMA CountdownKeeps ==
    ASSUME DiskInv, Countdown
    PROVE  DiskInv'
<1>1. /\ DriverInv /\ Waiting /\ StoreTyped /\ Cached
      /\ pc = "countdown" /\ pc' \in {"countdown", "prompt", "file"} /\ io' = io
      /\ UNCHANGED <<board, drv, card, sdhc, class_known, task, disk, part_lba, boot_sector, entry>>
      /\ UNCHANGED <<current_cluster, buffer, size, cached_sector, fat_buffer>>
  BY DEF DiskInv, Countdown, StaysPut, stackVars, fatVars
<1>2. io.st = "none" /\ task = "autoboot"
  BY <1>1 DEF Waiting, IdlePcs
<1>3. /\ \/ sector < Lights /\ sector' = sector + 1 /\ gpio' = Leds({sector})
         \/ sector' = 0 /\ gpio' \in {Leds({}), Leds(LedBits)}
      /\ sector \in Nat /\ Lights \in 0 .. 6
  BY <1>1, BootloaderAssumption DEF Countdown, StoreTyped
<1>4. gpio' \subseteq 0 .. 7 /\ (Cs \in gpio' => Cs \in gpio)
  <2>1. sector < Lights => sector \in LedBits
    BY <1>3 DEF LedBits
  <2>. QED
    BY <1>1, <1>3, <2>1, LedsTyped
<1>5. DriverInv' /\ Counting' /\ Selected'
  BY <1>1, <1>2, <1>4, IdleKeeps DEF UpPcs
<1>6. Waiting' /\ Asked'
  BY <1>1, <1>2 DEF Waiting, Asked, IdlePcs, ReadingPcs
<1>7. StoreTyped'
  <2>1. sector' \in Nat /\ sector' \in 0 .. Lights
    BY <1>3
  <2>. QED
    BY <1>1, <2>1 DEF StoreTyped
<1>8. Cached'
  BY <1>1, CachedKeeps
<1>. QED
  BY <1>5, <1>6, <1>7, <1>8 DEF DiskInv

LEMMA LoadedKeeps ==
    ASSUME DiskInv, Loaded
    PROVE  DiskInv'
<1>1. /\ DriverInv /\ Waiting /\ StoreTyped /\ Cached
      /\ pc = "cluster" /\ pc' \in {"failed", "read_ok", "running"} /\ io' = io /\ gpio' = gpio
      /\ task = "sdread" => pc' # "running"
      /\ UNCHANGED <<board, drv, card, sdhc, class_known, task, disk, part_lba, boot_sector, entry>>
      /\ UNCHANGED <<current_cluster, sector, buffer, size, cached_sector, fat_buffer>>
  BY DEF DiskInv, Loaded, StaysPut, stackVars, fileVars, fatVars
<1>2. io.st = "none" /\ gpio' \subseteq 0 .. 7
  BY <1>1 DEF Waiting, IdlePcs, DriverInv, DriverTyped
<1>3. DriverInv' /\ Counting' /\ Selected'
  BY <1>1, <1>2, IdleKeeps DEF UpPcs, ReadingPcs
<1>4. Waiting' /\ Asked'
  BY <1>1, <1>2 DEF Waiting, Asked, IdlePcs, ReadingPcs
<1>5. StoreTyped' /\ Cached'
  BY <1>1, CachedKeeps DEF StoreTyped
<1>. QED
  BY <1>3, <1>4, <1>5 DEF DiskInv

LEMMA ToPromptKeeps ==
    ASSUME DiskInv, Report \/ Exit
    PROVE  DiskInv'
<1>1. /\ DriverInv /\ Waiting /\ StoreTyped /\ Cached /\ task # "sdread"
      /\ pc \in {"failed", "running"} /\ pc' = "prompt" /\ io' = io
      /\ gpio' = gpio \/ gpio' = Leds({})
      /\ current_cluster' = 0 /\ buffer' = <<>> /\ size' = 0 /\ sector' = 0
      /\ UNCHANGED <<board, drv, card, sdhc, class_known, task, disk, part_lba, boot_sector, entry>>
      /\ UNCHANGED <<cached_sector, fat_buffer>>
  BY DEF DiskInv, Report, Exit, ToPrompt, StaysPut, stackVars, fatVars, Waiting
<1>2. io.st = "none" /\ gpio' \subseteq 0 .. 7 /\ (Cs \in gpio' => Cs \in gpio)
  BY <1>1, LedsTyped DEF Waiting, IdlePcs, DriverInv, DriverTyped
<1>3. DriverInv' /\ Counting' /\ Selected'
  BY <1>1, <1>2, IdleKeeps DEF UpPcs, ReadingPcs
<1>4. Waiting' /\ Asked'
  BY <1>1, <1>2 DEF Waiting, Asked, IdlePcs, ReadingPcs
<1>5. StoreTyped'
  <2>1. buffer' \in Seq(HalfSectors) /\ Len(buffer') = 0
    BY <1>1
  <2>2. 0 \in Nat /\ 0 \in 0 .. disk.geo.spc /\ 0 \in 0 .. EOC
    BY <1>1, DiskTyped, GeometryFields, EocTyped
  <2>. QED
    BY <1>1, <2>1, <2>2 DEF StoreTyped
<1>6. Cached'
  BY <1>1, CachedKeeps
<1>. QED
  BY <1>3, <1>4, <1>5, <1>6 DEF DiskInv

LEMMA GpioKeeps ==
    ASSUME DiskInv, Gpio
    PROVE  DiskInv'
<1>1. /\ DriverInv /\ Waiting /\ StoreTyped /\ Cached /\ Selected
      /\ pc = "prompt" /\ pc' = pc /\ io' = io
      /\ UNCHANGED <<board, drv, card, sdhc, class_known, task, disk, part_lba, boot_sector, entry>>
      /\ UNCHANGED <<current_cluster, sector, buffer, size, cached_sector, fat_buffer>>
  BY DEF DiskInv, Gpio, Prompt, StaysPut, stackVars, fileVars, fatVars
<1>2. PICK pin \in 0 .. 7 : /\ gpio' = gpio \cup {pin} \/ gpio' = gpio \ {pin}
                            /\ board = "F" => pin # Cs
  BY DEF Gpio, LedBits, Cs
<1>3. /\ io.st = "none" /\ gpio' \subseteq 0 .. 7 /\ drv.pc = "rest"
  <2>1. io.st = "none"
    BY <1>1 DEF Waiting, IdlePcs
  <2>2. gpio' \subseteq 0 .. 7
    BY <1>1, <1>2 DEF DriverInv, DriverTyped
  <2>. QED
    BY <1>1, <2>1, <2>2 DEF DriverInv, Calling, AtRest
<1>4. DriverInv'
  BY <1>1, <1>3, NewCallKeeps
<1>5. Selected'
  BY <1>1, <1>2, <1>3 DEF Selected
<1>6. Counting' /\ Waiting' /\ Asked'
  BY <1>1, <1>3 DEF DiskInv, Counting, Waiting, Asked, UpPcs, ReadingPcs, IdlePcs
<1>7. StoreTyped' /\ Cached'
  BY <1>1, CachedKeeps DEF StoreTyped
<1>. QED
  BY <1>4, <1>5, <1>6, <1>7 DEF DiskInv

LEMMA RestKeeps ==
    ASSUME DiskInv, UNCHANGED diskVars
    PROVE  DiskInv'
<1>1. /\ UNCHANGED <<board, io, drv, gpio, card, sdhc, class_known, pc, part_lba, disk, task>>
      /\ UNCHANGED <<boot_sector, entry, current_cluster, sector, buffer, size>>
      /\ UNCHANGED <<cached_sector, fat_buffer>>
  BY DEF diskVars, stackVars, fileVars, fatVars
<1>2. DriverTyped' /\ Calling' /\ Honest'
  BY <1>1 DEF DiskInv, DriverInv, DriverTyped, Calling, Honest, Addressed, IdeBoard
<1>3. Place'
  BY <1>1 DEF DiskInv, DriverInv, Place, More, Address
<1>4. Waiting' /\ Counting' /\ Selected'
  BY <1>1 DEF DiskInv, Waiting, Counting, Selected
<1>5. StoreTyped' /\ Cached'
  BY <1>1, CachedKeeps DEF DiskInv, StoreTyped
<1>6. Asked'
  BY <1>1 DEF DiskInv, Asked, FatSector
<1>. QED
  BY <1>2, <1>3, <1>4, <1>5, <1>6 DEF DiskInv, DriverInv

-----------------------------------------------------------------------------
\* Data and Piece: half sector k of the blocks read.
HalfOf(got, k) == <<got[(k - 1) \div 2 + 1], ((k - 1) % 2) + 1>>

LEMMA DataTyped ==
    ASSUME NEW got \in Seq(Int), NEW k \in 1 .. Len(got) * 2
    PROVE  Data(got)[k] = HalfOf(got, k) /\ Data(got)[k] \in HalfSectors
<1>1. PerSector = 2 /\ Len(got) \in Nat
  BY DEF PerSector
<1>2. /\ (k - 1) \div 2 + 1 \in 1 .. Len(got)
      /\ ((k - 1) % 2) + 1 \in 1 .. 2
  BY <1>1
<1>3. Data(got)[k] = AsData(got[(k - 1) \div 2 + 1])[((k - 1) % 2) + 1]
  BY <1>1 DEF Data
<1>4. \A lba, h : h \in 1 .. 2 => AsData(lba)[h] = <<lba, h>>
  BY <1>1 DEF AsData
<1>5. Data(got)[k] = HalfOf(got, k)
  BY <1>2, <1>3, <1>4 DEF HalfOf
<1>6. got[(k - 1) \div 2 + 1] \in Int /\ ((k - 1) % 2) + 1 \in {1, 2}
  BY <1>2
<1>. QED
  BY <1>5, <1>6 DEF HalfOf, HalfSectors

LEMMA PieceTyped ==
    ASSUME NEW got \in Seq(Int), Remaining \in Nat
    PROVE  /\ Piece(got) \in Seq(HalfSectors)
           /\ Len(Piece(got)) = IF Remaining < Len(got) * 2 THEN Remaining ELSE Len(got) * 2
           /\ \A k \in 1 .. Len(Piece(got)) : Piece(got)[k] = HalfOf(got, k)
<1>. DEFINE n == IF Remaining < Len(got) * 2 THEN Remaining ELSE Len(got) * 2
            data == Data(got)
<1>1. n \in Nat /\ n <= Len(got) * 2 /\ Len(got) \in Nat
  OBVIOUS
<1>2. \A k \in 1 .. n : data[k] = HalfOf(got, k) /\ data[k] \in HalfSectors
  <2>. SUFFICES ASSUME NEW k \in 1 .. n
                PROVE  data[k] = HalfOf(got, k) /\ data[k] \in HalfSectors
    OBVIOUS
  <2>1. k \in 1 .. Len(got) * 2
    BY <1>1
  <2>. QED
    BY <2>1, DataTyped
<1>3. Piece(got) = SubSeq(data, 1, n)
  BY DEF Piece, PerSector
<1>. HIDE DEF n, data
<1>4. /\ SubSeq(data, 1, n) \in Seq(HalfSectors)
      /\ Len(SubSeq(data, 1, n)) = IF 1 <= n THEN n - 1 + 1 ELSE 0
      /\ \A k \in 1 .. n - 1 + 1 : SubSeq(data, 1, n)[k] = data[1 + k - 1]
  <2>1. 1 \in Int /\ n \in Int /\ \A k \in 1 .. n : data[k] \in HalfSectors
    BY <1>1, <1>2
  <2>. QED
    BY <2>1, SubSeqProperties
<1>5. Len(Piece(got)) = n
  BY <1>1, <1>3, <1>4
<1>6. \A k \in 1 .. n : Piece(got)[k] = HalfOf(got, k)
  BY <1>1, <1>2, <1>3, <1>4
<1>. QED
  BY <1>3, <1>4, <1>5, <1>6 DEF n

\* The numbers of the blocks the file is read from.
LEMMA FileSums ==
    ASSUME DiskInv
    PROVE  /\ First \in Nat /\ First + 64 <= Reach
           /\ FatSector \in Nat /\ FatSector + 1 <= Reach /\ FatSector # NoSector
           /\ boot_sector.spc \in Nat /\ 1 <= boot_sector.spc /\ boot_sector.spc <= 64
<1>1. part_lba \in Parts /\ boot_sector \in Geometry /\ current_cluster \in 0 .. EOC
  BY DiskTyped DEF DiskInv, StoreTyped
<1>2. /\ First \in Nat /\ First + 64 <= Reach
      /\ FatSector \in Nat /\ FatSector + 1 <= Reach /\ FatSector # NoSector
  BY <1>1, SumsTyped DEF First, FatSector
<1>3. boot_sector.spc \in Nat /\ 1 <= boot_sector.spc /\ boot_sector.spc <= 64
  BY <1>1, GeometryFields
<1>. QED
  BY <1>2, <1>3

LEMMA NextClusterKeeps ==
    ASSUME DiskInv, NextCluster, UNCHANGED task
    PROVE  DiskInv'
<1>1. /\ DriverInv /\ Waiting /\ StoreTyped /\ Cached /\ pc = "cluster" /\ gpio' = gpio
      /\ sector' = 0
      /\ UNCHANGED <<board, drv, card, sdhc, class_known, task, disk, part_lba, boot_sector, entry>>
      /\ UNCHANGED <<current_cluster, buffer, size, cached_sector, fat_buffer>>
  BY DEF DiskInv, NextCluster, driverVars, stackVars, fatVars
<1>2. io.st = "none" /\ gpio' \subseteq 0 .. 7
  BY <1>1 DEF Waiting, IdlePcs, DriverInv, DriverTyped
<1>3. StoreTyped' /\ Cached'
  <2>1. 0 \in Nat /\ 0 \in 0 .. disk.geo.spc
    BY <1>1, DiskTyped, GeometryFields
  <2>. QED
    BY <1>1, <2>1, CachedKeeps DEF StoreTyped
<1>4. CASE pc' = "whole" /\ CallRead(First, boot_sector.spc)
  <2>1. /\ First \in Int /\ 0 <= First /\ First + boot_sector.spc <= Reach
        /\ boot_sector.spc \in Nat /\ 1 <= boot_sector.spc /\ boot_sector.spc <= 255
    BY FileSums, ReachIs
  <2>2. DriverInv' /\ io'.st = "read" /\ io'.count = boot_sector.spc
    BY <1>1, <1>2, <1>4, <2>1, NewReadKeeps
  <2>3. Counting' /\ Selected'
    BY <1>1, <1>2, <2>2, StepKeeps DEF UpPcs
  <2>4. Waiting' /\ Asked'
    BY <1>1, <1>4, <2>1, <2>2 DEF Waiting, Asked, IdlePcs, ReadingPcs
  <2>. QED
    BY <1>3, <2>2, <2>3, <2>4 DEF DiskInv
<1>5. CASE pc' = "sector" /\ io' = NoCall
  <2>1. DriverInv' /\ Counting' /\ Selected'
    BY <1>1, <1>2, <1>5, IdleKeeps DEF UpPcs
  <2>2. Waiting' /\ Asked'
    BY <1>1, <1>5 DEF Waiting, Asked, IdlePcs, ReadingPcs, NoCall
  <2>. QED
    BY <1>3, <2>1, <2>2 DEF DiskInv
<1>. QED
  BY <1>4, <1>5 DEF NextCluster

LEMMA NextSectorKeeps ==
    ASSUME DiskInv, NextSector, UNCHANGED task
    PROVE  DiskInv'
<1>1. /\ DriverInv /\ Waiting /\ StoreTyped /\ Cached /\ pc = "sector" /\ gpio' = gpio
      /\ UNCHANGED <<board, drv, card, sdhc, class_known, task, disk, part_lba, boot_sector, entry>>
      /\ UNCHANGED <<current_cluster, sector, buffer, size, cached_sector, fat_buffer>>
  BY DEF DiskInv, NextSector, driverVars, stackVars, fileVars, fatVars
<1>2. io.st = "none" /\ gpio' \subseteq 0 .. 7
  BY <1>1 DEF Waiting, IdlePcs, DriverInv, DriverTyped
<1>3. StoreTyped' /\ Cached'
  BY <1>1, CachedKeeps DEF StoreTyped
<1>4. CASE MoreSectors /\ pc' = "in_sector" /\ CallRead(First + sector, 1)
  <2>1. sector \in Nat /\ sector < boot_sector.spc
    BY <1>1, <1>4 DEF MoreSectors, StoreTyped
  <2>2. First + sector \in Int
    BY <2>1, FileSums
  <2>3. 0 <= First + sector /\ First + sector + 1 <= Reach
    BY <2>1, FileSums, ReachIs
  <2>4. DriverInv' /\ io'.st = "read" /\ io'.count = 1
    BY <1>1, <1>2, <1>4, <2>2, <2>3, ReadOneKeeps
  <2>5. Counting' /\ Selected'
    BY <1>1, <1>2, <2>4, StepKeeps DEF UpPcs
  <2>6. Waiting' /\ Asked'
    BY <1>1, <1>4, <2>1, <2>4 DEF Waiting, Asked, IdlePcs, ReadingPcs
  <2>. QED
    BY <1>3, <2>4, <2>5, <2>6 DEF DiskInv
<1>5. CASE pc' = "fat" /\ io' = NoCall
  <2>1. DriverInv' /\ Counting' /\ Selected'
    BY <1>1, <1>2, <1>5, IdleKeeps DEF UpPcs
  <2>2. Waiting' /\ Asked'
    BY <1>1, <1>5 DEF Waiting, Asked, IdlePcs, ReadingPcs, NoCall
  <2>. QED
    BY <1>3, <2>1, <2>2 DEF DiskInv
<1>. QED
  BY <1>4, <1>5 DEF NextSector

\* What a read has added to the file.
LEMMA TakeTyped ==
    ASSUME DiskInv, NEW st, NEW next, Take(st, next), st \in {"whole", "in_sector"}
    PROVE  buffer' \in Seq(HalfSectors) /\ Len(buffer') <= size
<1>1. /\ buffer \in Seq(HalfSectors) /\ Len(buffer) <= size /\ size \in Nat
      /\ io.got \in Seq(Int) /\ Len(buffer) \in Nat
  BY CallOf DEF DiskInv, StoreTyped
<1>2. CASE buffer' = buffer \o Piece(io.got)
  <2>1. Remaining \in Nat /\ Remaining = size - Len(buffer) /\ Len(io.got) \in Nat
    BY <1>1 DEF Remaining
  <2>2. /\ Piece(io.got) \in Seq(HalfSectors) /\ Len(Piece(io.got)) <= Remaining
        /\ Len(Piece(io.got)) \in Nat
    BY <1>1, <2>1, PieceTyped
  <2>3. buffer' \in Seq(HalfSectors) /\ Len(buffer') = Len(buffer) + Len(Piece(io.got))
    BY <1>1, <1>2, <2>2, ConcatProperties
  <2>. QED
    BY <1>1, <2>1, <2>2, <2>3
<1>3. CASE buffer' = buffer
  BY <1>1, <1>3
<1>. QED
  BY <1>2, <1>3 DEF Take

LEMMA TakeKeeps ==
    ASSUME DiskInv, TakeCluster \/ TakeSector, UNCHANGED task
    PROVE  DiskInv'
<1>1. /\ DriverInv /\ Waiting /\ StoreTyped /\ Cached /\ Returned /\ gpio' = gpio /\ io' = NoCall
      /\ pc \in {"whole", "in_sector"} /\ pc' \in {"fat", "sector", "failed"}
      /\ UNCHANGED <<board, drv, card, sdhc, class_known, task, disk, part_lba, boot_sector, entry>>
      /\ UNCHANGED <<current_cluster, size, cached_sector, fat_buffer>>
      /\ sector' = sector \/ (pc = "in_sector" /\ sector' = sector + 1)
  <2>1. ASSUME NEW st, NEW next, Take(st, next)
        PROVE  /\ Returned /\ gpio' = gpio /\ io' = NoCall /\ pc = st /\ pc' \in {next, "failed"}
               /\ UNCHANGED <<board, drv, card, sdhc, class_known, disk, part_lba, boot_sector>>
               /\ UNCHANGED <<entry, current_cluster, size, cached_sector, fat_buffer>>
    BY <2>1 DEF Take, driverVars, stackVars, fatVars
  <2>2. CASE TakeCluster
    <3>1. Take("whole", "fat") /\ sector' = sector
      BY <2>2 DEF TakeCluster
    <3>2. /\ Returned /\ gpio' = gpio /\ io' = NoCall /\ pc = "whole" /\ pc' \in {"fat", "failed"}
          /\ UNCHANGED <<board, drv, card, sdhc, class_known, disk, part_lba, boot_sector>>
          /\ UNCHANGED <<entry, current_cluster, size, cached_sector, fat_buffer>>
      BY <2>1, <3>1
    <3>3. DriverInv /\ Waiting /\ StoreTyped /\ Cached
      BY DEF DiskInv
    <3>4. pc \in {"whole", "in_sector"} /\ pc' \in {"fat", "sector", "failed"}
      BY <3>2
    <3>. QED
      BY <3>1, <3>2, <3>3, <3>4
  <2>3. CASE TakeSector
    <3>1. Take("in_sector", "sector") /\ sector' = sector + 1
      BY <2>3 DEF TakeSector
    <3>2. /\ Returned /\ gpio' = gpio /\ io' = NoCall /\ pc = "in_sector" /\ pc' \in {"sector", "failed"}
          /\ UNCHANGED <<board, drv, card, sdhc, class_known, disk, part_lba, boot_sector>>
          /\ UNCHANGED <<entry, current_cluster, size, cached_sector, fat_buffer>>
      BY <2>1, <3>1
    <3>. QED
      BY <3>1, <3>2 DEF DiskInv
  <2>. QED
    BY <2>2, <2>3
<1>2. io.st \notin {"init", "read"} /\ gpio' \subseteq 0 .. 7
  BY <1>1 DEF Returned, DriverInv, DriverTyped
<1>3. DriverInv' /\ Counting' /\ Selected'
  BY <1>1, <1>2, IdleKeeps DEF UpPcs, ReadingPcs
<1>4. Waiting' /\ Asked'
  BY <1>1 DEF Waiting, Asked, IdlePcs, ReadingPcs, NoCall
<1>5. StoreTyped'
  <2>1. buffer' \in Seq(HalfSectors) /\ Len(buffer') <= size
    BY TakeTyped DEF TakeCluster, TakeSector
  <2>2. sector' \in Nat /\ sector' \in 0 .. disk.geo.spc \cup 0 .. Lights
    <3>1. CASE sector' = sector
      BY <1>1, <3>1 DEF StoreTyped
    <3>2. CASE pc = "in_sector" /\ sector' = sector + 1
      <4>1. /\ sector < boot_sector.spc /\ boot_sector.spc <= disk.geo.spc
            /\ sector \in Nat /\ boot_sector.spc \in Nat /\ disk.geo.spc \in Nat
        BY <1>1, <3>2, FileSums, DiskTyped, GeometryFields DEF DiskInv, Asked, StoreTyped
      <4>. QED
        BY <3>2, <4>1
    <3>. QED
      BY <1>1, <3>1, <3>2
  <2>. QED
    BY <1>1, <2>1, <2>2 DEF StoreTyped
<1>6. Cached'
  BY <1>1, CachedKeeps
<1>. QED
  BY <1>3, <1>4, <1>5, <1>6 DEF DiskInv

-----------------------------------------------------------------------------
\* get_fat_entry.
LEMMA AsFatTyped ==
    ASSUME StoreTyped, NEW lba
    PROVE  AsFat(disk, lba) \in FatWindow
<1>1. /\ disk.chain \in Seq(Clusters) /\ Entries \in Nat \ {0} /\ EOC \in Nat
      /\ Clusters \subseteq 2 .. EOC - 1
      /\ disk.end \in 0 .. EOC /\ disk.other \in 0 .. EOC
  BY DiskTyped, EocTyped, VolumeAssumption
<1>2. \A c : Fat(disk, c) \in 0 .. EOC
  <2>. SUFFICES ASSUME NEW c PROVE Fat(disk, c) \in 0 .. EOC
    OBVIOUS
  <2>1. CASE \E i \in DOMAIN disk.chain : disk.chain[i] = c
    <3>. DEFINE i == CHOOSE i \in DOMAIN disk.chain : disk.chain[i] = c
    <3>1. i \in 1 .. Len(disk.chain)
      BY <1>1, <2>1
    <3>2. Fat(disk, c) = IF i < Len(disk.chain) THEN disk.chain[i + 1] ELSE disk.end
      BY <2>1 DEF Fat
    <3>. HIDE DEF i
    <3>3. i < Len(disk.chain) => disk.chain[i + 1] \in Clusters
      BY <1>1, <3>1
    <3>. QED
      <4>1. i < Len(disk.chain) => disk.chain[i + 1] \in 2 .. EOC - 1
        BY <1>1, <3>3
      <4>2. i < Len(disk.chain) => disk.chain[i + 1] \in 0 .. EOC
        BY <1>1, <4>1
      <4>. QED
        BY <1>1, <3>2, <4>2
  <2>2. CASE ~ \E i \in DOMAIN disk.chain : disk.chain[i] = c
    BY <1>1, <2>2 DEF Fat
  <2>. QED
    BY <2>1, <2>2
<1>. QED
  BY <1>1, <1>2 DEF AsFat, FatWindow

LEMMA WindowTyped ==
    ASSUME NEW fat \in FatWindow, NEW c \in 0 .. EOC
    PROVE  fat[c % Entries] \in 0 .. EOC
<1>1. Entries \in Nat \ {0} /\ EOC \in Nat
  BY EocTyped, VolumeAssumption
<1>2. c % Entries \in 0 .. Entries - 1
  BY <1>1
<1>. QED
  BY <1>2 DEF FatWindow

LEMMA GetFatEntryKeeps ==
    ASSUME DiskInv, GetFatEntry, UNCHANGED task
    PROVE  DiskInv'
<1>1. /\ DriverInv /\ Waiting /\ StoreTyped /\ Cached /\ pc = "fat" /\ gpio' = gpio
      /\ UNCHANGED <<board, drv, card, sdhc, class_known, task, disk, part_lba, boot_sector, entry>>
      /\ UNCHANGED <<sector, buffer, size, cached_sector, fat_buffer>>
  BY DEF DiskInv, GetFatEntry, driverVars, stackVars, fatVars
<1>2. io.st = "none" /\ gpio' \subseteq 0 .. 7
  BY <1>1 DEF Waiting, IdlePcs, DriverInv, DriverTyped
<1>3. Cached'
  BY <1>1, CachedKeeps
<1>4. CASE NextFrom(fat_buffer) /\ pc' = "cluster" /\ UNCHANGED io
  <2>1. DriverInv' /\ Counting' /\ Selected'
    BY <1>1, <1>2, <1>4, IdleKeeps DEF UpPcs
  <2>2. Waiting' /\ Asked'
    BY <1>1, <1>2, <1>4 DEF Waiting, Asked, IdlePcs, ReadingPcs
  <2>3. current_cluster' \in 0 .. EOC
    BY <1>1, <1>4, WindowTyped DEF NextFrom, StoreTyped
  <2>4. StoreTyped'
    BY <1>1, <2>3 DEF StoreTyped
  <2>. QED
    BY <1>3, <2>1, <2>2, <2>4 DEF DiskInv
<1>5. CASE CallRead(FatSector, 1) /\ pc' = "in_fat" /\ UNCHANGED current_cluster
  <2>1. FatSector \in Int /\ 0 <= FatSector /\ FatSector + 1 <= Reach
    BY FileSums
  <2>2. DriverInv' /\ io'.st = "read" /\ io'.count = 1 /\ io'.lba = FatSector
    BY <1>1, <1>2, <1>5, <2>1, ReadOneKeeps
  <2>3. Counting' /\ Selected'
    BY <1>1, <1>2, <2>2, StepKeeps DEF UpPcs
  <2>4. FatSector' = FatSector
    BY <1>1, <1>5 DEF FatSector
  <2>5. Waiting' /\ Asked'
    BY <1>1, <1>5, <2>2, <2>4 DEF Waiting, Asked, IdlePcs, ReadingPcs
  <2>6. StoreTyped'
    BY <1>1, <1>5 DEF StoreTyped
  <2>. QED
    BY <1>3, <2>2, <2>3, <2>5, <2>6 DEF DiskInv
<1>. QED
  BY <1>4, <1>5 DEF GetFatEntry

\* A sector of the FAT that has been read, with success or without.
LEMMA FatRead ==
    ASSUME DiskInv, TakeFat
    PROVE  /\ io.st = "ok" \/ io.st = "failed"
           /\ io.st = "ok" /\ Addressed => io.got # <<>> /\ io.got[1] = FatSector
           /\ io.st = "failed" /\ ~LateErrors => io.got = <<>>
<1>1. /\ pc = "in_fat" /\ io.count = 1 /\ io.lba = FatSector /\ FatSector \in Nat
      /\ io.got \in Seq(Int) /\ Len(io.got) <= io.count
      /\ io.st = "ok" \/ io.st = "failed"
  BY CallOf, FileSums DEF TakeFat, Returned, DiskInv, Asked, DriverInv, Calling
<1>2. ASSUME io.st = "ok", Addressed
      PROVE  io.got # <<>> /\ io.got[1] = FatSector
  <2>1. Len(io.got) = 1
    BY <1>1, <1>2 DEF DiskInv, DriverInv, Calling
  <2>2. io.got[1] = io.lba + 1 - 1
    BY <1>2, <2>1 DEF DiskInv, DriverInv, Honest
  <2>. QED
    BY <1>1, <2>1, <2>2
<1>3. ASSUME io.st = "failed", ~LateErrors
      PROVE  io.got = <<>>
  <2>1. Len(io.got) < 1
    BY <1>1, <1>3 DEF DiskInv, DriverInv, Place
  <2>. QED
    BY <1>1, <2>1
<1>. QED
  BY <1>1, <1>2, <1>3

LEMMA TakeFatKeeps ==
    ASSUME DiskInv, TakeFat, UNCHANGED task
    PROVE  DiskInv'
<1>1. /\ DriverInv /\ Waiting /\ StoreTyped /\ Cached /\ pc = "in_fat" /\ pc' = "cluster"
      /\ gpio' = gpio /\ Returned /\ io' = NoCall
      /\ fat_buffer' = (IF io.got # <<>> THEN AsFat(disk, io.got[1]) ELSE fat_buffer)
      /\ UNCHANGED <<board, drv, card, sdhc, class_known, task, disk, part_lba, boot_sector, entry>>
      /\ UNCHANGED <<sector, buffer, size>>
  BY DEF DiskInv, TakeFat, driverVars, stackVars
<1>2. io.st \notin {"init", "read"} /\ gpio' \subseteq 0 .. 7
  BY <1>1 DEF Returned, DriverInv, DriverTyped
<1>3. DriverInv' /\ Counting' /\ Selected'
  BY <1>1, <1>2, IdleKeeps DEF UpPcs, ReadingPcs
<1>4. Waiting' /\ Asked'
  BY <1>1 DEF Waiting, Asked, IdlePcs, ReadingPcs, NoCall
<1>5. StoreTyped'
  <2>1. fat_buffer' \in FatWindow
    BY <1>1, AsFatTyped DEF StoreTyped
  <2>2. FatSector \in Nat
    BY FileSums
  <2>3. cached_sector' \in Nat
    BY <1>1, <2>2, FatRead DEF TakeFat, StoreTyped
  <2>4. current_cluster' \in 0 .. EOC
    BY <1>1, <2>1, WindowTyped, FatRead, EocTyped DEF TakeFat, NextFrom, StoreTyped
  <2>. QED
    BY <1>1, <2>1, <2>3, <2>4 DEF StoreTyped
<1>6. Cached'
  <2>. SUFFICES ASSUME ~LateErrors, Addressed, cached_sector' # NoSector
                PROVE  fat_buffer' = AsFat(disk, cached_sector')
    BY <1>1 DEF Cached, Addressed
  <2>1. CASE io.st = "ok"
    BY <1>1, <2>1, FatRead DEF TakeFat
  <2>2. CASE io.st = "failed"
    BY <1>1, <2>2, FatRead DEF TakeFat, Cached
  <2>. QED
    BY <2>1, <2>2, FatRead
<1>. QED
  BY <1>3, <1>4, <1>5, <1>6 DEF DiskInv

-----------------------------------------------------------------------------
LEMMA DiskInitially == Init => DiskInv
<1>. SUFFICES ASSUME Init PROVE DiskInv
  OBVIOUS
<1>1. /\ board \in Boards /\ disk \in Disks /\ io = NoCall /\ drv = AtRest /\ gpio = {}
      /\ sdhc = FALSE /\ class_known = TRUE /\ part_lba = PART_LBA /\ boot_sector = NoGeometry
      /\ entry = NoFile /\ current_cluster = 0 /\ sector = 0 /\ buffer = <<>> /\ size = 0
      /\ cached_sector = NoSector /\ fat_buffer = [o \in 0 .. Entries - 1 |-> 0]
      /\ task \in (IF board = "F" THEN {"autoboot", "sdread"} ELSE {"boot"})
      /\ pc = IF task = "boot" THEN "prompt" ELSE "start"
  BY DEF Init
<1>2. PICK c \in Cards : card = [hc |-> c.hc, v2 |-> c.v2, ready |-> FALSE, left |-> FALSE,
                                 addr |-> 0]
  BY DEF Init
<1>3. card \in CardRecord
  BY <1>2, BootloaderAssumption DEF CardRecord
<1>4. io \in CallRecord
  <2>1. <<>> \in Seq(Int)
    OBVIOUS
  <2>. QED
    BY <1>1, <2>1 DEF NoCall, CallRecord
<1>5. drv \in DriverRecord
  BY <1>1 DEF AtRest, DriverRecord
<1>6. DriverTyped
  BY <1>1, <1>3, <1>4, <1>5 DEF DriverTyped
<1>7. Calling
  <2>1. 0 + 0 <= Reach
    BY ReachIs
  <2>2. io.st = "none" /\ io.lba = 0 /\ io.count = 0 /\ Len(io.got) = 0 /\ drv.pc = "rest"
    BY <1>1 DEF NoCall, AtRest
  <2>. QED
    BY <1>1, <2>1, <2>2 DEF Calling
<1>8. Place /\ Honest
  BY <1>1 DEF Place, Honest, NoCall, AtRest
<1>9. Waiting /\ Counting /\ Asked /\ Selected
  BY <1>1 DEF Waiting, Counting, Asked, Selected, IdlePcs, ReadingPcs, UpPcs, NoCall
<1>10. Cached
  BY <1>1 DEF Cached
<1>11. StoreTyped
  <2>1. disk \in Disk
    BY <1>1, DisksAssumption
  <2>2. disk.geo \in Geometry
    BY <2>1 DEF Disk
  <2>3. disk.geo.spc \in Nat /\ 1 <= disk.geo.spc
    BY <2>2, GeometryFields
  <2>4. NoGeometry \in Geometry /\ NoGeometry.spc <= disk.geo.spc
    BY <2>3, SMT DEF NoGeometry, Geometry
  <2>5. NoFile \in FileRecord
    BY EocTyped DEF NoFile, FileRecord, Words
  <2>6. 0 \in 0 .. EOC /\ NoSector \in Nat
    BY EocTyped, SMT DEF NoSector
  <2>7. fat_buffer \in FatWindow
    BY <1>1, <2>6 DEF FatWindow
  <2>8. buffer \in Seq(HalfSectors) /\ Len(buffer) = 0
    BY <1>1
  <2>9. 0 \in 0 .. disk.geo.spc
    BY <2>3
  <2>. QED
    BY <1>1, <2>4, <2>5, <2>6, <2>7, <2>8, <2>9 DEF StoreTyped
<1>. QED
  BY <1>6, <1>7, <1>8, <1>9, <1>10, <1>11 DEF DiskInv, DriverInv

LEMMA DiskStepKeeps ==
    ASSUME DiskInv, [Next]_vars
    PROVE  DiskInv'
<1>1. CASE UNCHANGED vars \/ Memory \/ (MemoryStep /\ UNCHANGED diskVars)
  <2>1. UNCHANGED diskVars
    BY <1>1 DEF vars, Memory, diskVars, stackVars, fileVars, fatVars
  <2>. QED
    BY <2>1, RestKeeps
<1>2. CASE (ReadBootSector \/ FileStep \/ Driver) /\ UNCHANGED task
  BY <1>2, ReadBootSectorKeeps, NextClusterKeeps, NextSectorKeeps, TakeKeeps, GetFatEntryKeeps,
     TakeFatKeeps, DriverDisk DEF FileStep
<1>3. CASE Boot \/ Gpio \/ Exit \/ Report
  BY <1>3, BootKeeps, GpioKeeps, ToPromptKeeps
<1>4. CASE Start \/ BroughtUp \/ PrintTable \/ FindPartition \/ ListFiles
  BY <1>4, StartKeeps, BroughtUpKeeps, PrintTableKeeps, FindPartitionKeeps, ListFilesKeeps
<1>5. CASE LoadNamedFile \/ Countdown \/ Loaded
  BY <1>5, LoadNamedFileKeeps, CountdownKeeps, LoadedKeeps
<1>. QED
  BY <1>1, <1>2, <1>3, <1>4, <1>5 DEF Next, Program

\* What holds of the disk programs holds at every time.
LEMMA DiskAlways == Spec => []DiskInv
<1>1. DiskInv /\ [Next]_vars => DiskInv'
  BY DiskStepKeeps
<1>. QED
  BY <1>1, DiskInitially, PTL DEF Spec

\* The types of Bootloader, for every set of disks that Volume describes:
\* a read never puts more into the buffer than was asked for, nor the file
\* more than its size, and no driver is left where its call has ended.
THEOREM TypeCorrect == Spec => []TypeOK
<1>1. MemInv => MemoryTypeOK
  BY DEF MemInv, MemTyped, TestRecord, MemoryTypeOK
<1>2. DiskInv => BlockTypeOK
  BY DEF DiskInv, DriverInv, DriverTyped, CallRecord, Calling, BlockTypeOK
<1>3. DiskInv => /\ pc \in {"start", "prompt", "init", "mbr", "partition", "boot_sector",
                            "list", "countdown", "file", "cluster", "whole", "sector",
                            "in_sector", "fat", "in_fat", "failed", "running", "read_ok"}
                 /\ part_lba \in {PART_LBA, disk.part}
                 /\ current_cluster \in 0 .. EOC /\ Len(buffer) <= size
                 /\ sector \in 0 .. disk.geo.spc \cup 0 .. Lights
                 /\ cached_sector \in Nat /\ DOMAIN fat_buffer = 0 .. Entries - 1
  BY DEF DiskInv, Waiting, ReadingPcs, IdlePcs, StoreTyped, FatWindow
<1>4. MemInv /\ DiskInv => TypeOK
  BY <1>1, <1>2, <1>3 DEF TypeOK
<1>. QED
  BY <1>4, MemAlways, DiskAlways, PTL

\* A read that reports success has put the blocks that were asked for into
\* the buffer, all of them and in their order, on each of the boards: what
\* block_read promises fat16.c, whatever has failed before but the CMD58 that
\* tells how a card counts (Addressed).
THEOREM ReadsAreHonest == Spec => []ReadHonest
<1>1. ASSUME DiskInv, io.st = "ok", Addressed
      PROVE  io.got = [k \in 1 .. io.count |-> io.lba + k - 1]
  <2>1. io.got \in Seq(Int) /\ Len(io.got) = io.count
    BY <1>1, CallOf DEF DiskInv, DriverInv, Calling
  <2>2. \A k \in 1 .. io.count : io.got[k] = io.lba + k - 1
    BY <1>1, <2>1 DEF DiskInv, DriverInv, Honest
  <2>. QED
    BY <2>1, <2>2, SMTT(40)
<1>2. DiskInv => ReadHonest
  BY <1>1 DEF ReadHonest
<1>. QED
  BY <1>2, DiskAlways, PTL

\* A sector of the FAT that get_fat_entry finds in its buffer is that sector
\* of the disk, unless a drive reports an error after it has sent the data,
\* or a card is read by the wrong addresses (Addressed).
THEOREM HitsAreCurrent ==
    ASSUME ~LateErrors
    PROVE  Spec => []HitIsCurrent
<1>1. DiskInv => HitIsCurrent
  BY FileSums DEF DiskInv, Cached, HitIsCurrent
<1>. QED
  BY <1>1, DiskAlways, PTL

LEMMA BoardStays ==
    ASSUME DiskInv, [Next]_vars
    PROVE  UNCHANGED board
<1>1. CASE Driver
  BY <1>1, DriverKeeps DEF Frame
<1>2. CASE ReadBootSector \/ FileStep
  BY <1>2 DEF ReadBootSector, FileStep, NextCluster, TakeCluster, TakeSector, Take, NextSector,
              GetFatEntry, TakeFat, driverVars
<1>3. \/ UNCHANGED board \/ Driver \/ ReadBootSector \/ FileStep
  BY DEF Next, vars, Program, Boot, Gpio, Exit, Memory, Start, BroughtUp, PrintTable, FindPartition,
         ListFiles, LoadNamedFile, Countdown, Loaded, Report, ToPrompt, StaysPut, diskVars
<1>. QED
  BY <1>1, <1>2, <1>3

\* A command does not end with the card selected, well or badly.
THEOREM CardIsReleased == Spec => CardReleased
<1>1. ASSUME DiskInv, [Next]_vars
      PROVE  [CommandOver /\ board \in {"F", "08"} => Cs \notin gpio']_vars
  <2>. SUFFICES ASSUME Next, pc # "prompt", pc' \in {"prompt", "running"}, board \in {"F", "08"}
                PROVE  Cs \notin gpio'
    BY <1>1 DEF CommandOver
  <2>1. CASE pc' = "running"
    <3>1. Waiting' /\ Selected' /\ Calling' /\ UNCHANGED board
      BY <1>1, DiskStepKeeps, BoardStays DEF DiskInv, DriverInv
    <3>2. io'.st = "none" /\ drv' = AtRest
      BY <2>1, <3>1 DEF Waiting, IdlePcs, Calling
    <3>. QED
      BY <2>1, <3>1, <3>2 DEF Selected, AtRest
  <2>2. CASE pc' = "prompt" /\ (Countdown \/ Report \/ Exit)
    <3>1. /\ Waiting /\ Selected /\ DriverInv /\ sector \in Nat /\ Lights \in 0 .. 6
          /\ pc \in {"countdown", "failed", "running"}
      BY <1>1, <2>2, BootloaderAssumption DEF DiskInv, StoreTyped, Countdown, Report, Exit
    <3>2. io.st = "none" /\ drv = AtRest
      BY <3>1 DEF Waiting, IdlePcs, DriverInv, Calling
    <3>3. Cs \notin gpio
      BY <3>1, <3>2 DEF Selected, AtRest
    <3>4. gpio' = gpio \/ gpio' = Leds({})
      BY <2>2, <3>1 DEF Countdown, Report, Exit
    <3>. QED
      BY <3>1, <3>3, <3>4, LedsTyped
  <2>3. CASE pc' = "prompt" /\ ~(Countdown \/ Report \/ Exit)
    <3>1. ~(Boot \/ Gpio \/ Memory)
      BY DEF Boot, Gpio, Memory, Prompt
    <3>2. ~(Start \/ BroughtUp \/ PrintTable \/ FindPartition \/ ListFiles)
      BY <2>3 DEF Start, BroughtUp, PrintTable, FindPartition, ListFiles
    <3>3. ~(LoadNamedFile \/ Loaded \/ ReadBootSector)
      BY <2>3 DEF LoadNamedFile, Loaded, ReadBootSector
    <3>4. ~FileStep
      BY <2>3 DEF FileStep, NextCluster, TakeCluster, TakeSector, Take, NextSector, GetFatEntry,
                  TakeFat
    <3>5. ~Driver /\ ~(MemoryStep /\ UNCHANGED diskVars)
      BY <2>3 DEF Driver, diskVars
    <3>. QED
      BY <2>3, <3>1, <3>2, <3>3, <3>4, <3>5 DEF Next, Program
  <2>. QED
    BY <2>1, <2>2, <2>3
<1>. QED
  BY <1>1, DiskAlways, PTL DEF Spec, CardReleased

-----------------------------------------------------------------------------
\* Half sector k of the file, by its chain.
Half(k) ==
    LET c == disk.chain[(k - 1) \div PerCluster(disk) + 1]
        in == (k - 1) % PerCluster(disk)
    IN <<FirstSectorOf(disk.part, disk.geo, c) + in \div PerSector, (in % PerSector) + 1>>

\* fat16_read_file reads the file of the disk, whose chain is long enough or
\* ends where the code sees it, and is at its i-th cluster.
Reading == Addressed /\ Sound /\ (Fits(disk, size) \/ disk.end = EOC)
AtCluster(i) == current_cluster = disk.chain[i]
Before(i) == PerCluster(disk) * (i - 1)

\* Where the loop of fat16_read_file stands: what is in the buffer, and which
\* blocks it waits for.
Loop ==
    LET n == Len(buffer)
        Somewhere == DOMAIN disk.chain
    IN /\ pc = "cluster" =>
              \/ n = size \/ current_cluster = EOC
              \/ \E i \in Somewhere : AtCluster(i) /\ n = Before(i)
       /\ pc = "whole" =>
              /\ io.lba = First /\ io.count = boot_sector.spc
              /\ \E i \in Somewhere : AtCluster(i) /\ n = Before(i)
       /\ pc = "sector" =>
              \E i \in Somewhere : /\ AtCluster(i) /\ n <= Before(i + 1)
                                   /\ n = size \/ n = Before(i) + 2 * sector
       /\ pc = "in_sector" =>
              /\ io.lba = First + sector
              /\ \E i \in Somewhere : AtCluster(i) /\ n = Before(i) + 2 * sector
       /\ pc \in {"fat", "in_fat"} =>
              \E i \in Somewhere : /\ AtCluster(i) /\ n <= Before(i + 1)
                                   /\ n = size \/ n = Before(i + 1)
       /\ pc \in {"running", "read_ok"} => n = size

\* The partition is that of the boot sector, and what has been read of the
\* file is its beginning.
PartFound == Addressed /\ boot_sector.fat_size # 0 => part_lba = disk.part
FileRight ==
    Reading /\ pc \in FilePcs \cup {"running", "read_ok"} =>
        /\ Loop /\ Fits(disk, Len(buffer))
        /\ \A k \in 1 .. Len(buffer) : buffer[k] = Half(k)

FileInv == DiskInv /\ PartFound /\ FileRight

LEMMA SoundFacts ==
    ASSUME DiskInv, PartFound, Addressed, Sound
    PROVE  /\ part_lba = disk.part /\ boot_sector = disk.geo /\ entry = File(disk)
           /\ disk.geo.spc \in Nat /\ 1 <= disk.geo.spc
           /\ PerCluster(disk) = disk.geo.spc * 2 /\ PerCluster(disk) \in Nat \ {0}
           /\ disk.chain \in Seq(Clusters) /\ Len(disk.chain) \in Nat \ {0}
           /\ DOMAIN disk.chain = 1 .. Len(disk.chain)
           /\ First = FirstSectorOf(disk.part, disk.geo, current_cluster)
           /\ \A i \in 1 .. Len(disk.chain) : disk.chain[i] \in 2 .. EOC - 1
           /\ \A i \in 1 .. Len(disk.chain) : disk.chain[i] \div Entries < disk.geo.fat_size
           /\ \A i, j \in 1 .. Len(disk.chain) : disk.chain[i] = disk.chain[j] => i = j
<1>1. /\ boot_sector = disk.geo /\ entry = File(disk) /\ Addressed
      /\ disk \in Disks /\ disk \in Disk /\ disk.geo \in Geometry
      /\ disk.chain \in Seq(Clusters) /\ disk.chain # <<>>
  BY DiskTyped DEF Sound, DiskInv, StoreTyped
<1>2. /\ disk.geo.spc \in Nat /\ 1 <= disk.geo.spc /\ disk.geo.fat_size \in Nat
  BY <1>1, GeometryFields
<1>3. /\ Len(disk.chain) \in Nat \ {0} /\ DOMAIN disk.chain = 1 .. Len(disk.chain)
  BY <1>1
<1>4. PerCluster(disk) = disk.geo.spc * 2 /\ PerCluster(disk) \in Nat \ {0}
  BY <1>2 DEF PerCluster, PerSector
<1>5. ASSUME NEW i \in 1 .. Len(disk.chain) PROVE disk.chain[i] \in 2 .. EOC - 1
  <2>1. disk.chain[i] \in Clusters
    BY <1>1
  <2>. QED
    BY <2>1, VolumeAssumption
<1>6. \A i \in 1 .. Len(disk.chain) : disk.chain[i] \div Entries < disk.geo.fat_size
  BY <1>1, <1>3, DisksAssumption
<1>7. disk.geo.fat_size # 0
  <2>1. disk.chain[1] \in Nat /\ disk.chain[1] \div Entries < disk.geo.fat_size
    <3>1. 1 \in 1 .. Len(disk.chain)
      BY <1>3
    <3>. QED
      BY <1>5, <1>6, <3>1, EocTyped
  <2>2. disk.chain[1] \div Entries \in Nat
    BY <2>1, VolumeAssumption
  <2>. QED
    BY <2>1, <2>2
<1>8. part_lba = disk.part
  BY <1>1, <1>7 DEF PartFound
<1>9. First = FirstSectorOf(disk.part, disk.geo, current_cluster)
  BY <1>1, <1>8 DEF First
<1>10. \A i, j \in 1 .. Len(disk.chain) : disk.chain[i] = disk.chain[j] => i = j
  BY <1>1, <1>3, DisksAssumption
<1>. QED
  BY <1>1, <1>2, <1>3, <1>4, <1>5, <1>6, <1>8, <1>9, <1>10

LEMMA ReadingFacts ==
    ASSUME DiskInv, PartFound, Reading
    PROVE  /\ part_lba = disk.part /\ boot_sector = disk.geo /\ entry = File(disk)
           /\ disk.geo.spc \in Nat /\ 1 <= disk.geo.spc
           /\ PerCluster(disk) = disk.geo.spc * 2 /\ PerCluster(disk) \in Nat \ {0}
           /\ disk.chain \in Seq(Clusters) /\ Len(disk.chain) \in Nat \ {0}
           /\ DOMAIN disk.chain = 1 .. Len(disk.chain)
           /\ First = FirstSectorOf(disk.part, disk.geo, current_cluster)
           /\ \A i \in 1 .. Len(disk.chain) : disk.chain[i] \in 2 .. EOC - 1
           /\ \A i \in 1 .. Len(disk.chain) : disk.chain[i] \div Entries < disk.geo.fat_size
           /\ \A i, j \in 1 .. Len(disk.chain) : disk.chain[i] = disk.chain[j] => i = j
BY SoundFacts, Zenon DEF Reading

\* Division and its rest, of a multiple and something less.
LEMMA Divided ==
    ASSUME NEW d \in Nat \ {0}, NEW q \in Nat, NEW r \in Nat, r < d
    PROVE  (d * q + r) \div d = q /\ (d * q + r) % d = r
OBVIOUS

LEMMA Doubled ==
    ASSUME NEW s \in Nat, NEW j \in Nat
    PROVE  (2 * s + j) \div 2 = s + j \div 2 /\ (2 * s + j) % 2 = j % 2
OBVIOUS

LEMMA Halved ==
    ASSUME NEW c \in Nat, NEW j \in Nat, j < c * 2
    PROVE  j \div 2 \in Nat /\ j \div 2 + 1 \in 1 .. c
OBVIOUS

LEMMA Multiples ==
    ASSUME NEW d \in Nat, NEW l \in Nat, NEW i \in 1 .. l
    PROVE  /\ d * (i - 1) \in Nat /\ d * ((i + 1) - 1) = d * (i - 1) + d
           /\ d * ((i + 1) - 1) <= d * l
OBVIOUS

LEMMA Places ==
    ASSUME DiskInv, PartFound, Reading, NEW i \in 1 .. Len(disk.chain)
    PROVE  /\ Before(i) \in Nat /\ Before(i + 1) = Before(i) + PerCluster(disk)
           /\ Before(i + 1) <= PerCluster(disk) * Len(disk.chain)
<1>1. PerCluster(disk) \in Nat /\ Len(disk.chain) \in Nat
  BY ReadingFacts
<1>. QED
  BY <1>1, Multiples DEF Before

LEMMA HalfAt ==
    ASSUME DiskInv, PartFound, Reading, NEW i \in 1 .. Len(disk.chain),
           NEW r \in Nat, r < PerCluster(disk)
    PROVE  Half(Before(i) + r + 1) =
               <<FirstSectorOf(disk.part, disk.geo, disk.chain[i]) + r \div 2, (r % 2) + 1>>
<1>1. PerCluster(disk) \in Nat \ {0} /\ Len(disk.chain) \in Nat
  BY ReadingFacts
<1>2. i - 1 \in Nat /\ i - 1 + 1 = i
  BY <1>1
<1>. DEFINE k == Before(i) + r + 1
<1>3. k - 1 = PerCluster(disk) * (i - 1) + r
  BY <1>1, <1>2 DEF Before
<1>4. (k - 1) \div PerCluster(disk) = i - 1 /\ (k - 1) % PerCluster(disk) = r
  <2>. DEFINE d == PerCluster(disk)
              q == i - 1
  <2>1. d \in Nat \ {0} /\ q \in Nat /\ r < d /\ k - 1 = d * q + r
    BY <1>1, <1>2, <1>3
  <2>. HIDE DEF d, q, k
  <2>2. (d * q + r) \div d = q /\ (d * q + r) % d = r
    BY <2>1, Divided
  <2>3. (k - 1) \div d = q /\ (k - 1) % d = r
    BY <2>1, <2>2
  <2>. QED
    BY <2>3 DEF d, q
<1>. HIDE DEF k
<1>5. Half(k) = <<FirstSectorOf(disk.part, disk.geo, disk.chain[i]) + r \div 2, (r % 2) + 1>>
  BY <1>2, <1>4 DEF Half, PerSector
<1>. QED
  BY <1>5 DEF k

\* The blocks that have been read, from sector s of cluster i on, are those
\* of the file that come next.
LEMMA TakeRight ==
    ASSUME DiskInv, PartFound, Reading,
           \A k \in 1 .. Len(buffer) : buffer[k] = Half(k),
           NEW i \in 1 .. Len(disk.chain), AtCluster(i),
           NEW s \in Nat, s + io.count <= boot_sector.spc, io.lba = First + s,
           Len(buffer) = Before(i) + 2 * s,
           io.st = "ok", buffer' = buffer \o Piece(io.got)
    PROVE  /\ \A k \in 1 .. Len(buffer') : buffer'[k] = Half(k)
           /\ Len(buffer') = size \/ Len(buffer') = Before(i) + 2 * (s + io.count)
           /\ Len(buffer') <= Before(i + 1)
           /\ Fits(disk, Len(buffer'))
<1>1. /\ boot_sector = disk.geo /\ disk.geo.spc \in Nat /\ PerCluster(disk) = disk.geo.spc * 2
      /\ First = FirstSectorOf(disk.part, disk.geo, disk.chain[i])
      /\ Len(disk.chain) \in Nat /\ First \in Int
  BY ReadingFacts, FileSums DEF AtCluster
<1>2. /\ buffer \in Seq(HalfSectors) /\ Len(buffer) <= size /\ size \in Nat
      /\ Len(buffer) \in Nat
  BY DEF DiskInv, StoreTyped
<1>3. /\ io.got \in Seq(Int) /\ Len(io.got) = io.count /\ io.count \in Nat
      /\ \A k \in 1 .. io.count : io.got[k] = io.lba + k - 1
  BY CallOf DEF DiskInv, DriverInv, Calling, Honest, Reading
<1>. DEFINE piece == Piece(io.got)
<1>4. Remaining \in Nat /\ Remaining = size - Len(buffer)
  BY <1>2 DEF Remaining
<1>5. /\ piece \in Seq(HalfSectors)
      /\ Len(piece) = IF Remaining < io.count * 2 THEN Remaining ELSE io.count * 2
      /\ \A j \in 1 .. Len(piece) : piece[j] = HalfOf(io.got, j)
  BY <1>3, <1>4, PieceTyped
<1>. HIDE DEF piece
<1>6. /\ Len(buffer') = Len(buffer) + Len(piece)
      /\ \A k \in 1 .. Len(buffer) + Len(piece) :
             buffer'[k] = IF k <= Len(buffer) THEN buffer[k] ELSE piece[k - Len(buffer)]
  BY <1>2, <1>5, ConcatProperties DEF piece
<1>7. Len(piece) \in Nat /\ Len(piece) <= io.count * 2 /\ Len(piece) <= Remaining
      /\ (Len(piece) = Remaining \/ Len(piece) = io.count * 2)
  BY <1>3, <1>4, <1>5, SMTT(40)
<1>8. Before(i + 1) = Before(i) + PerCluster(disk) /\ Before(i) \in Nat
  BY Places
<1>. DEFINE n == Len(buffer)
            m == Len(piece)
            c == io.count
            b == Before(i)
            spc == disk.geo.spc
            all == PerCluster(disk) * Len(disk.chain)
<1>9. /\ n \in Nat /\ m \in Nat /\ c \in Nat /\ b \in Nat /\ spc \in Nat /\ size \in Nat
      /\ n = b + 2 * s /\ s + c <= spc /\ m <= c * 2 /\ m <= size - n
      /\ (m = size - n \/ m = c * 2)
      /\ Len(buffer') = n + m /\ Before(i + 1) = b + spc * 2
  BY <1>1, <1>2, <1>3, <1>4, <1>6, <1>7, <1>8
<1>10. Before(i + 1) <= all
  BY Places
<1>11. all \in Int
  <2>1. PerCluster(disk) \in Int /\ Len(disk.chain) \in Int
    BY ReadingFacts
  <2>. QED
    BY <2>1
<1>. HIDE DEF n, m, c, b, spc, all
<1>12. /\ Len(buffer') <= Before(i + 1) /\ Len(buffer') <= all
       /\ (Len(buffer') = size \/ Len(buffer') = b + 2 * (s + c))
  BY <1>9, <1>10, <1>11
<1>13. ASSUME NEW k \in 1 .. Len(buffer')
       PROVE  buffer'[k] = Half(k)
  <2>1. CASE k <= n
    <3>1. k \in 1 .. Len(buffer) /\ k \in 1 .. Len(buffer) + Len(piece)
      BY <1>9, <2>1 DEF n, m
    <3>. QED
      BY <1>6, <3>1
  <2>2. CASE ~(k <= n)
    <3>. DEFINE j == k - n
                r == 2 * s + (j - 1)
    <3>1. j \in 1 .. m /\ k = b + r + 1
      BY <1>9, <2>2
    <3>2. buffer'[k] = piece[j]
      <4>1. k \in 1 .. Len(buffer) + Len(piece) /\ ~(k <= Len(buffer))
        BY <1>9, <2>2 DEF n, m
      <4>. QED
        BY <1>6, <4>1 DEF n
    <3>. HIDE DEF j
    <3>3. j - 1 \in Nat /\ j - 1 < c * 2
      BY <1>9, <3>1
    <3>4. r \in Nat /\ r < spc * 2
      BY <1>9, <3>3
    <3>5. r \div 2 = s + (j - 1) \div 2 /\ r % 2 = (j - 1) % 2
      BY <3>3, Doubled
    <3>6. (j - 1) \div 2 \in Nat /\ (j - 1) \div 2 + 1 \in 1 .. c
      BY <1>9, <3>3, Halved
    <3>7. io.got[(j - 1) \div 2 + 1] = First + s + (j - 1) \div 2
      <4>. DEFINE q == (j - 1) \div 2
      <4>1. q \in Nat /\ q + 1 \in 1 .. io.count /\ First \in Int
        BY <1>1, <3>6 DEF c
      <4>. HIDE DEF q
      <4>2. io.got[q + 1] = io.lba + (q + 1) - 1
        BY <1>3, <4>1
      <4>3. io.got[q + 1] = First + s + q
        BY <4>1, <4>2
      <4>. QED
        BY <4>3 DEF q
    <3>8. Half(k) = <<First + r \div 2, (r % 2) + 1>>
      <4>. HIDE DEF r
      <4>1. k = Before(i) + r + 1 /\ r < PerCluster(disk)
        BY <1>1, <3>1, <3>4 DEF b, spc
      <4>. QED
        BY <1>1, <3>4, <4>1, HalfAt
    <3>9. buffer'[k] = <<First + s + (j - 1) \div 2, ((j - 1) % 2) + 1>>
      BY <1>5, <3>1, <3>2, <3>7 DEF HalfOf, m
    <3>10. First + r \div 2 = First + s + (j - 1) \div 2
      BY <1>1, <3>5, <3>6
    <3>. QED
      BY <3>5, <3>8, <3>9, <3>10, Zenon
  <2>. QED
    BY <2>1, <2>2
<1>. QED
  BY <1>12, <1>13 DEF b, c, all, Fits

LEMMA Placed ==
    ASSUME NEW c \in Nat, NEW e \in Nat \ {0}
    PROVE  /\ c \div e \in Nat /\ c % e \in 0 .. e - 1
           /\ (c \div e) * e + (c % e) = c
OBVIOUS

\* The FAT leads from each cluster of the file to the next.
LEMMA NextInChain ==
    ASSUME DiskInv, PartFound, Reading, NEW i \in 1 .. Len(disk.chain), AtCluster(i)
    PROVE  AsFat(disk, FatSector)[current_cluster % Entries] =
               IF i < Len(disk.chain) THEN disk.chain[i + 1] ELSE disk.end
<1>. DEFINE c == current_cluster
            start == FatStart(disk.part, disk.geo)
<1>1. /\ part_lba = disk.part /\ boot_sector = disk.geo /\ c = disk.chain[i]
      /\ disk.chain[i] \in 2 .. EOC - 1 /\ disk.chain[i] \div Entries < disk.geo.fat_size
      /\ DOMAIN disk.chain = 1 .. Len(disk.chain) /\ Len(disk.chain) \in Nat
      /\ \A j, k \in 1 .. Len(disk.chain) : disk.chain[j] = disk.chain[k] => j = k
  BY ReadingFacts DEF AtCluster
<1>2. c \in Nat /\ Entries \in Nat \ {0}
  BY <1>1, EocTyped, VolumeAssumption
<1>3. start \in Nat /\ disk.geo.fat_size \in Nat
  <2>1. /\ disk.geo \in Geometry /\ disk.part \in Parts
    BY DiskTyped DEF DiskInv
  <2>2. disk.geo.reserved \in Nat /\ disk.geo.fat_size \in Nat
    BY <2>1, GeometryFields
  <2>. QED
    BY <2>1, <2>2, PartsAre DEF FatStart
<1>4. FatSector = start + c \div Entries
  BY <1>1 DEF FatSector, FatSectorOf
<1>5. /\ c \div Entries \in Nat /\ c % Entries \in 0 .. Entries - 1
      /\ (c \div Entries) * Entries + (c % Entries) = c
  BY <1>2, Placed
<1>6. InFat(disk, FatSector)
  <2>1. FatSector \in start .. start + disk.geo.fat_size - 1
    BY <1>1, <1>3, <1>4, <1>5
  <2>. QED
    BY <2>1 DEF InFat
<1>7. FatSector - start = c \div Entries
  BY <1>3, <1>4, <1>5
<1>8. AsFat(disk, FatSector)[c % Entries] = Fat(disk, c)
  <2>1. AsFat(disk, FatSector)[c % Entries] =
            Fat(disk, (FatSector - start) * Entries + (c % Entries))
    BY <1>5, <1>6 DEF AsFat
  <2>. QED
    BY <1>5, <1>7, <2>1
<1>9. (CHOOSE j \in DOMAIN disk.chain : disk.chain[j] = c) = i
  BY <1>1
<1>10. Fat(disk, c) = IF i < Len(disk.chain) THEN disk.chain[i + 1] ELSE disk.end
  <2>1. \E j \in DOMAIN disk.chain : disk.chain[j] = c
    BY <1>1
  <2>. QED
    BY <1>9, <2>1 DEF Fat
<1>. QED
  BY <1>8, <1>10

\* What does not change in fat16_read_file.
LEMMA FileStays ==
    ASSUME UNCHANGED <<board, card, class_known, disk, boot_sector, entry, part_lba>>
    PROVE  /\ (Addressed /\ Sound)' => Addressed /\ Sound
           /\ Reading' /\ size' = size => Reading
           /\ PartFound => PartFound'
           /\ \A k : Half(k)' = Half(k)
           /\ \A i : Before(i)' = Before(i)
<1>1. Addressed' => Addressed
  BY DEF Addressed
<1>2. /\ (Addressed /\ Sound)' => Addressed /\ Sound
      /\ Reading' /\ size' = size => Reading
  BY <1>1 DEF Reading, Sound, Fits, PerCluster
<1>3. \A k : Half(k)' = Half(k)
  BY DEF Half
<1>4. \A i : Before(i)' = Before(i)
  BY DEF Before
<1>5. PartFound => PartFound'
  BY <1>1 DEF PartFound
<1>. QED
  BY <1>2, <1>3, <1>4, <1>5

\* A step that reads nothing.
LEMMA BufferStays ==
    ASSUME FileRight, Reading, pc \in FilePcs,
           UNCHANGED <<board, card, class_known, disk, boot_sector, entry, part_lba, buffer>>
    PROVE  Fits(disk, Len(buffer))' /\ \A k \in 1 .. Len(buffer') : buffer'[k] = Half(k)'
BY FileStays DEF FileRight, Fits

LEMMA NextClusterRight ==
    ASSUME FileInv, NextCluster
    PROVE  FileRight'
<1>. SUFFICES ASSUME Reading'
              PROVE  /\ Loop' /\ Fits(disk, Len(buffer))'
                     /\ \A k \in 1 .. Len(buffer') : buffer'[k] = Half(k)'
  BY DEF FileRight
<1>1. /\ pc = "cluster" /\ InFile /\ sector' = 0
      /\ UNCHANGED <<board, card, class_known, disk, boot_sector, entry, part_lba>>
      /\ UNCHANGED <<current_cluster, buffer, size>>
  BY DEF NextCluster, driverVars, stackVars, fatVars
<1>2. Reading /\ FileRight /\ DiskInv /\ PartFound /\ pc \in FilePcs
  BY <1>1, FileStays DEF FileInv, FilePcs
<1>3. PICK i \in DOMAIN disk.chain : AtCluster(i) /\ Len(buffer) = Before(i)
  BY <1>1, <1>2 DEF FileRight, Loop, InFile, DiskInv, StoreTyped
<1>4. First' = First /\ AtCluster(i)' /\ Before(i)' = Before(i) /\ Before(i + 1)' = Before(i + 1)
  BY <1>1, <1>3, FileStays DEF First, AtCluster
<1>5. Before(i) \in Nat /\ Before(i) <= Before(i + 1)
  BY <1>2, Places, ReadingFacts
<1>6. Loop'
  <2>1. CASE pc' = "whole" /\ CallRead(First, boot_sector.spc)
    <3>1. io'.lba = First' /\ io'.count = boot_sector'.spc
      BY <1>1, <1>4, <2>1 DEF CallRead
    <3>. QED
      BY <1>1, <1>3, <1>4, <2>1, <3>1 DEF Loop
  <2>2. CASE pc' = "sector"
    <3>1. Len(buffer') <= Before(i + 1)' /\ Len(buffer') = Before(i)' + 2 * sector'
      BY <1>1, <1>3, <1>4, <1>5
    <3>. QED
      BY <1>1, <1>3, <1>4, <2>2, <3>1 DEF Loop
  <2>. QED
    BY <2>1, <2>2 DEF NextCluster
<1>. QED
  BY <1>1, <1>2, <1>6, BufferStays

LEMMA NextSectorRight ==
    ASSUME FileInv, NextSector
    PROVE  FileRight'
<1>. SUFFICES ASSUME Reading'
              PROVE  /\ Loop' /\ Fits(disk, Len(buffer))'
                     /\ \A k \in 1 .. Len(buffer') : buffer'[k] = Half(k)'
  BY DEF FileRight
<1>1. /\ pc = "sector"
      /\ UNCHANGED <<board, card, class_known, disk, boot_sector, entry, part_lba>>
      /\ UNCHANGED <<current_cluster, buffer, size, sector>>
  BY DEF NextSector, driverVars, stackVars, fileVars, fatVars
<1>2. /\ Reading /\ FileRight /\ DiskInv /\ PartFound /\ pc \in FilePcs
      /\ sector \in Nat /\ Len(buffer) <= size /\ size \in Nat /\ Len(buffer) \in Nat
  BY <1>1, FileStays DEF FileInv, FilePcs, DiskInv, StoreTyped
<1>3. PICK i \in DOMAIN disk.chain :
          /\ AtCluster(i) /\ Len(buffer) <= Before(i + 1)
          /\ Len(buffer) = size \/ Len(buffer) = Before(i) + 2 * sector
  BY <1>1, <1>2 DEF FileRight, Loop
<1>4. First' = First /\ AtCluster(i)' /\ Before(i)' = Before(i) /\ Before(i + 1)' = Before(i + 1)
  BY <1>1, <1>3, FileStays DEF First, AtCluster
<1>5. /\ Before(i) \in Nat /\ Before(i + 1) = Before(i) + disk.geo.spc * 2
      /\ boot_sector = disk.geo /\ disk.geo.spc \in Nat
  BY <1>2, Places, ReadingFacts
<1>6. Loop'
  <2>1. CASE MoreSectors /\ pc' = "in_sector" /\ CallRead(First + sector, 1)
    <3>1. io'.lba = First' + sector' /\ Len(buffer') = Before(i)' + 2 * sector'
      BY <1>1, <1>2, <1>3, <1>4, <2>1 DEF CallRead, MoreSectors
    <3>. QED
      BY <1>1, <1>3, <1>4, <2>1, <3>1 DEF Loop
  <2>2. CASE ~MoreSectors /\ pc' = "fat"
    <3>1. Len(buffer) = size \/ sector >= boot_sector.spc
      BY <1>2, <1>5, <2>2 DEF MoreSectors
    <3>2. Len(buffer) = size \/ Len(buffer) = Before(i + 1)
      BY <1>2, <1>3, <1>5, <3>1
    <3>3. /\ Len(buffer') <= Before(i + 1)'
          /\ Len(buffer') = size' \/ Len(buffer') = Before(i + 1)'
      BY <1>1, <1>3, <1>4, <3>2
    <3>. QED
      BY <1>1, <1>3, <1>4, <2>2, <3>3 DEF Loop
  <2>. QED
    BY <2>1, <2>2 DEF NextSector
<1>. QED
  BY <1>1, <1>2, <1>6, BufferStays

\* A cluster has been read, or a sector, or the file has failed.
LEMMA TakeClusterRight ==
    ASSUME FileInv, TakeCluster
    PROVE  FileRight'
<1>. SUFFICES ASSUME Reading', pc' # "failed"
              PROVE  /\ Loop' /\ Fits(disk, Len(buffer))'
                     /\ \A k \in 1 .. Len(buffer') : buffer'[k] = Half(k)'
  BY DEF FileRight, FilePcs
<1>1. /\ pc = "whole" /\ io.st = "ok" /\ buffer' = buffer \o Piece(io.got) /\ pc' = "fat"
      /\ UNCHANGED <<board, card, class_known, disk, boot_sector, entry, part_lba>>
      /\ UNCHANGED <<current_cluster, size, sector>>
  BY DEF TakeCluster, Take, driverVars, stackVars, fatVars
<1>2. /\ Reading /\ FileRight /\ DiskInv /\ PartFound /\ pc \in FilePcs
      /\ First \in Int /\ boot_sector.spc \in Nat
  BY <1>1, FileStays, FileSums DEF FileInv, FilePcs
<1>3. PICK i \in DOMAIN disk.chain : AtCluster(i) /\ Len(buffer) = Before(i)
  BY <1>1, <1>2 DEF FileRight, Loop
<1>4. io.lba = First /\ io.count = boot_sector.spc
  BY <1>1, <1>2 DEF FileRight, Loop
<1>5. AtCluster(i)' = AtCluster(i) /\ Before(i + 1)' = Before(i + 1)
  BY <1>1, FileStays DEF AtCluster
<1>6. /\ i \in 1 .. Len(disk.chain) /\ Before(i) \in Nat
      /\ Before(i + 1) = Before(i) + PerCluster(disk)
      /\ PerCluster(disk) = boot_sector.spc * 2
  BY <1>2, <1>3, Places, ReadingFacts
<1>7. /\ 0 \in Nat /\ 0 + io.count <= boot_sector.spc /\ io.lba = First + 0
      /\ Len(buffer) = Before(i) + 2 * 0
  BY <1>2, <1>3, <1>4, <1>6
<1>8. \A k \in 1 .. Len(buffer) : buffer[k] = Half(k)
  BY <1>2 DEF FileRight
<1>9. /\ \A k \in 1 .. Len(buffer') : buffer'[k] = Half(k)
      /\ Len(buffer') = size \/ Len(buffer') = Before(i) + 2 * (0 + io.count)
      /\ Len(buffer') <= Before(i + 1)
      /\ Fits(disk, Len(buffer'))
  BY <1>1, <1>2, <1>3, <1>6, <1>7, <1>8, TakeRight
<1>10. Len(buffer') = size' \/ Len(buffer') = Before(i + 1)'
  BY <1>1, <1>2, <1>4, <1>5, <1>6, <1>9
<1>11. Loop'
  <2>1. /\ i \in DOMAIN disk'.chain /\ AtCluster(i)' /\ Len(buffer') <= Before(i + 1)'
    BY <1>1, <1>3, <1>5, <1>9
  <2>. QED
    BY <1>1, <1>10, <2>1 DEF Loop
<1>12. \A k \in 1 .. Len(buffer') : buffer'[k] = Half(k)'
  BY <1>1, <1>9, FileStays
<1>. QED
  BY <1>1, <1>9, <1>11, <1>12 DEF Fits

LEMMA TakeSectorRight ==
    ASSUME FileInv, TakeSector
    PROVE  FileRight'
<1>. SUFFICES ASSUME Reading', pc' # "failed"
              PROVE  /\ Loop' /\ Fits(disk, Len(buffer))'
                     /\ \A k \in 1 .. Len(buffer') : buffer'[k] = Half(k)'
  BY DEF FileRight, FilePcs
<1>1. /\ pc = "in_sector" /\ io.st = "ok" /\ buffer' = buffer \o Piece(io.got) /\ pc' = "sector"
      /\ UNCHANGED <<board, card, class_known, disk, boot_sector, entry, part_lba>>
      /\ UNCHANGED <<current_cluster, size>> /\ sector' = sector + 1
  BY DEF TakeSector, Take, driverVars, stackVars, fatVars
<1>2. /\ Reading /\ FileRight /\ DiskInv /\ PartFound /\ pc \in FilePcs
      /\ sector \in Nat /\ sector < boot_sector.spc /\ io.count = 1 /\ boot_sector.spc \in Nat
  BY <1>1, FileStays, FileSums DEF FileInv, FilePcs, DiskInv, StoreTyped, Asked
<1>3. PICK i \in DOMAIN disk.chain : AtCluster(i) /\ Len(buffer) = Before(i) + 2 * sector
  BY <1>1, <1>2 DEF FileRight, Loop
<1>4. io.lba = First + sector
  BY <1>1, <1>2 DEF FileRight, Loop
<1>5. /\ AtCluster(i)' = AtCluster(i) /\ Before(i)' = Before(i)
      /\ Before(i + 1)' = Before(i + 1)
  BY <1>1, FileStays DEF AtCluster
<1>6. i \in 1 .. Len(disk.chain) /\ sector + io.count <= boot_sector.spc
  BY <1>2, <1>3, ReadingFacts
<1>8. \A k \in 1 .. Len(buffer) : buffer[k] = Half(k)
  BY <1>2 DEF FileRight
<1>9. /\ \A k \in 1 .. Len(buffer') : buffer'[k] = Half(k)
      /\ Len(buffer') = size \/ Len(buffer') = Before(i) + 2 * (sector + io.count)
      /\ Len(buffer') <= Before(i + 1)
      /\ Fits(disk, Len(buffer'))
  BY <1>1, <1>2, <1>3, <1>4, <1>6, <1>8, TakeRight
<1>10. Len(buffer') = size' \/ Len(buffer') = Before(i)' + 2 * sector'
  BY <1>1, <1>2, <1>5, <1>9
<1>11. Loop'
  <2>1. /\ i \in DOMAIN disk'.chain /\ AtCluster(i)' /\ Len(buffer') <= Before(i + 1)'
    BY <1>1, <1>3, <1>5, <1>9
  <2>. QED
    BY <1>1, <1>10, <2>1 DEF Loop
<1>12. \A k \in 1 .. Len(buffer') : buffer'[k] = Half(k)'
  BY <1>1, <1>9, FileStays
<1>. QED
  BY <1>1, <1>9, <1>11, <1>12 DEF Fits

\* Where get_fat_entry answers from the right sector, the loop goes on with
\* the next cluster of the file, or ends.
LEMMA ChainGoesOn ==
    ASSUME FileInv, Reading, pc \in {"fat", "in_fat"}, pc' = "cluster",
           UNCHANGED <<disk, buffer, size>>,
           \/ current_cluster' = EOC
           \/ current_cluster' = AsFat(disk, FatSector)[current_cluster % Entries]
    PROVE  Loop'
<1>1. FileRight /\ DiskInv /\ PartFound /\ pc \in FilePcs
  BY DEF FileInv, FilePcs
<1>2. PICK i \in DOMAIN disk.chain :
          AtCluster(i) /\ (Len(buffer) = size \/ Len(buffer) = Before(i + 1))
  BY <1>1 DEF FileRight, Loop
<1>3. i \in 1 .. Len(disk.chain) /\ DOMAIN disk.chain = 1 .. Len(disk.chain) /\ Len(disk.chain) \in Nat
  BY <1>1, <1>2, ReadingFacts
<1>4. \/ current_cluster' = EOC
      \/ i < Len(disk.chain) /\ current_cluster' = disk.chain[i + 1]
      \/ i = Len(disk.chain) /\ current_cluster' = disk.end
  BY <1>1, <1>2, <1>3, NextInChain
<1>5. CASE i < Len(disk.chain) /\ current_cluster' = disk.chain[i + 1]
  <2>1. i + 1 \in DOMAIN disk'.chain /\ AtCluster(i + 1)'
    BY <1>3, <1>5 DEF AtCluster
  <2>2. Before(i + 1)' = Before(i + 1)
    BY DEF Before
  <2>. QED
    BY <1>2, <2>1, <2>2 DEF Loop
<1>6. CASE current_cluster' = EOC
  BY <1>6 DEF Loop
\* At the end of its chain the file is complete, or the end is seen.
<1>7. CASE i = Len(disk.chain) /\ current_cluster' = disk.end /\ disk.end # EOC
  <2>1. size <= PerCluster(disk) * Len(disk.chain)
    BY <1>7 DEF Reading, Fits
  <2>2. Before(i + 1) = PerCluster(disk) * Len(disk.chain)
    BY <1>3, <1>7 DEF Before
  <2>3. Len(buffer) <= size /\ size \in Nat /\ Len(buffer) \in Nat
    BY <1>1 DEF DiskInv, StoreTyped
  <2>4. PerCluster(disk) * Len(disk.chain) \in Nat
    BY <1>1, <1>3, ReadingFacts
  <2>5. Len(buffer) = size
    BY <1>2, <2>1, <2>2, <2>3, <2>4
  <2>. QED
    BY <2>5 DEF Loop
<1>. QED
  BY <1>4, <1>5, <1>6, <1>7

LEMMA GetFatEntryRight ==
    ASSUME ~LateErrors, FileInv, GetFatEntry
    PROVE  FileRight'
<1>. SUFFICES ASSUME Reading'
              PROVE  /\ Loop' /\ Fits(disk, Len(buffer))'
                     /\ \A k \in 1 .. Len(buffer') : buffer'[k] = Half(k)'
  BY DEF FileRight
<1>1. /\ pc = "fat"
      /\ UNCHANGED <<board, card, class_known, disk, boot_sector, entry, part_lba>>
      /\ UNCHANGED <<buffer, size, sector>>
  BY DEF GetFatEntry, driverVars, stackVars, fatVars
<1>2. Reading /\ FileRight /\ DiskInv /\ PartFound /\ pc \in FilePcs
  BY <1>1, FileStays DEF FileInv, FilePcs
<1>3. Loop'
  <2>1. CASE cached_sector = FatSector /\ NextFrom(fat_buffer) /\ pc' = "cluster"
    <3>1. fat_buffer = AsFat(disk, FatSector)
      BY <1>2, <2>1, FileSums DEF DiskInv, Cached, Reading
    <3>. QED
      BY <1>1, <1>2, <2>1, <3>1, ChainGoesOn DEF NextFrom
  <2>2. CASE pc' = "in_fat" /\ UNCHANGED current_cluster
    <3>1. PICK i \in DOMAIN disk.chain :
              /\ AtCluster(i) /\ Len(buffer) <= Before(i + 1)
              /\ Len(buffer) = size \/ Len(buffer) = Before(i + 1)
      BY <1>1, <1>2 DEF FileRight, Loop
    <3>2. AtCluster(i)' /\ Before(i + 1)' = Before(i + 1)
      BY <1>1, <2>2, <3>1, FileStays DEF AtCluster
    <3>. QED
      BY <1>1, <2>2, <3>1, <3>2 DEF Loop
  <2>. QED
    BY <2>1, <2>2 DEF GetFatEntry
<1>. QED
  BY <1>1, <1>2, <1>3, BufferStays

LEMMA TakeFatRight ==
    ASSUME ~LateErrors, FileInv, TakeFat
    PROVE  FileRight'
<1>. SUFFICES ASSUME Reading'
              PROVE  /\ Loop' /\ Fits(disk, Len(buffer))'
                     /\ \A k \in 1 .. Len(buffer') : buffer'[k] = Half(k)'
  BY DEF FileRight
<1>1. /\ pc = "in_fat" /\ pc' = "cluster"
      /\ UNCHANGED <<board, card, class_known, disk, boot_sector, entry, part_lba>>
      /\ UNCHANGED <<buffer, size, sector>>
  BY DEF TakeFat, driverVars, stackVars
<1>2. Reading /\ FileRight /\ DiskInv /\ PartFound /\ pc \in FilePcs
  BY <1>1, FileStays DEF FileInv, FilePcs
<1>3. CASE io.st = "ok"
  <2>1. io.got # <<>> /\ io.got[1] = FatSector
    BY <1>2, <1>3, FatRead DEF Reading
  <2>2. current_cluster' = AsFat(disk, FatSector)[current_cluster % Entries]
    BY <1>3, <2>1 DEF TakeFat, NextFrom
  <2>. QED
    BY <1>1, <1>2, <2>2, ChainGoesOn, BufferStays
<1>4. CASE io.st # "ok"
  <2>1. current_cluster' = EOC
    BY <1>4 DEF TakeFat
  <2>. QED
    BY <1>1, <1>2, <2>1, ChainGoesOn, BufferStays
<1>. QED
  BY <1>3, <1>4

\* The entry of the directory leads to the first cluster.
LEMMA LoadNamedFileRight ==
    ASSUME FileInv, LoadNamedFile
    PROVE  FileRight'
<1>. SUFFICES ASSUME Reading'
              PROVE  /\ Loop' /\ Fits(disk, Len(buffer))'
                     /\ \A k \in 1 .. Len(buffer') : buffer'[k] = Half(k)'
  BY DEF FileRight
<1>1. /\ pc' = "cluster" /\ buffer' = <<>> /\ current_cluster' = FirstCluster(entry)
      /\ UNCHANGED <<board, card, class_known, disk, boot_sector, entry, part_lba>>
  BY DEF LoadNamedFile, ReadFile, StaysPut, stackVars
<1>2. Addressed /\ Sound /\ DiskInv /\ PartFound
  BY <1>1, FileStays DEF FileInv, Reading
<1>3. /\ entry = File(disk) /\ PerCluster(disk) \in Nat /\ Len(disk.chain) \in Nat \ {0}
      /\ DOMAIN disk.chain = 1 .. Len(disk.chain)
  BY <1>2, SoundFacts
<1>4. FirstCluster(entry) = disk.chain[1]
  BY <1>3 DEF File, FirstCluster
<1>5. 1 \in DOMAIN disk'.chain /\ AtCluster(1)' /\ Len(buffer') = Before(1)' /\ Len(buffer') = 0
  <2>1. Len(buffer') = 0 /\ Before(1) = 0
    BY <1>1, <1>3 DEF Before
  <2>. QED
    BY <1>1, <1>3, <1>4, <2>1, FileStays DEF AtCluster
<1>6. Loop'
  BY <1>1, <1>5 DEF Loop
<1>7. 0 <= PerCluster(disk) * Len(disk.chain)
  BY <1>3
<1>. QED
  BY <1>1, <1>5, <1>6, <1>7 DEF Fits

LEMMA LoadedRight ==
    ASSUME FileInv, Loaded
    PROVE  FileRight'
<1>. SUFFICES ASSUME Reading', pc' # "failed"
              PROVE  /\ Loop' /\ Fits(disk, Len(buffer))'
                     /\ \A k \in 1 .. Len(buffer') : buffer'[k] = Half(k)'
  BY DEF FileRight, FilePcs
<1>1. /\ pc = "cluster" /\ pc' \in {"running", "read_ok"} /\ Len(buffer) = size
      /\ UNCHANGED <<board, card, class_known, disk, boot_sector, entry, part_lba>>
      /\ UNCHANGED <<buffer, size>>
  BY DEF Loaded, Complete, StaysPut, stackVars, fileVars
<1>2. Reading /\ FileRight /\ pc \in FilePcs
  BY <1>1, FileStays DEF FileInv, FilePcs
<1>3. Loop'
  BY <1>1 DEF Loop
<1>. QED
  BY <1>1, <1>2, <1>3, BufferStays

\* The driver works on the call that the loop waits for.
LEMMA DriverRight ==
    ASSUME FileInv, Driver
    PROVE  PartFound' /\ FileRight'
<1>1. /\ Frame /\ UNCHANGED <<pc, part_lba, disk, boot_sector, entry>>
      /\ UNCHANGED <<current_cluster, sector, buffer, size>>
  BY DriverKeeps DEF FileInv, Driver, stackVars, fileVars
<1>2. Addressed' => Addressed
  BY <1>1 DEF Frame, Addressed
<1>3. PartFound'
  BY <1>1, <1>2 DEF FileInv, PartFound
<1>4. ASSUME Reading', pc \in FilePcs \cup {"running", "read_ok"}
      PROVE  /\ Loop' /\ Fits(disk, Len(buffer))'
             /\ \A k \in 1 .. Len(buffer') : buffer'[k] = Half(k)'
  <2>1. Reading
    BY <1>1, <1>2, <1>4 DEF Reading, Sound, Fits, PerCluster
  <2>2. Loop /\ Fits(disk, Len(buffer)) /\ \A k \in 1 .. Len(buffer) : buffer[k] = Half(k)
    BY <1>4, <2>1 DEF FileInv, FileRight
  <2>3. /\ \A k : Half(k)' = Half(k)
        /\ \A i : Before(i)' = Before(i) /\ AtCluster(i)' = AtCluster(i)
        /\ First' = First
    BY <1>1 DEF Half, Before, AtCluster, First
  <2>4. io'.lba = io.lba /\ io'.count = io.count
    BY <1>1 DEF Frame
  <2>5. Loop'
    BY <1>1, <2>2, <2>3, <2>4 DEF Loop
  <2>. QED
    BY <1>1, <2>2, <2>3, <2>5 DEF Fits
<1>5. FileRight'
  BY <1>1, <1>4 DEF FileRight
<1>. QED
  BY <1>3, <1>5

LEMMA PartStays ==
    ASSUME PartFound, UNCHANGED <<board, card, class_known, disk, boot_sector, part_lba>>
    PROVE  PartFound'
BY DEF PartFound, Addressed

\* A boot sector with a FAT has been read from the partition; two swaps of
\* what is left on the stack give it none, where it had none.
LEMMA ReadBootSectorRight ==
    ASSUME FileInv, ReadBootSector
    PROVE  PartFound' /\ FileRight'
<1>1. /\ pc = "boot_sector" /\ pc' = "list" /\ UNCHANGED <<board, card, class_known, disk, part_lba>>
  BY DEF ReadBootSector, driverVars
<1>2. Addressed' = Addressed
  BY <1>1 DEF Addressed
<1>. SUFFICES ASSUME Addressed, boot_sector'.fat_size # 0
              PROVE  part_lba = disk.part
  BY <1>1, <1>2 DEF PartFound, FileRight, FilePcs
<1>3. CASE io.got # <<>>
  <2>1. boot_sector' = AsBootSector(disk, io.got[1])
    BY <1>3 DEF ReadBootSector
  <2>2. io.got[1] = disk.part
    BY <2>1 DEF AsBootSector, NoGeometry
  <2>3. io.got \in Seq(Int) /\ io.lba = part_lba /\ io.lba \in Int
    BY <1>1, CallOf DEF FileInv, DiskInv, Asked
  <2>4. 1 \in 1 .. Len(io.got)
    BY <1>3, <2>3
  <2>5. io.got[1] = io.lba + 1 - 1
    BY <2>4 DEF FileInv, DiskInv, DriverInv, Honest
  <2>. QED
    BY <2>2, <2>3, <2>5
<1>4. CASE io.got = <<>>
  <2>1. boot_sector' = SwappedGeometry(boot_sector)
    BY <1>4 DEF ReadBootSector, NoGeometry
  <2>2. boot_sector \in Fields
    BY DEF FileInv, DiskInv, StoreTyped, Geometry, Fields
  <2>3. boot_sector'.fat_size = Swap16(boot_sector.fat_size)
    BY <2>1, <2>2, SwappedFields
  <2>4. Swap16(0) = 0
    BY DEF Swap16
  <2>. QED
    BY <2>3, <2>4 DEF FileInv, PartFound
<1>. QED
  BY <1>3, <1>4

LEMMA RestRight ==
    ASSUME FileInv, UNCHANGED diskVars
    PROVE  PartFound' /\ FileRight'
<1>1. /\ UNCHANGED <<board, io, card, class_known, pc, part_lba, disk>>
      /\ UNCHANGED <<boot_sector, entry, current_cluster, sector, buffer, size>>
  BY DEF diskVars, stackVars, fileVars
<1>2. PartFound'
  BY <1>1, PartStays DEF FileInv
<1>3. /\ \A k : Half(k)' = Half(k)
      /\ \A i : Before(i)' = Before(i) /\ AtCluster(i)' = AtCluster(i)
      /\ First' = First
  BY <1>1 DEF Half, Before, AtCluster, First
<1>4. Reading' = Reading
  BY <1>1 DEF Reading, Sound, Addressed, Fits, PerCluster
<1>5. Loop => Loop'
  BY <1>1, <1>3 DEF Loop
<1>6. FileRight'
  BY <1>1, <1>3, <1>4, <1>5 DEF FileInv, FileRight, Fits
<1>. QED
  BY <1>2, <1>6

\* No other step is in fat16_read_file, or comes to it.
LEMMA ElsewhereRight ==
    ASSUME FileInv,
           \/ Boot \/ Gpio \/ Exit \/ Report \/ Start \/ BroughtUp \/ PrintTable
           \/ FindPartition \/ ListFiles \/ Countdown
    PROVE  PartFound' /\ FileRight'
<1>1. FileRight'
  <2>1. pc' \notin FilePcs \cup {"running", "read_ok"}
    BY DEF Boot, Gpio, Exit, Report, ToPrompt, Start, BroughtUp, PrintTable, FindPartition,
           ListFiles, Countdown, Prompt, FilePcs
  <2>. QED
    BY <2>1 DEF FileRight
<1>2. CASE FindPartition /\ pc' # "failed"
  BY <1>1, <1>2 DEF FindPartition, StaysPut, PartFound
<1>3. CASE ~(FindPartition /\ pc' # "failed")
  <2>1. UNCHANGED <<board, card, class_known, disk>>
    BY DEF Boot, Gpio, Exit, Report, ToPrompt, Start, BroughtUp, PrintTable, FindPartition,
           ListFiles, Countdown, StaysPut
  <2>2. UNCHANGED <<boot_sector, part_lba>>
    BY <1>3 DEF Boot, Gpio, Exit, Report, ToPrompt, Start, BroughtUp, PrintTable, FindPartition,
           ListFiles, Countdown, stackVars
  <2>. QED
    BY <1>1, <2>1, <2>2, PartStays DEF FileInv
<1>. QED
  BY <1>1, <1>2, <1>3

LEMMA FileStepRight ==
    ASSUME ~LateErrors, FileInv, FileStep \/ LoadNamedFile \/ Loaded
    PROVE  PartFound' /\ FileRight'
<1>1. FileRight'
  BY NextClusterRight, TakeClusterRight, NextSectorRight, TakeSectorRight, GetFatEntryRight,
     TakeFatRight, LoadNamedFileRight, LoadedRight DEF FileStep
<1>2. UNCHANGED <<board, card, class_known, disk, boot_sector, part_lba>>
  <2>1. CASE FileStep
    BY <2>1 DEF FileStep, NextCluster, TakeCluster, TakeSector, Take, NextSector, GetFatEntry,
                TakeFat, driverVars, stackVars
  <2>2. CASE LoadNamedFile \/ Loaded
    BY <2>2 DEF LoadNamedFile, Loaded, StaysPut, stackVars
  <2>. QED
    BY <2>1, <2>2
<1>. QED
  BY <1>1, <1>2, PartStays DEF FileInv

LEMMA FileInitially == Init => PartFound /\ FileRight
<1>. SUFFICES ASSUME Init
              PROVE  PartFound /\ FileRight
  OBVIOUS
<1>1. boot_sector.fat_size = 0 /\ pc \in {"prompt", "start"}
  BY DEF Init, NoGeometry
<1>. QED
  BY <1>1 DEF PartFound, FileRight, FilePcs

LEMMA FileStepKeeps ==
    ASSUME ~LateErrors, FileInv, [Next]_vars
    PROVE  FileInv'
<1>1. DiskInv'
  BY DiskStepKeeps DEF FileInv
<1>2. CASE UNCHANGED diskVars
  BY <1>1, <1>2, RestRight DEF FileInv
<1>3. CASE ReadBootSector \/ Driver
  BY <1>1, <1>3, ReadBootSectorRight, DriverRight DEF FileInv
<1>4. CASE FileStep \/ LoadNamedFile \/ Loaded
  BY <1>1, <1>4, FileStepRight DEF FileInv
<1>5. CASE \/ Boot \/ Gpio \/ Exit \/ Report \/ Start \/ BroughtUp \/ PrintTable
           \/ FindPartition \/ ListFiles \/ Countdown
  BY <1>1, <1>5, ElsewhereRight DEF FileInv
<1>6. UNCHANGED vars \/ Memory \/ (MemoryStep /\ UNCHANGED diskVars) => UNCHANGED diskVars
  BY DEF vars, Memory, diskVars, stackVars, fileVars, fatVars
<1>. QED
  BY <1>2, <1>3, <1>4, <1>5, <1>6 DEF Next, Program

\* The program that is started is the file of the disk, half sector by half
\* sector along its chain, and no program is started of a file whose chain is
\* too short and ends in 0xFFFF: whatever reads of data and of the FAT have
\* failed before, and whatever stands behind the last cluster of a file that
\* is complete.  It says nothing of a chain that is too short and has
\* another end (fat16.c:223), nor of a boot sector or a directory that is
\* not the one on the disk, of a card that is addressed wrongly, or of a
\* drive that reports an error after it has sent the data.
THEOREM StartedIsTheFile ==
    ASSUME ~LateErrors
    PROVE  Spec => []StartedIsFile
<1>1. FileInv => StartedIsFile
  <2>. SUFFICES ASSUME FileInv, Reading, pc \in {"running", "read_ok"}
                PROVE  Fits(disk, size) /\ buffer = FileData(disk, size)
    BY DEF StartedIsFile, Reading
  <2>1. /\ Len(buffer) = size /\ Fits(disk, Len(buffer))
        /\ \A k \in 1 .. Len(buffer) : buffer[k] = Half(k)
    BY DEF FileInv, FileRight, Loop
  <2>2. buffer \in Seq(HalfSectors) /\ size \in Nat
    BY DEF FileInv, DiskInv, StoreTyped
  <2>3. buffer = [k \in 1 .. size |-> buffer[k]]
    BY <2>1, <2>2
  <2>4. FileData(disk, size) = [k \in 1 .. size |-> Half(k)]
    BY DEF FileData, Half
  <2>. QED
    BY <2>1, <2>3, <2>4
<1>2. Init => FileInv
  BY DiskInitially, FileInitially DEF FileInv
<1>3. FileInv /\ [Next]_vars => FileInv'
  BY FileStepKeeps
<1>. QED
  BY <1>1, <1>2, <1>3, PTL DEF Spec
=============================================================================
