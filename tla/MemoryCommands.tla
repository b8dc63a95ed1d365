--------------------------- MODULE MemoryCommands ---------------------------
(***************************************************************************)
(* The commands of bootloader.c that work on memory: peek, poke, zero, the *)
(* memory tests, and on Mackerel-30 cache, cinv and dtest.                 *)
(*                                                                         *)
(* The RAM is external: a few cells of two data lines each, sound or with  *)
(* one fault: a line that is stuck in one cell, the two lines joined, or   *)
(* an address that leads to another cell.  So is the data cache of the     *)
(* 68030: writes go through, only a read takes an entry, and while it is   *)
(* switched off its entries stay as they are.                              *)
(***************************************************************************)
EXTENDS Integers, Sequences

CONSTANTS
    Ranges,       \* <<first cell, number of cells>> the tests are run on
    ZeroSizes,    \* bytes zero is called with
    RandomReads   \* 1024

\* The tests stay inside the cells: first + cells <= 4.
ASSUME MemoryAssumption ==
    /\ \A r \in Ranges : r \in Nat \X Nat /\ r[1] + r[2] <= 4
    /\ ZeroSizes \subseteq Nat /\ RandomReads \in Nat

VARIABLES ram, fault, dcache_on, dcache, test

memoryVars == <<ram, fault, dcache_on, dcache, test>>

Cells == 0 .. 3
Values == 0 .. 3          \* of the two lines
Invalid == 4

NoFault == [kind |-> "none", at |-> 0, to |-> 0]
Faults ==
    [kind : {"stuck_low", "stuck_high"}, at : Cells, to : {1, 2}]
    \cup [kind : {"joined"}, at : {0}, to : {0}]
    \cup {f \in [kind : {"alias"}, at : Cells, to : Cells] : f.at # f.to}

NoTest == [op |-> "none", first |-> 0, cells |-> 0, k |-> 1, i |-> 0,
           pass |-> "done", errors |-> 0, cached |-> FALSE, zeroed |-> {}]

MemoryInit ==
    /\ ram = [a \in Cells |-> 0] /\ fault \in Faults \cup {NoFault}
    /\ dcache_on = FALSE /\ dcache = [a \in Cells |-> Invalid]
    /\ test = NoTest

-----------------------------------------------------------------------------
\* The cell behind an address, and what comes back from it.
Cell(a) == IF fault.kind = "alias" /\ fault.at = a THEN fault.to ELSE a
Has(v, line) == (v \div line) % 2 = 1
LoadFrom(mem, a) ==
    LET v == mem[Cell(a)] IN
    CASE fault.kind = "stuck_low" /\ a = fault.at /\ Has(v, fault.to) -> v - fault.to
      [] fault.kind = "stuck_high" /\ a = fault.at /\ ~Has(v, fault.to) -> v + fault.to
      [] fault.kind = "joined" /\ v # 3 -> 0
      [] OTHER -> v

Load(a) == LoadFrom(ram, a)

Hit(a) == dcache_on /\ dcache[a] # Invalid
Read(a) == IF Hit(a) THEN dcache[a] ELSE Load(a)
Taken(a) == IF dcache_on THEN [dcache EXCEPT ![a] = Read(a)] ELSE dcache
Write(a, v) ==
    /\ ram' = [ram EXCEPT ![Cell(a)] = v]
    /\ dcache' = IF Hit(a) THEN [dcache EXCEPT ![a] = v] ELSE dcache

\* movec to CACR: the enable bit of the data cache, and the clear bit.
SetCacr(on, clear) ==
    /\ dcache_on' = on
    /\ dcache' = IF clear THEN [a \in Cells |-> Invalid] ELSE dcache

-----------------------------------------------------------------------------
Peek == \E a \in Cells : dcache' = Taken(a) /\ UNCHANGED <<ram, fault, dcache_on, test>>
Poke == \E a \in Cells, v \in {0, 2} : Write(a, v) /\ UNCHANGED <<fault, dcache_on, test>>

\* cache on, off, i and d; the mutant enables without clearing.
CacheMutant ==
    \/ SetCacr(TRUE, FALSE) \/ SetCacr(FALSE, FALSE)
CacheModes == SetCacr(TRUE, TRUE) \/ SetCacr(FALSE, FALSE)
Cache == CacheModes /\ UNCHANGED <<ram, fault, test>>

\* cinv, cinv i and cinv d: what is enabled stays enabled.
Cinv ==
    /\ \E clear \in BOOLEAN : SetCacr(dcache_on, clear)
    /\ UNCHANGED <<ram, fault, test>>

-----------------------------------------------------------------------------
\* mem8 and mem16 write one value after the other, all cells of them: the
\* lines are D1 and D0 of 00, AA, 55, FF and of 0000, AABB, 55CC, FFFF.
\* mem32 and dtest write each cell's own address.
Targets(op) == CASE op = "mem8" -> <<0, 2, 1, 3>>
                 [] op = "mem16" -> <<0, 3, 0, 3>>
                 [] OTHER -> <<"address">>
Target(a) == IF test.op \in {"mem8", "mem16"} THEN Targets(test.op)[test.k] ELSE a

\* dtest switches the caches off first, and divides by the number of cells.
StartTest(op) ==
    /\ \E r \in Ranges :
           test' = [NoTest EXCEPT !.op = op, !.first = r[1], !.cells = r[2],
                                  !.pass = "write", !.cached = dcache_on]
    /\ IF op = "dtest" THEN SetCacr(FALSE, FALSE) ELSE UNCHANGED <<dcache_on, dcache>>
    /\ UNCHANGED <<ram, fault>>

Here == test.first + test.i
Step == [test EXCEPT !.i = @ + 1]
Through == test.i = test.cells
Testing(pass) == test.op # "zero" /\ test.pass = pass

WriteCell ==
    /\ Testing("write") /\ ~Through
    /\ Write(Here, Target(Here)) /\ test' = Step
    /\ UNCHANGED <<fault, dcache_on>>

\* mem32 reads each cell again at once, to see whether it is time for a dot.
WriteAndLook ==
    /\ Testing("write") /\ ~Through
    /\ ram' = [ram EXCEPT ![Cell(Here)] = Here]
    /\ dcache' = IF ~dcache_on THEN dcache
                 ELSE [dcache EXCEPT ![Here] =
                          IF Hit(Here) THEN Here ELSE LoadFrom(ram', Here)]
    /\ test' = Step
    /\ UNCHANGED <<fault, dcache_on>>

\* dtest's random reads are made with clean caches.
AllWritten ==
    /\ Testing("write") /\ Through
    /\ IF test.op = "dtest"
       THEN /\ SetCacr(TRUE, TRUE)
            /\ test' = [test EXCEPT !.i = 0,
                            !.pass = IF test.cells = 0 THEN "panic" ELSE "random"]
       ELSE /\ UNCHANGED <<dcache_on, dcache>>
            /\ test' = [test EXCEPT !.i = 0, !.pass = "read"]
    /\ UNCHANGED <<ram, fault>>

Compared(a, t) ==
    [t EXCEPT !.errors = IF Read(a) # Target(a) THEN 1 ELSE @]

RandomRead ==
    /\ Testing("random") /\ test.i < RandomReads
    /\ \E a \in test.first .. test.first + test.cells - 1 :
           dcache' = Taken(a) /\ test' = Compared(a, Step)
    /\ UNCHANGED <<ram, fault, dcache_on>>

\* The mutant leaves the caches on for the linear scan.
RandomDoneMutant ==
    /\ Testing("random") /\ test.i = RandomReads
    /\ test' = [test EXCEPT !.i = 0, !.pass = "done"]
    /\ UNCHANGED <<ram, fault, dcache_on, dcache>>
RandomDone ==
    /\ Testing("random") /\ test.i = RandomReads
    /\ SetCacr(FALSE, FALSE) /\ test' = [test EXCEPT !.i = 0, !.pass = "read"]
    /\ UNCHANGED <<ram, fault>>

ReadCell ==
    /\ Testing("read") /\ ~Through
    /\ dcache' = Taken(Here) /\ test' = Compared(Here, Step)
    /\ UNCHANGED <<ram, fault, dcache_on>>

\* The next value, or the end of the test.
ReadDone ==
    /\ Testing("read") /\ Through
    /\ test' = IF test.k < Len(Targets(test.op))
               THEN [test EXCEPT !.i = 0, !.k = @ + 1, !.pass = "write"]
               ELSE [test EXCEPT !.i = 0, !.pass = "done"]
    /\ UNCHANGED <<ram, fault, dcache_on, dcache>>

-----------------------------------------------------------------------------
\* zero: eight longwords at a time, longwords, then the bytes that are left
\* from addr + (size & ~3).  Bytes are counted from addr: `cells' is the size,
\* `i' where p points, `k' the n of the code.
StartZero ==
    /\ \E bytes \in ZeroSizes :
           test' = [NoTest EXCEPT !.op = "zero", !.cells = bytes, !.k = bytes \div 4,
                                  !.pass = "write"]
    /\ UNCHANGED <<ram, fault, dcache_on, dcache>>

ZeroWords(n) ==
    test' = [test EXCEPT !.k = @ - n, !.i = @ + 4 * n,
                         !.zeroed = @ \cup test.i .. test.i + 4 * n - 1]
\* The mutant takes the unrolled loop one too far.
UnrolledMutant == 7
Unrolled == 8

Zero ==
    /\ test.op = "zero" /\ test.pass = "write"
    /\ IF test.k >= Unrolled THEN ZeroWords(8)
       ELSE IF test.k > 0 THEN ZeroWords(1)
       ELSE LET rest == 4 * (test.cells \div 4)
            IN test' = [test EXCEPT !.pass = "done",
                            !.zeroed = @ \cup rest .. test.cells - 1]
    /\ UNCHANGED <<ram, fault, dcache_on, dcache>>

-----------------------------------------------------------------------------
Command ==
    \/ Peek \/ Poke \/ StartZero
    \/ \E op \in {"mem8", "mem16", "mem32"} : StartTest(op)
CommandOf30 == Cache \/ Cinv \/ StartTest("dtest")

MemoryStep ==
    \/ test.op = "mem32" /\ WriteAndLook
    \/ test.op # "mem32" /\ WriteCell
    \/ AllWritten \/ RandomRead \/ RandomDone \/ ReadCell \/ ReadDone \/ Zero

MemoryTypeOK ==
    /\ ram \in [Cells -> Values] /\ dcache \in [Cells -> Values \cup {Invalid}]
    /\ test.pass \in {"write", "random", "read", "done", "panic"}
    /\ test.k \in Nat /\ test.errors \in 0 .. 1

\* The faults a test can see: mem16's values never tell the two lowest data
\* lines apart, and one value in all cells never tells addresses apart.
Tested(a) == a \in test.first .. test.first + test.cells - 1
Visible ==
    CASE fault.kind \in {"stuck_low", "stuck_high"} ->
           test.op \in {"mem8", "mem16"} /\ Tested(fault.at)
      [] fault.kind = "joined" -> test.op = "mem8" /\ test.cells # 0
      [] fault.kind = "alias" ->
           test.op \in {"mem32", "dtest"} /\ Tested(fault.at) /\ Tested(fault.to)
      [] OTHER -> FALSE

\* A memory test that is complete has reported the fault it is made for, if
\* the memory has it, and nothing of a sound memory; dtest whether or not the
\* caches were on, the others when the data cache is off: with it on they
\* compare what they wrote with the cache.
Verdict ==
    test.pass = "done" /\ test.op \notin {"none", "zero"} =>
        /\ Visible /\ (test.cached => test.op = "dtest") => test.errors # 0
        /\ fault = NoFault => test.errors = 0

\* While the data cache of the 68030 answers, it answers what is in memory:
\* entries that got old while it was off are cleared before it is on again
\* ("I+D caches enabled and cleared", bootloader.c:785).
CacheCurrent ==
    dcache_on /\ fault = NoFault =>
        \A a \in Cells : dcache[a] \in {Invalid, ram[a]}

\* zero clears the bytes it was given, not one less or more, for sizes that
\* are no multiple of four or of thirty-two.
ZeroExact ==
    test.op = "zero" /\ test.pass = "done" => test.zeroed = 0 .. test.cells - 1
=============================================================================
