--------------------------- MODULE InterruptsProof ---------------------------
(***************************************************************************)
(* The four properties of Interrupts: TicksCounted and BytesInOrder for    *)
(* every reload value of the timer, every size of the FIFO and of g_rx,    *)
(* and every length of the loops; HonestVerdict where a loop outlasts a    *)
(* tick, and TimeMeasured where a tick is not shorter than its handler.    *)
(***************************************************************************)
EXTENDS Interrupts, Integers, SequenceTheorems, TLAPS

TimerIsr == {"timer_isr", "timer_count"}

\* Where main runs with interrupts masked, and where its timer is off too.
MaskedAt == {"irqtest", "zero_1", "on_1", "masked", "unmask_1", "off_1", "freeze",
             "frozen", "flush", "on_2", "ier_on", "unmask_2",
             "sweep", "zero_s", "on_s", "unmask_s", "off_s", "ms"}
OffAt == {"irqtest", "zero_1", "freeze", "frozen", "flush", "sweep", "zero_s", "ms"}

Pcs == MaskedAt \cup TimerIsr \cup
       {"uart_isr", "uart_read", "uart_store", "rte", "first", "sleep", "mask_1", "loop",
        "ier_off", "off_2", "mask_2", "report", "done", "read", "mask_s", "swept"}

Typed ==
    /\ enable \in BOOLEAN /\ pending \in BOOLEAN /\ held \in BOOLEAN
    /\ freq \in 0 .. 3 /\ count \in Nat
    /\ level \in {0, 5, 6, 7} /\ frames \in Seq([pc : Pcs, level : {0, 5, 6, 7}])
    /\ pc \in Pcs /\ g_ticks \in Int /\ raised \in Int

\* The handler of the timer is not interrupted, and is entered for a tick.
HandlerAlone ==
    /\ pc \in TimerIsr => level = 6
    /\ pc = "timer_isr" => (pending <=> ~held)
    /\ \A i \in DOMAIN frames : frames[i].pc \notin TimerIsr \cup MaskedAt

MainMasks ==
    /\ pc \in MaskedAt => level = 7
    /\ pc \in OffAt => ~enable /\ ~pending

IInv == Typed /\ HandlerAlone /\ MainMasks /\ TicksCounted

-----------------------------------------------------------------------------
\* A clock of the timer in which nothing is written.
LEMMA QuietClock ==
    ASSUME Typed, Timer(NoWrite)
    PROVE  /\ enable' \in BOOLEAN /\ pending' \in BOOLEAN /\ freq' \in 0 .. 3
           /\ count' \in Nat /\ raised' \in Int
           /\ enable' = enable
           /\ pending => pending'
           /\ ~enable /\ ~pending => ~pending'
           /\ raised' = raised + (IF pending' /\ ~pending THEN 1 ELSE 0)
BY SMT DEF Typed, Timer, TimerClock, NoWrite, Withdrawn, Rollover

\* A step of main or of uart_isr that leaves ticks, timer and stack alone.
LEMMA OrdinaryStep ==
    ASSUME IInv, Timer(NoWrite),
           UNCHANGED <<frames, held, g_ticks>>,
           pc \notin TimerIsr, pc' \in Pcs \ TimerIsr,
           level' \in {0, 5, 6, 7},
           pc' \in MaskedAt => level' = 7,
           pc' \in OffAt => pc \in OffAt
    PROVE  IInv'
<1>0. /\ enable' = enable /\ (~enable /\ ~pending => ~pending')
      /\ pending \in BOOLEAN /\ enable \in BOOLEAN
  BY QuietClock DEF IInv, Typed
<1>1. Typed' BY QuietClock DEF IInv, Typed
<1>2. HandlerAlone' BY DEF IInv, HandlerAlone, TimerIsr
<1>3. MainMasks' BY <1>0 DEF IInv, MainMasks
<1>4. TicksCounted'
  <2>1. ~InIsr /\ ~InIsr' BY DEF InIsr, TimerIsr
  <2>2. raised = g_ticks + (IF pending THEN 1 ELSE 0) BY <2>1 DEF IInv, TicksCounted, Typed
  <2> QED BY <2>1, <2>2, QuietClock DEF IInv, TicksCounted, Typed
<1> QED BY <1>1, <1>2, <1>3, <1>4 DEF IInv


-----------------------------------------------------------------------------
\* The steps of main, by their kinds.
LEMMA MaskStep ==
    ASSUME IInv, NEW p \in Pcs \ TimerIsr, NEW next \in Pcs \ TimerIsr,
           NEW mask \in {Open, Masked}, SetInterrupts(p, mask, next),
           next \in MaskedAt => mask = Masked, next \in OffAt => p \in OffAt
    PROVE  IInv'
<1>1. /\ Timer(NoWrite) /\ UNCHANGED <<frames, held, g_ticks>>
      /\ pc = p /\ pc' = next /\ level' = mask
  BY DEF SetInterrupts, Runs, To, Inside
<1>2. level' \in {0, 5, 6, 7} /\ (pc' \in MaskedAt => level' = 7)
  BY <1>1 DEF Open, Masked
<1> QED BY <1>1, <1>2, OrdinaryStep

LEMMA LevelKept ==
    ASSUME IInv, NEW p \in Pcs \ TimerIsr, NEW next \in Pcs \ TimerIsr,
           Timer(NoWrite), pc = p, pc' = next, UNCHANGED <<frames, held, g_ticks, level>>,
           next \in MaskedAt => p \in MaskedAt, next \in OffAt => p \in OffAt
    PROVE  IInv'
<1>1. level' \in {0, 5, 6, 7} /\ (pc' \in MaskedAt => level' = 7)
  BY DEF IInv, Typed, MainMasks
<1> QED BY <1>1, OrdinaryStep

LEMMA TurnsStep ==
    ASSUME IInv, NEW p \in Pcs \ TimerIsr, Turns(p)
    PROVE  IInv'
BY LevelKept DEF Turns, Runs, To, Inside

LEMMA NoteStep ==
    ASSUME IInv, NEW p \in Pcs \ TimerIsr, NEW next \in Pcs \ TimerIsr,
           NEW noted, Note(p, noted, next),
           next \in MaskedAt => p \in MaskedAt, next \in OffAt => p \in OffAt
    PROVE  IInv'
BY LevelKept DEF Note, Runs, To, Inside

LEMMA IerStep ==
    ASSUME IInv, NEW p \in Pcs \ TimerIsr, NEW next \in Pcs \ TimerIsr,
           NEW on, SwitchIer(p, on, next),
           next \in MaskedAt => p \in MaskedAt, next \in OffAt => p \in OffAt
    PROVE  IInv'
BY LevelKept DEF SwitchIer, Runs, To, Inside

\* g_ticks is zeroed while the timer is off.
LEMMA ZeroStep ==
    ASSUME IInv, NEW p \in OffAt, NEW next \in MaskedAt \ OffAt,
           pc = p, pc' = next, UNCHANGED <<frames, held, level>>,
           g_ticks' = 0, raised' = 0, TimerClock(NoWrite)
    PROVE  IInv'
<1>0. p \in MaskedAt /\ p \notin TimerIsr /\ next \in Pcs /\ next \notin TimerIsr
  <2>0. p \in MaskedAt BY DEF OffAt, MaskedAt
  <2>1. p \notin TimerIsr BY DEF OffAt, TimerIsr
  <2>2. next \in Pcs BY DEF Pcs
  <2>3. next \notin TimerIsr BY DEF MaskedAt, TimerIsr
  <2> QED BY <2>0, <2>1, <2>2, <2>3
<1>1. ~enable /\ ~pending /\ level = 7 BY <1>0 DEF IInv, MainMasks
<1>2. ~pending' /\ pending' \in BOOLEAN /\ enable' = enable /\ count' \in Nat /\ freq' = freq
  BY <1>1 DEF TimerClock, NoWrite, Withdrawn, Rollover, IInv, Typed
<1>3. Typed' BY <1>0, <1>2 DEF IInv, Typed
<1>4. HandlerAlone' BY <1>0 DEF IInv, HandlerAlone, TimerIsr
<1>5. MainMasks' BY <1>1 DEF IInv, MainMasks
<1>6. ~InIsr' BY <1>0 DEF InIsr, TimerIsr
<1>7. TicksCounted' BY <1>2, <1>6 DEF TicksCounted
<1> QED BY <1>3, <1>4, <1>5, <1>7 DEF IInv

\* Main switches the timer on, with interrupts masked, or off.
LEMMA CtrlStep ==
    ASSUME IInv, NEW p \in Pcs \ (TimerIsr \cup OffAt), NEW next \in Pcs \ TimerIsr,
           NEW on \in BOOLEAN, WriteTimer(p, Ctrl(on), next),
           next \in MaskedAt => p \in MaskedAt, next \in OffAt => ~on
    PROVE  IInv'
<1>1. /\ Timer(Ctrl(on)) /\ UNCHANGED <<frames, g_ticks, level>>
      /\ pc = p /\ pc' \in {p, next} /\ held' \in BOOLEAN
  BY DEF WriteTimer, Runs
<1>2. /\ enable' \in BOOLEAN /\ pending' \in BOOLEAN /\ freq' \in 0 .. 3
      /\ count' \in Nat /\ raised' \in Int
      /\ ~on => ~enable' /\ ~pending'
      /\ raised' = raised + (IF pending' /\ ~pending THEN 1 ELSE 0)
                          - (IF pending /\ ~pending' THEN 1 ELSE 0)
  BY <1>1, SMT DEF Timer, TimerClock, Ctrl, Withdrawn, Rollover, IInv, Typed
<1>3. Typed' BY <1>1, <1>2 DEF IInv, Typed
<1>4. HandlerAlone' BY <1>1 DEF IInv, HandlerAlone, TimerIsr
<1>5. MainMasks' BY <1>1, <1>2 DEF IInv, MainMasks
<1>6. TicksCounted'
  <2>1. ~InIsr /\ ~InIsr' BY <1>1 DEF InIsr, TimerIsr
  <2>2. raised = g_ticks + (IF pending THEN 1 ELSE 0) BY <2>1 DEF IInv, TicksCounted, Typed
  <2> QED BY <1>1, <1>2, <2>1, <2>2 DEF IInv, TicksCounted, Typed
<1> QED BY <1>3, <1>4, <1>5, <1>6 DEF IInv

-----------------------------------------------------------------------------
\* The handler of the timer, and what comes before and after a handler.
LEMMA AcknowledgeStep == ASSUME IInv, Acknowledge PROVE IInv'
<1>1. /\ Timer(Ack) /\ UNCHANGED <<frames, g_ticks, level>>
      /\ pc = "timer_isr"
      /\ \/ ~held /\ held' = TRUE /\ pc' = "timer_isr"
         \/ held' = FALSE /\ pc' = "timer_count"
  BY DEF Acknowledge, WriteTimer, Runs
<1>2. /\ enable' \in BOOLEAN /\ pending' = FALSE /\ freq' \in 0 .. 3
      /\ count' \in Nat /\ raised' = raised
  <2>1. Ack.reg = "status" BY DEF Ack, NoWrite
  <2>2. pending' = FALSE BY <1>1, <2>1 DEF Timer, TimerClock, Withdrawn
  <2>3. raised' = raised BY <1>1, <2>1, <2>2 DEF Timer
  <2>4. enable' = enable /\ freq' = freq BY <1>1, <2>1 DEF Timer, TimerClock
  <2>5. count' \in Nat BY <1>1, <2>1 DEF Timer, TimerClock, IInv, Typed
  <2> QED BY <2>2, <2>3, <2>4, <2>5 DEF IInv, Typed
<1>0. /\ held' \in BOOLEAN /\ pc' \in Pcs /\ pc' \in TimerIsr
      /\ pc' = "timer_isr" => (pending' <=> ~held')
  <2>1. CASE held' = TRUE /\ pc' = "timer_isr" BY <1>2, <2>1 DEF TimerIsr, Pcs
  <2>2. CASE held' = FALSE /\ pc' = "timer_count" BY <1>2, <2>2 DEF TimerIsr, Pcs
  <2> QED BY <1>1, <2>1, <2>2
<1>3. Typed' BY <1>0, <1>1, <1>2 DEF IInv, Typed
<1>4. HandlerAlone'
  <2>1. level = 6 /\ level' = level /\ frames' = frames BY <1>1 DEF IInv, HandlerAlone, TimerIsr
  <2> QED BY <1>0, <2>1 DEF IInv, HandlerAlone
<1>5. MainMasks' BY <1>1 DEF MaskedAt, OffAt, MainMasks
<1>6. TicksCounted'
  <2>1. InIsr' BY <1>1 DEF InIsr
  <2>2. raised = g_ticks + 1
    <3>1. InIsr <=> held BY <1>1 DEF InIsr
    <3>2. pending <=> ~held BY <1>1 DEF IInv, HandlerAlone
    <3>3. held \in BOOLEAN /\ pending \in BOOLEAN /\ g_ticks \in Int BY DEF IInv, Typed
    <3>4. raised = g_ticks + (IF pending THEN 1 ELSE 0) + (IF InIsr THEN 1 ELSE 0)
      BY DEF IInv, TicksCounted
    <3> QED BY <3>1, <3>2, <3>3, <3>4
  <2> QED BY <1>1, <1>2, <2>1, <2>2 DEF TicksCounted, IInv, Typed
<1> QED BY <1>3, <1>4, <1>5, <1>6 DEF IInv


LEMMA CountStep == ASSUME IInv, Count PROVE IInv'
<1>1. /\ Timer(NoWrite) /\ UNCHANGED <<frames, held, level>>
      /\ pc = "timer_count" /\ pc' = "rte" /\ g_ticks' = g_ticks + 1
  BY DEF Count, Runs, To, Inside
<1>2. level = 6 BY <1>1 DEF IInv, HandlerAlone, TimerIsr
<1>3. Typed' BY <1>1, QuietClock DEF IInv, Typed, Pcs
<1>4. HandlerAlone' BY <1>1 DEF IInv, HandlerAlone, TimerIsr
<1>5. MainMasks' BY <1>1 DEF MaskedAt, OffAt, MainMasks
<1>6. InIsr /\ ~InIsr' BY <1>1 DEF InIsr
<1>7. raised = g_ticks + (IF pending THEN 1 ELSE 0) + 1
  BY <1>6 DEF IInv, TicksCounted
<1>8. TicksCounted'
  BY <1>1, <1>6, <1>7, QuietClock DEF IInv, TicksCounted, Typed
<1> QED BY <1>3, <1>4, <1>5, <1>8 DEF IInv

LEMMA InterruptStep == ASSUME IInv, Interrupt PROVE IInv'
<1> DEFINE frame == [pc |-> pc, level |-> level]
<1>1. /\ Timer(NoWrite) /\ UNCHANGED <<held, g_ticks>> /\ ~held
      /\ Ipl > level /\ level' = Ipl /\ frames' = Append(frames, frame)
      /\ pc' = IF Ipl = TimerLevel THEN "timer_isr" ELSE "uart_isr"
  BY DEF Interrupt, Inside
<1>2. Ipl \in {0, 5, 6} /\ (Ipl = 6 => pending) BY DEF Ipl, TimerLevel, UartLevel
<1>3. level < 6 /\ level \in {0, 5, 6, 7} BY <1>1, <1>2 DEF IInv, Typed
<1>4. pc \notin TimerIsr \cup MaskedAt BY <1>3 DEF IInv, HandlerAlone, MainMasks
<1>5. (pc' = "timer_isr" /\ Ipl = 6) \/ pc' = "uart_isr" BY <1>1 DEF TimerLevel
<1>6. frame \in [pc : Pcs, level : {0, 5, 6, 7}] BY DEF IInv, Typed
<1>7. /\ frames' \in Seq([pc : Pcs, level : {0, 5, 6, 7}])
      /\ \A i \in DOMAIN frames' :
             \/ i \in DOMAIN frames /\ frames'[i] = frames[i]
             \/ frames'[i] = frame
  BY <1>1, <1>6, AppendProperties DEF IInv, Typed
<1>8. Typed'
  <2>1. pc' \in Pcs BY <1>5 DEF Pcs, TimerIsr
  <2> QED BY <1>1, <1>2, <1>7, <2>1, QuietClock DEF IInv, Typed
<1>9. HandlerAlone'
  <2>1. pc' \in TimerIsr => level' = 6 BY <1>1, <1>5 DEF TimerIsr
  <2>2. pc' = "timer_isr" => (pending' <=> ~held')
    BY <1>1, <1>2, <1>5, QuietClock DEF IInv, Typed
  <2>3. \A i \in DOMAIN frames' : frames'[i].pc \notin TimerIsr \cup MaskedAt
    <3> SUFFICES ASSUME NEW i \in DOMAIN frames'
                 PROVE  frames'[i].pc \notin TimerIsr \cup MaskedAt OBVIOUS
    <3>1. CASE i \in DOMAIN frames /\ frames'[i] = frames[i] BY <3>1 DEF IInv, HandlerAlone
    <3>2. CASE frames'[i] = frame BY <1>4, <3>2
    <3> QED BY <1>7, <3>1, <3>2
  <2> QED BY <2>1, <2>2, <2>3 DEF HandlerAlone
<1>10. MainMasks' BY <1>5 DEF MaskedAt, OffAt, MainMasks
<1>11. TicksCounted'
  <2>1. ~InIsr BY <1>4 DEF InIsr, TimerIsr
  <2>2. ~InIsr' BY <1>1, <1>5 DEF InIsr
  <2>3. raised = g_ticks + (IF pending THEN 1 ELSE 0)
    BY <2>1 DEF IInv, TicksCounted, Typed
  <2> QED BY <1>1, <2>2, <2>3, QuietClock DEF IInv, TicksCounted, Typed
<1> QED BY <1>8, <1>9, <1>10, <1>11 DEF IInv

LEMMA RteStep == ASSUME IInv, Rte PROVE IInv'
<1> DEFINE n == Len(frames)
           Frame == [pc : Pcs, level : {0, 5, 6, 7}]
<1>1. /\ Timer(NoWrite) /\ UNCHANGED <<held, g_ticks>> /\ frames # <<>>
      /\ pc = "rte" /\ pc' = frames[n].pc /\ level' = frames[n].level
      /\ frames' = SubSeq(frames, 1, n - 1)
  BY DEF Rte, Runs, Inside
<1>2. frames \in Seq(Frame) BY DEF IInv, Typed
<1> HIDE DEF Frame
<1>3. n \in Nat \ {0} /\ DOMAIN frames = 1 .. n
  <2>1. n \in Nat /\ DOMAIN frames = 1 .. n BY <1>2, LenProperties, Zenon
  <2>2. \A seq \in Seq(Frame) : seq # <<>> => Len(seq) \in Nat \ {0} BY EmptySeq, Zenon
  <2> QED BY <1>1, <1>2, <2>1, <2>2, Zenon
<1>4. \A i \in 1 .. n : frames[i] \in Frame BY <1>2, ElementOfSeq, Zenon
<1>5. frames' \in Seq(Frame) /\ \A i \in DOMAIN frames' : i \in DOMAIN frames /\ frames'[i] = frames[i]
  <2> HIDE DEF n
  <2>1. n - 1 \in Int /\ 1 \in Int /\ \A i \in 1 .. n - 1 : frames[i] \in Frame BY <1>3, <1>4
  <2>2. /\ frames' \in Seq(Frame)
        /\ Len(frames') = IF 1 <= n - 1 THEN (n - 1) - 1 + 1 ELSE 0
        /\ \A i \in 1 .. (n - 1) - 1 + 1 : frames'[i] = frames[1 + i - 1]
    <3>1. ASSUME NEW m \in Int, \A i \in 1 .. m : frames[i] \in Frame,
                 frames' = SubSeq(frames, 1, m)
          PROVE  /\ frames' \in Seq(Frame)
                 /\ Len(frames') = IF 1 <= m THEN m - 1 + 1 ELSE 0
                 /\ \A i \in 1 .. m - 1 + 1 : frames'[i] = frames[1 + i - 1]
      BY <3>1, <2>1, SubSeqProperties
    <3> QED BY <1>1, <2>1, <3>1
  <2>3. Len(frames') = n - 1 BY <1>3, <2>2
  <2>4. DOMAIN frames' = 1 .. n - 1 BY <2>2, <2>3, LenProperties
  <2>5. \A i \in 1 .. n - 1 : i \in 1 .. n /\ frames'[i] = frames[i]
    <3>1. \A i \in 1 .. n - 1 : i \in 1 .. n /\ i \in 1 .. (n - 1) - 1 + 1 /\ 1 + i - 1 = i BY <1>3
    <3> QED BY <2>2, <3>1, Zenon
  <2> QED BY <1>3, <2>2, <2>4, <2>5, Zenon
<1>6. frames[n] \in Frame /\ frames[n].pc \notin TimerIsr \cup MaskedAt
  <2>1. n \in 1 .. n BY <1>3
  <2> QED BY <1>3, <1>4, <2>1, Zenon DEF IInv, HandlerAlone
<1> USE DEF Frame
<1>7. pc' \in Pcs /\ level' \in {0, 5, 6, 7} /\ pc' \notin TimerIsr \cup MaskedAt
  BY <1>1, <1>6
<1>8. Typed' BY <1>1, <1>5, <1>7, QuietClock DEF IInv, Typed
<1>9. HandlerAlone' BY <1>5, <1>7 DEF IInv, HandlerAlone, TimerIsr
<1>10. MainMasks' BY <1>7 DEF MaskedAt, OffAt, MainMasks
<1>11. TicksCounted'
  <2>1. ~InIsr /\ ~InIsr' BY <1>1, <1>7 DEF InIsr, TimerIsr
  <2>2. raised = g_ticks + (IF pending THEN 1 ELSE 0)
    BY <2>1 DEF IInv, TicksCounted, Typed
  <2> QED BY <1>1, <2>1, <2>2, QuietClock DEF IInv, TicksCounted, Typed
<1> QED BY <1>8, <1>9, <1>10, <1>11 DEF IInv

-----------------------------------------------------------------------------
LEMMA HandlerSteps == ASSUME IInv, Handlers PROVE IInv'
<1>1. CASE Poll
  <2>1. Timer(NoWrite) /\ UNCHANGED <<frames, held, g_ticks, level>> BY <1>1 DEF Poll, Inside, To
  <2>2. pc = "uart_isr" /\ pc' \in {"uart_read", "rte"} BY <1>1 DEF Poll, Runs, To
  <2> QED BY <2>1, <2>2, LevelKept DEF Pcs, TimerIsr, MaskedAt, OffAt
<1>2. CASE ReadByte
  <2>1. Timer(NoWrite) /\ UNCHANGED <<frames, held, g_ticks, level>> BY <1>2 DEF ReadByte, To
  <2>2. pc = "uart_read" /\ pc' = "uart_store" BY <1>2 DEF ReadByte, Runs, To
  <2> QED BY <2>1, <2>2, LevelKept DEF Pcs, TimerIsr, MaskedAt, OffAt
<1>3. CASE StoreByte
  <2>1. Timer(NoWrite) /\ UNCHANGED <<frames, held, g_ticks, level>> BY <1>3 DEF StoreByte, Inside, To
  <2>2. pc = "uart_store" /\ pc' = "uart_isr" BY <1>3 DEF StoreByte, Runs, To
  <2> QED BY <2>1, <2>2, LevelKept DEF Pcs, TimerIsr, MaskedAt, OffAt
<1> QED BY <1>1, <1>2, <1>3, AcknowledgeStep, CountStep, RteStep DEF Handlers

LEMMA TimerTestSteps == ASSUME IInv, TimerTest PROVE IInv'
<1> USE DEF Pcs, TimerIsr, MaskedAt, OffAt
<1>1. CASE SetInterrupts("irqtest", Masked, "zero_1") BY <1>1, MaskStep
<1>2. CASE ZeroTicks("zero_1", "on_1") BY <1>2, ZeroStep DEF ZeroTicks, Runs, To
<1>3. CASE WriteTimer("on_1", Ctrl(TRUE), "masked") BY <1>3, CtrlStep
<1>4. CASE Turns("masked") \/ Turns("sleep") \/ Turns("frozen") BY <1>4, TurnsStep
<1>5. CASE Over("masked", [main EXCEPT !.seen = pending], "unmask_1")
  BY <1>5, NoteStep DEF Over
<1>6. CASE SetInterrupts("unmask_1", Open, "first") BY <1>6, MaskStep
<1>7. CASE Note("first", [main EXCEPT !.prev = g_ticks], "sleep") BY <1>7, NoteStep
<1>8. CASE Over("sleep", Sleeping, IF main.round < 2 THEN "sleep" ELSE "mask_1")
  <2>1. \E next \in {"sleep", "mask_1"} : Note("sleep", Sleeping, next) BY <1>8 DEF Over
  <2> QED BY <2>1, NoteStep
<1>9. CASE SetInterrupts("mask_1", Masked, "off_1") BY <1>9, MaskStep
<1>10. CASE WriteTimer("off_1", Ctrl(FALSE), "freeze") BY <1>10, CtrlStep
<1>11. CASE Note("freeze", [main EXCEPT !.prev = g_ticks], "frozen") BY <1>11, NoteStep
<1>12. CASE Over("frozen", [main EXCEPT !.passed =
                main.seen /\ main.climbing /\ g_ticks = main.prev /\ g_ticks > 0], "flush")
  BY <1>12, NoteStep DEF Over
<1> QED
  BY <1>1, <1>2, <1>3, <1>4, <1>5, <1>6, <1>7, <1>8, <1>9, <1>10, <1>11, <1>12
  DEF TimerTest

LEMMA UartTestSteps == ASSUME IInv, UartTest PROVE IInv'
<1> USE DEF Pcs, TimerIsr, MaskedAt, OffAt
<1>1. CASE Flush BY <1>1, LevelKept DEF Flush, Runs, To
<1>2. CASE Flushed BY <1>2, ZeroStep DEF Flushed, Runs, To
<1>3. CASE WriteTimer("on_2", Ctrl(TRUE), "ier_on") BY <1>3, CtrlStep
<1>4. CASE SwitchIer("ier_on", TRUE, "unmask_2") BY <1>4, IerStep
<1>5. CASE SetInterrupts("unmask_2", Open, "loop") BY <1>5, MaskStep
<1>6. CASE Guard BY <1>6, LevelKept DEF Guard, Runs, To, Inside
<1>7. CASE GuardOver BY <1>7, LevelKept DEF GuardOver, Runs, To, Inside
<1>8. CASE SwitchIer("ier_off", FALSE, "off_2") BY <1>8, IerStep
<1>9. CASE WriteTimer("off_2", Ctrl(FALSE), "mask_2") BY <1>9, CtrlStep
<1>10. CASE SetInterrupts("mask_2", Masked, "report") BY <1>10, MaskStep
<1>11. CASE Report BY <1>11, LevelKept DEF Report, Runs, To, Inside
<1> QED
  BY <1>1, <1>2, <1>3, <1>4, <1>5, <1>6, <1>7, <1>8, <1>9, <1>10, <1>11 DEF UartTest

LEMMA SweepSteps == ASSUME IInv, Sweep PROVE IInv'
<1> USE DEF Pcs, TimerIsr, MaskedAt, OffAt
<1>1. CASE SetInterrupts("sweep", Masked, "zero_s") BY <1>1, MaskStep
<1>2. CASE ZeroTicks("zero_s", "on_s") BY <1>2, ZeroStep DEF ZeroTicks, Runs, To
<1>3. CASE WriteTimer("on_s", Ctrl(TRUE), "unmask_s") BY <1>3, CtrlStep
<1>4. CASE SetInterrupts("unmask_s", Open, "read") BY <1>4, MaskStep
<1>5. CASE Turns("read") BY <1>5, TurnsStep
<1>6. CASE Over("read", main, "mask_s") BY <1>6, NoteStep DEF Over
<1>7. CASE SetInterrupts("mask_s", Masked, "off_s") BY <1>7, MaskStep
<1>8. CASE WriteTimer("off_s", Ctrl(FALSE), "ms") BY <1>8, CtrlStep
<1>9. CASE Note("ms", [main EXCEPT !.round = @ + 1],
                IF main.round < 2 THEN "sweep" ELSE "swept")
  <2>1. \E next \in {"sweep", "swept"} : Note("ms", [main EXCEPT !.round = @ + 1], next)
    BY <1>9
  <2> QED BY <2>1, NoteStep
<1> QED BY <1>1, <1>2, <1>3, <1>4, <1>5, <1>6, <1>7, <1>8, <1>9 DEF Sweep

-----------------------------------------------------------------------------
LEMMA InitEstablishes == Init => IInv
<1> SUFFICES ASSUME Init PROVE IInv OBVIOUS
<1>1. pc \in Pcs /\ pc \notin TimerIsr /\ frames = <<>> /\ level = 7
  BY DEF Init, Pcs, TimerIsr, MaskedAt, Masked
<1>2. Typed
  <2>1. frames \in Seq([pc : Pcs, level : {0, 5, 6, 7}]) BY <1>1, EmptySeq, Zenon
  <2>2. enable = FALSE /\ pending = FALSE /\ held = FALSE /\ freq = 3 /\ count = 0
        /\ g_ticks = 0 /\ raised = 0
    BY DEF Init, TimerInit
  <2>4. enable \in BOOLEAN /\ pending \in BOOLEAN /\ held \in BOOLEAN BY <2>2, Zenon
  <2>5. freq = 3 /\ count = 0 /\ g_ticks = 0 /\ raised = 0 BY <2>2, Zenon
  <2>6. freq \in 0 .. 3 /\ count \in Nat /\ g_ticks \in Int /\ raised \in Int BY <2>5
  <2>3. pc \in Pcs /\ level \in {0, 5, 6, 7} BY <1>1
  <2> QED BY <2>1, <2>3, <2>4, <2>6, Zenon DEF Typed
<1>3. HandlerAlone
  <2>1. DOMAIN frames = {} BY <1>1
  <2> QED BY <1>1, <2>1 DEF HandlerAlone, TimerIsr
<1>4. MainMasks BY <1>1 DEF Init, TimerInit, MainMasks
<1>5. TicksCounted BY <1>1 DEF Init, TimerInit, TicksCounted, InIsr, TimerIsr
<1> QED BY <1>2, <1>3, <1>4, <1>5 DEF IInv

LEMMA StepKeeps == IInv /\ [Next]_vars => IInv'
<1> SUFFICES ASSUME IInv, [Next]_vars PROVE IInv' OBVIOUS
<1>1. CASE UNCHANGED vars
  <2>1. UNCHANGED <<enable, freq, count, pending, pc, level, frames, held, g_ticks, raised>>
    BY <1>1 DEF vars, timerVars, cpuVars
  <2> QED BY <2>1 DEF IInv, Typed, HandlerAlone, MainMasks, TicksCounted, InIsr
<1> QED
  BY <1>1, InterruptStep, HandlerSteps, TimerTestSteps, UartTestSteps, SweepSteps DEF Next

\* The timer's handler is entered for a tick only, is never interrupted, and
\* counts it once: with any reload value, also one shorter than the handler,
\* in irqtest and in sdread the count is that of the ticks that were raised.
THEOREM TicksAreCounted == Spec => []TicksCounted
<1>1. IInv => TicksCounted BY DEF IInv
<1> QED BY <1>1, InitEstablishes, StepKeeps, PTL DEF Spec

-----------------------------------------------------------------------------
(* The receiver: the inductive invariant of BytesInOrder.                  *)

UartIsr == {"uart_isr", "uart_read", "uart_store", "rte"}
MainPcs == Pcs \ (TimerIsr \cup UartIsr)
Frame == [pc : Pcs, level : {0, 5, 6, 7}]
Bytes == {Enter, Other}

\* Main is at the bottom of the stack, and on it at most the two handlers:
\* the timer's may have interrupted the receiver's, not the other way round.
Stack ==
    /\ frames \in Seq(Frame) /\ Len(frames) \in 0 .. 2
    /\ Len(frames) = 0 => pc \in MainPcs /\ level \in {0, 7}
    /\ Len(frames) >= 1 => frames[1].pc \in MainPcs /\ frames[1].level = 0
    /\ Len(frames) = 1 => \/ pc \in UartIsr /\ level = 5
                          \/ pc \in TimerIsr \cup {"rte"} /\ level = 6
    /\ Len(frames) = 2 => /\ frames[2].pc \in UartIsr /\ frames[2].level = 5
                          /\ pc \in TimerIsr \cup {"rte"} /\ level = 6

\* Where main is, and whether the handler of the receiver is at p.
MainPc == IF Len(frames) = 0 THEN pc ELSE frames[1].pc
UartAt(p) == pc = p \/ (Len(frames) = 2 /\ frames[2].pc = p)

\* Main has emptied the FIFO and g_rx; and has opened the receiver.
Emptied == {"on_2", "ier_on", "unmask_2", "loop", "ier_off", "off_2", "mask_2", "report", "done"}
Opened == {"unmask_2", "loop", "ier_off"}

RxTyped ==
    /\ fifo \in Seq(Bytes) /\ arrived \in Seq(Bytes) /\ g_rx \in Seq(Bytes)
    /\ b \in Bytes /\ g_rx_count \in Nat /\ rda \in BOOLEAN

\* What has left the FIFO: stored, or on its way.
Gone == g_rx_count + (IF UartAt("uart_store") THEN 1 ELSE 0)

InOrder ==
    /\ Len(g_rx) = Min2(g_rx_count, RxSize)
    /\ \A i \in 1 .. Len(g_rx) : g_rx[i] = arrived[i]
    /\ Len(arrived) = Gone + Len(fifo)
    /\ \A i \in 1 .. Len(fifo) : fifo[i] = arrived[Gone + i]
    /\ UartAt("uart_store") => b = arrived[Gone]

RxInv ==
    /\ Stack /\ RxTyped
    /\ UartAt("uart_read") => fifo # <<>>
    /\ rda => MainPc \in Opened
    /\ MainPc \in Emptied => InOrder

\* The program counters of main, of the timer's handler and of the receiver's.
LEMMA Places ==
    /\ MainPcs \subseteq Pcs /\ TimerIsr \subseteq Pcs /\ UartIsr \subseteq Pcs
    /\ MainPcs \cap TimerIsr = {} /\ MainPcs \cap UartIsr = {} /\ TimerIsr \cap UartIsr = {}
    /\ Opened \subseteq Emptied /\ Emptied \subseteq MainPcs
BY DEF Pcs, MainPcs, TimerIsr, UartIsr, MaskedAt, Opened, Emptied

LEMMA Seqs ==
    ASSUME NEW t \in Seq(Bytes)
    PROVE  /\ Len(t) \in Nat /\ DOMAIN t = 1 .. Len(t)
           /\ \A i \in 1 .. Len(t) : t[i] \in Bytes
           /\ t = <<>> <=> Len(t) = 0
BY LenProperties, ElementOfSeq, EmptySeq

LEMMA Appended ==
    ASSUME NEW t \in Seq(Bytes), NEW x \in Bytes
    PROVE  /\ Append(t, x) \in Seq(Bytes) /\ Len(Append(t, x)) = Len(t) + 1
           /\ \A i \in 1 .. Len(t) : Append(t, x)[i] = t[i]
           /\ Append(t, x)[Len(t) + 1] = x
BY AppendProperties, Seqs

\* A clock of the line: what it brings comes behind what is there.
LEMMA LineStep ==
    ASSUME NEW left \in Seq(Bytes), NEW taken \in Seq(Bytes), Line(left, taken)
    PROVE  /\ fifo' \in Seq(Bytes) /\ arrived' \in Seq(Bytes)
           /\ left # <<>> => fifo' # <<>>
           /\ \/ fifo' = left /\ arrived' = taken
              \/ \E x \in Bytes : fifo' = Append(left, x) /\ arrived' = Append(taken, x)
<1>1. CASE fifo' = left /\ arrived' = taken BY <1>1
<1>2. CASE \E x \in Bytes : fifo' = Append(left, x) /\ arrived' = Append(taken, x)
  <2>1. PICK x \in Bytes : fifo' = Append(left, x) /\ arrived' = Append(taken, x) BY <1>2
  <2>2. fifo' \in Seq(Bytes) /\ arrived' \in Seq(Bytes) /\ Len(fifo') = Len(left) + 1
    BY <2>1, Appended
  <2>3. fifo' # <<>> BY <2>2, Seqs
  <2> QED BY <2>1, <2>2, <2>3
<1> QED BY <1>1, <1>2 DEF Line, Bytes

LEMMA LineOrder ==
    ASSUME NEW left \in Seq(Bytes), NEW taken \in Seq(Bytes), Line(left, taken),
           NEW gone \in Nat, Len(taken) = gone + Len(left),
           \A i \in 1 .. Len(left) : left[i] = taken[gone + i]
    PROVE  /\ Len(arrived') = gone + Len(fifo')
           /\ \A i \in 1 .. Len(fifo') : fifo'[i] = arrived'[gone + i]
           /\ \A i \in 1 .. Len(taken) : arrived'[i] = taken[i]
<1>1. CASE fifo' = left /\ arrived' = taken BY <1>1
<1>2. CASE \E x \in Bytes : fifo' = Append(left, x) /\ arrived' = Append(taken, x)
  <2>1. PICK x \in Bytes : fifo' = Append(left, x) /\ arrived' = Append(taken, x) BY <1>2
  <2>2. /\ Len(fifo') = Len(left) + 1 /\ Len(arrived') = Len(taken) + 1
        /\ \A i \in 1 .. Len(left) : fifo'[i] = left[i]
        /\ \A i \in 1 .. Len(taken) : arrived'[i] = taken[i]
        /\ fifo'[Len(left) + 1] = x /\ arrived'[Len(taken) + 1] = x
    BY <2>1, Appended
  <2>3. Len(left) \in Nat /\ Len(taken) \in Nat BY Seqs
  <2>4. ASSUME NEW i \in 1 .. Len(fifo') PROVE fifo'[i] = arrived'[gone + i]
    <3>1. CASE i \in 1 .. Len(left)
      <4>1. gone + i \in 1 .. Len(taken) BY <2>3, <3>1
      <4> QED BY <2>2, <3>1, <4>1
    <3>2. CASE i = Len(left) + 1
      <4>1. gone + i = Len(taken) + 1 BY <2>3, <3>2
      <4> QED BY <2>2, <3>2, <4>1
    <3> QED BY <2>2, <2>3, <3>1, <3>2
  <2> QED BY <2>2, <2>3, <2>4
<1> QED BY <1>1, <1>2, LineStep

\* A step that only lets a byte come.
LEMMA OrderKept ==
    ASSUME RxTyped, Typing, UNCHANGED rxVars,
           UartAt("uart_store")' <=> UartAt("uart_store"), InOrder
    PROVE  InOrder'
<1>1. Gone' = Gone /\ Gone \in Nat BY DEF rxVars, Gone, RxTyped
<1>2. /\ Len(arrived') = Gone + Len(fifo')
      /\ \A i \in 1 .. Len(fifo') : fifo'[i] = arrived'[Gone + i]
      /\ \A i \in 1 .. Len(arrived) : arrived'[i] = arrived[i]
  BY <1>1, LineOrder DEF Typing, RxTyped, InOrder
<1>3. Len(arrived) \in Nat /\ Len(fifo) \in Nat /\ Len(g_rx) \in Nat BY Seqs DEF RxTyped
<1>4. Len(g_rx) <= Len(arrived)
  BY <1>1, <1>3, InterruptsAssumption DEF InOrder, Gone, Min2, RxTyped
<1>5. \A i \in 1 .. Len(g_rx') : g_rx'[i] = arrived'[i]
  BY <1>2, <1>3, <1>4 DEF InOrder, rxVars
<1>6. UartAt("uart_store")' => b' = arrived'[Gone']
  <2>1. SUFFICES ASSUME UartAt("uart_store") PROVE b = arrived'[Gone]
    BY <1>1 DEF rxVars
  <2>2. Gone \in 1 .. Len(arrived) BY <1>1, <1>3, <2>1 DEF Gone, InOrder, RxTyped
  <2> QED BY <1>2, <2>1, <2>2 DEF InOrder
<1> QED BY <1>1, <1>2, <1>5, <1>6 DEF InOrder, rxVars

\* Types, and that the FIFO is not found empty, for the same steps.
LEMMA TypingKept ==
    ASSUME RxTyped, Typing, UNCHANGED rxVars, rda' \in BOOLEAN
    PROVE  RxTyped' /\ (fifo # <<>> => fifo' # <<>>)
BY LineStep DEF Typing, RxTyped, rxVars

-----------------------------------------------------------------------------
(* Main.                                                                   *)

LEMMA AtMain ==
    ASSUME RxInv, pc \in MainPcs
    PROVE  /\ Len(frames) = 0 /\ MainPc = pc /\ level \in {0, 7}
           /\ ~UartAt("uart_store") /\ ~UartAt("uart_read")
<1>1. Len(frames) = 0
  <2>1. pc \notin TimerIsr /\ pc \notin UartIsr BY Places
  <2> QED BY <2>1 DEF RxInv, Stack, UartIsr
<1> QED BY <1>1 DEF RxInv, Stack, MainPc, UartAt, MainPcs, UartIsr

LEMMA MainStep ==
    ASSUME RxInv, pc \in MainPcs, pc' \in MainPcs, UNCHANGED <<frames, rxVars>>,
           Typing, level' \in {0, 7}, rda' \in BOOLEAN, rda' => pc' \in Opened,
           pc' \in Emptied => pc \in Emptied
    PROVE  RxInv'
<1>1. /\ Len(frames) = 0 /\ Len(frames') = 0 /\ MainPc = pc /\ MainPc' = pc'
      /\ ~UartAt("uart_store") /\ ~UartAt("uart_store")' /\ ~UartAt("uart_read")'
  BY AtMain DEF MainPc, UartAt, MainPcs, UartIsr
<1>2. RxTyped' BY TypingKept DEF RxInv, rxVars
<1>3. MainPc' \in Emptied => InOrder'
  BY <1>1, OrderKept DEF RxInv, rxVars
<1>4. Stack' BY <1>1 DEF RxInv, Stack
<1> QED BY <1>1, <1>2, <1>3, <1>4 DEF RxInv

LEMMA MainMove ==
    ASSUME RxInv, NEW p \in MainPcs, NEW next \in MainPcs, pc = p, pc' \in {p, next},
           UNCHANGED <<frames, rxVars, rda>>, Typing, level' \in {level, 0, 7},
           p \in Opened => next \in Opened, next \in Emptied => p \in Emptied
    PROVE  RxInv'
<1>1. MainPc = p /\ level' \in {0, 7} BY AtMain
<1>2. rda \in BOOLEAN /\ (rda => p \in Opened) BY <1>1 DEF RxInv, RxTyped
<1> QED BY <1>1, <1>2, MainStep

LEMMA RxMask ==
    ASSUME RxInv, NEW p \in MainPcs, NEW next \in MainPcs, NEW mask \in {Open, Masked},
           SetInterrupts(p, mask, next),
           p \in Opened => next \in Opened, next \in Emptied => p \in Emptied
    PROVE  RxInv'
BY MainMove DEF SetInterrupts, Runs, To, Inside, Open, Masked

LEMMA RxZero ==
    ASSUME RxInv, NEW p \in MainPcs, NEW next \in MainPcs, ZeroTicks(p, next),
           p \in Opened => next \in Opened, next \in Emptied => p \in Emptied
    PROVE  RxInv'
BY MainMove DEF ZeroTicks, Runs, To

LEMMA RxWrite ==
    ASSUME RxInv, NEW p \in MainPcs, NEW next \in MainPcs, NEW w, WriteTimer(p, w, next),
           p \in Opened => next \in Opened, next \in Emptied => p \in Emptied
    PROVE  RxInv'
BY MainMove DEF WriteTimer, Runs

LEMMA RxTurns ==
    ASSUME RxInv, NEW p \in MainPcs, Turns(p)
    PROVE  RxInv'
BY MainMove DEF Turns, Runs, To, Inside

LEMMA RxNote ==
    ASSUME RxInv, NEW p \in MainPcs, NEW next \in MainPcs, NEW noted, Note(p, noted, next),
           p \in Opened => next \in Opened, next \in Emptied => p \in Emptied
    PROVE  RxInv'
BY MainMove DEF Note, Runs, To, Inside

LEMMA RxTimerTest == ASSUME RxInv, TimerTest PROVE RxInv'
<1> USE DEF Pcs, MaskedAt, TimerIsr, UartIsr, MainPcs, Opened, Emptied
<1>1. CASE SetInterrupts("irqtest", Masked, "zero_1") BY <1>1, RxMask
<1>2. CASE ZeroTicks("zero_1", "on_1") BY <1>2, RxZero
<1>3. CASE WriteTimer("on_1", Ctrl(TRUE), "masked") BY <1>3, RxWrite
<1>4. CASE Turns("masked") \/ Turns("sleep") \/ Turns("frozen") BY <1>4, RxTurns
<1>5. CASE Over("masked", [main EXCEPT !.seen = pending], "unmask_1")
  BY <1>5, RxNote DEF Over
<1>6. CASE SetInterrupts("unmask_1", Open, "first") BY <1>6, RxMask
<1>7. CASE Note("first", [main EXCEPT !.prev = g_ticks], "sleep") BY <1>7, RxNote
<1>8. CASE Over("sleep", Sleeping, IF main.round < 2 THEN "sleep" ELSE "mask_1")
  <2>1. \E next \in {"sleep", "mask_1"} : Note("sleep", Sleeping, next) BY <1>8 DEF Over
  <2> QED BY <2>1, RxNote
<1>9. CASE SetInterrupts("mask_1", Masked, "off_1") BY <1>9, RxMask
<1>10. CASE WriteTimer("off_1", Ctrl(FALSE), "freeze") BY <1>10, RxWrite
<1>11. CASE Note("freeze", [main EXCEPT !.prev = g_ticks], "frozen") BY <1>11, RxNote
<1>12. CASE Over("frozen", [main EXCEPT !.passed =
                main.seen /\ main.climbing /\ g_ticks = main.prev /\ g_ticks > 0], "flush")
  BY <1>12, RxNote DEF Over
<1> QED
  BY <1>1, <1>2, <1>3, <1>4, <1>5, <1>6, <1>7, <1>8, <1>9, <1>10, <1>11, <1>12
  DEF TimerTest

LEMMA RxSweep == ASSUME RxInv, Sweep PROVE RxInv'
<1> USE DEF Pcs, MaskedAt, TimerIsr, UartIsr, MainPcs, Opened, Emptied
<1>1. CASE SetInterrupts("sweep", Masked, "zero_s") BY <1>1, RxMask
<1>2. CASE ZeroTicks("zero_s", "on_s") BY <1>2, RxZero
<1>3. CASE WriteTimer("on_s", Ctrl(TRUE), "unmask_s") BY <1>3, RxWrite
<1>4. CASE SetInterrupts("unmask_s", Open, "read") BY <1>4, RxMask
<1>5. CASE Turns("read") BY <1>5, RxTurns
<1>6. CASE Over("read", main, "mask_s") BY <1>6, RxNote DEF Over
<1>7. CASE SetInterrupts("mask_s", Masked, "off_s") BY <1>7, RxMask
<1>8. CASE WriteTimer("off_s", Ctrl(FALSE), "ms") BY <1>8, RxWrite
<1>9. CASE Note("ms", [main EXCEPT !.round = @ + 1],
                IF main.round < 2 THEN "sweep" ELSE "swept")
  <2>1. \E next \in {"sweep", "swept"} : Note("ms", [main EXCEPT !.round = @ + 1], next)
    BY <1>9
  <2> QED BY <2>1, RxNote
<1> QED BY <1>1, <1>2, <1>3, <1>4, <1>5, <1>6, <1>7, <1>8, <1>9 DEF Sweep

LEMMA RxFlush == ASSUME RxInv, Flush PROVE RxInv'
<1>1. /\ pc = "flush" /\ pc' = "flush" /\ fifo # <<>> /\ Line(Tail(fifo), arrived)
      /\ UNCHANGED <<frames, rda, level, rxVars>>
  BY DEF Flush, Runs, To
<1>2. "flush" \in MainPcs /\ "flush" \notin Emptied
  BY DEF Pcs, MaskedAt, TimerIsr, UartIsr, MainPcs, Emptied
<1>3. Len(frames) = 0 /\ MainPc = pc /\ MainPc' = pc' /\ ~UartAt("uart_read")'
  BY <1>1, <1>2, AtMain DEF MainPc, UartAt
<1>4. Tail(fifo) \in Seq(Bytes) BY <1>1, EmptySeq, HeadTailProperties DEF RxInv, RxTyped
<1>5. RxTyped' BY <1>1, <1>4, LineStep DEF RxInv, RxTyped, rxVars
<1>6. Stack' BY <1>1 DEF RxInv, Stack
<1> QED BY <1>1, <1>2, <1>3, <1>5, <1>6 DEF RxInv

\* The FIFO is found empty: what comes from now on is counted.
LEMMA RxFlushed == ASSUME RxInv, Flushed PROVE RxInv'
<1>1. /\ pc = "flush" /\ pc' = "on_2" /\ Line(<<>>, <<>>)
      /\ UNCHANGED <<frames, rda, level, b>> /\ g_rx' = <<>> /\ g_rx_count' = 0
  BY DEF Flushed, Runs, To
<1>2. /\ "flush" \in MainPcs /\ "on_2" \in MainPcs
      /\ "flush" \notin Opened
  BY DEF Pcs, MaskedAt, TimerIsr, UartIsr, MainPcs, Opened
<1>3. /\ Len(frames) = 0 /\ MainPc = pc /\ level \in {0, 7}
      /\ ~UartAt("uart_read")' /\ ~UartAt("uart_store")'
  BY <1>1, <1>2, AtMain DEF UartAt
<1>4. <<>> \in Seq(Bytes) /\ Len(<<>>) = 0 BY EmptySeq
<1>5. /\ Len(arrived') = 0 + Len(fifo')
      /\ \A i \in 1 .. Len(fifo') : fifo'[i] = arrived'[0 + i]
  <2>1. Len(<<>>) = 0 + Len(<<>>) /\ \A i \in 1 .. Len(<<>>) : <<>>[i] = <<>>[0 + i] BY <1>4
  <2>2. 0 \in Nat OBVIOUS
  <2> QED BY <1>1, <1>4, <2>1, <2>2, LineOrder, ZenonT(60)
<1>6. RxTyped' BY <1>1, <1>4, LineStep DEF RxInv, RxTyped
<1>7. Stack' BY <1>1, <1>2, <1>3 DEF RxInv, Stack
<1>8. InOrder'
  <2>1. Gone' = 0 BY <1>1, <1>3 DEF Gone
  <2>2. Len(g_rx') = 0 /\ Min2(0, RxSize) = 0 BY <1>1, <1>4, InterruptsAssumption DEF Min2
  <2> QED BY <1>1, <1>3, <1>5, <2>1, <2>2 DEF InOrder
<1> QED BY <1>1, <1>2, <1>3, <1>6, <1>7, <1>8 DEF RxInv

LEMMA RxUartTest == ASSUME RxInv, UartTest PROVE RxInv'
<1> USE DEF Pcs, MaskedAt, TimerIsr, UartIsr, MainPcs, Opened, Emptied
<1>1. CASE WriteTimer("on_2", Ctrl(TRUE), "ier_on") BY <1>1, RxWrite
<1>2. CASE SwitchIer("ier_on", TRUE, "unmask_2")
  <2>1. pc = "ier_on" /\ pc' = "unmask_2" /\ rda' /\ rda' \in BOOLEAN
        /\ UNCHANGED <<frames, rxVars, level>> /\ Typing
    BY <1>2 DEF SwitchIer, Runs, To
  <2>2. level' \in {0, 7} BY <2>1, AtMain
  <2> QED BY <2>1, <2>2, MainStep
<1>3. CASE SetInterrupts("unmask_2", Open, "loop") BY <1>3, RxMask
<1>4. CASE Guard BY <1>4, MainMove DEF Guard, Runs, To, Inside
<1>5. CASE GuardOver BY <1>5, MainMove DEF GuardOver, Runs, To, Inside
<1>6. CASE SwitchIer("ier_off", FALSE, "off_2")
  <2>1. pc = "ier_off" /\ pc' = "off_2" /\ ~rda' /\ rda' \in BOOLEAN
        /\ UNCHANGED <<frames, rxVars, level>> /\ Typing
    BY <1>6 DEF SwitchIer, Runs, To
  <2>2. level' \in {0, 7} BY <2>1, AtMain
  <2> QED BY <2>1, <2>2, MainStep
<1>7. CASE WriteTimer("off_2", Ctrl(FALSE), "mask_2") BY <1>7, RxWrite
<1>8. CASE SetInterrupts("mask_2", Masked, "report") BY <1>8, RxMask
<1>9. CASE Report BY <1>9, MainMove DEF Report, Runs, To, Inside
<1> QED
  BY <1>1, <1>2, <1>3, <1>4, <1>5, <1>6, <1>7, <1>8, <1>9, RxFlush, RxFlushed DEF UartTest

-----------------------------------------------------------------------------
(* The handlers.                                                           *)

\* A step on the stack that moves no byte.
LEMMA HandlerStep ==
    ASSUME RxInv, Stack', MainPc' = MainPc, Typing, UNCHANGED <<rxVars, rda>>,
           UartAt("uart_store")' <=> UartAt("uart_store"),
           UartAt("uart_read")' => UartAt("uart_read") \/ fifo # <<>>
    PROVE  RxInv'
<1>1. RxTyped' /\ (fifo # <<>> => fifo' # <<>>) BY TypingKept DEF RxInv, RxTyped
<1>2. MainPc' \in Emptied => InOrder' BY OrderKept DEF RxInv
<1> QED BY <1>1, <1>2 DEF RxInv

LEMMA AtTimer ==
    ASSUME RxInv, pc \in TimerIsr, pc' \in TimerIsr \cup {"rte"},
           UNCHANGED <<frames, level, rxVars, rda>>, Typing
    PROVE  RxInv'
<1>1. Len(frames) \in {1, 2} /\ level = 6
  <2>1. pc \notin MainPcs /\ pc \notin UartIsr BY Places
  <2> QED BY <2>1 DEF RxInv, Stack
<1>2. Stack' BY <1>1 DEF RxInv, Stack
<1>3. MainPc' = MainPc BY <1>1 DEF MainPc
<1>4. /\ UartAt("uart_store")' <=> UartAt("uart_store")
      /\ UartAt("uart_read")' <=> UartAt("uart_read")
  BY DEF UartAt, TimerIsr
<1> QED BY <1>2, <1>3, <1>4, HandlerStep

\* The handler of the receiver runs with nothing above main but itself.
LEMMA AtUart ==
    ASSUME RxInv, pc \in UartIsr \ {"rte"}
    PROVE  /\ Len(frames) = 1 /\ level = 5
           /\ \A p \in UartIsr : UartAt(p) <=> pc = p
<1>1. pc \notin MainPcs /\ pc \notin TimerIsr \cup {"rte"} BY Places DEF UartIsr
<1> QED BY <1>1 DEF RxInv, Stack, UartAt

LEMMA RxPoll == ASSUME RxInv, Poll PROVE RxInv'
<1>1. /\ pc = "uart_isr" /\ pc' = IF fifo # <<>> THEN "uart_read" ELSE "rte"
      /\ UNCHANGED <<frames, level, rxVars, rda>> /\ Typing
  BY DEF Poll, Runs, To, Inside
<1>2. Len(frames) = 1 /\ level = 5 /\ ~UartAt("uart_store")
  BY <1>1, AtUart DEF UartIsr
<1>3. Stack' BY <1>1, <1>2 DEF RxInv, Stack, UartIsr
<1>4. MainPc' = MainPc BY <1>1, <1>2 DEF MainPc
<1>5. ~UartAt("uart_store")' /\ (UartAt("uart_read")' => fifo # <<>>)
  BY <1>1, <1>2 DEF UartAt
<1> QED BY <1>1, <1>2, <1>3, <1>4, <1>5, HandlerStep

LEMMA RxRead == ASSUME RxInv, ReadByte PROVE RxInv'
<1>1. /\ pc = "uart_read" /\ pc' = "uart_store" /\ b' = Head(fifo)
      /\ Line(Tail(fifo), arrived)
      /\ UNCHANGED <<frames, level, rda, g_rx, g_rx_count>>
  BY DEF ReadByte, Runs, To
<1>2. Len(frames) = 1 /\ level = 5 /\ ~UartAt("uart_store") /\ UartAt("uart_read")
  BY <1>1, AtUart DEF UartIsr
<1>3. fifo # <<>> /\ fifo \in Seq(Bytes) /\ arrived \in Seq(Bytes) /\ g_rx_count \in Nat
  BY <1>2 DEF RxInv, RxTyped
<1>4. /\ Tail(fifo) \in Seq(Bytes) /\ Len(Tail(fifo)) = Len(fifo) - 1
      /\ Head(fifo) = fifo[1] /\ Head(fifo) \in Bytes /\ Len(fifo) \in Nat /\ Len(fifo) >= 1
      /\ \A i \in 1 .. Len(fifo) - 1 : Tail(fifo)[i] = fifo[i + 1]
  <2>1. Len(fifo) \in Nat /\ Len(fifo) # 0 BY <1>3, Seqs
  <2>2. fifo # <<>> /\ fifo \in Seq(Bytes) BY <1>3
  <2> QED BY <2>1, <2>2, HeadTailProperties
<1>5. RxTyped' BY <1>1, <1>3, <1>4, LineStep DEF RxInv, RxTyped
<1>6. Stack' BY <1>1, <1>2 DEF RxInv, Stack, UartIsr
<1>7. MainPc' = MainPc BY <1>1, <1>2 DEF MainPc
<1>8. UartAt("uart_store")' /\ ~UartAt("uart_read")' BY <1>1, <1>2 DEF UartAt
<1>9. ASSUME InOrder PROVE InOrder'
  <2>1. Gone = g_rx_count /\ Gone' = g_rx_count + 1 BY <1>1, <1>2, <1>3, <1>8 DEF Gone
  <2>2. /\ Len(arrived) = (g_rx_count + 1) + Len(Tail(fifo))
        /\ \A i \in 1 .. Len(Tail(fifo)) : Tail(fifo)[i] = arrived[(g_rx_count + 1) + i]
        /\ Head(fifo) = arrived[g_rx_count + 1]
    <3>1. Len(arrived) = g_rx_count + Len(fifo)
          /\ \A i \in 1 .. Len(fifo) : fifo[i] = arrived[g_rx_count + i]
      BY <1>9, <2>1 DEF InOrder
    <3>2. ASSUME NEW i \in 1 .. Len(Tail(fifo))
          PROVE  Tail(fifo)[i] = arrived[(g_rx_count + 1) + i]
      <4>1. i \in 1 .. Len(fifo) - 1 /\ i + 1 \in 1 .. Len(fifo)
            /\ g_rx_count + (i + 1) = (g_rx_count + 1) + i
        BY <1>3, <1>4
      <4> QED BY <1>4, <3>1, <4>1
    <3> QED BY <1>3, <1>4, <3>1, <3>2
  <2>3. g_rx_count + 1 \in Nat BY <1>3
  <2>4. /\ Len(arrived') = (g_rx_count + 1) + Len(fifo')
        /\ \A i \in 1 .. Len(fifo') : fifo'[i] = arrived'[(g_rx_count + 1) + i]
        /\ \A i \in 1 .. Len(arrived) : arrived'[i] = arrived[i]
    BY <1>1, <1>3, <1>4, <2>2, <2>3, LineOrder, Zenon
  <2>5. Len(g_rx) \in Nat /\ Len(g_rx) <= Len(arrived) /\ g_rx_count + 1 \in 1 .. Len(arrived)
    <3>1. Len(g_rx) \in Nat BY Seqs DEF RxInv, RxTyped
    <3> QED BY <1>3, <1>4, <1>9, <2>1, <3>1, InterruptsAssumption DEF InOrder, Min2
  <2>6. Len(arrived) \in Nat BY <1>3, Seqs
  <2>7. \A i \in 1 .. Len(g_rx') : g_rx'[i] = arrived'[i]
    BY <1>1, <1>9, <2>4, <2>5, <2>6 DEF InOrder
  <2>8. b' = arrived'[g_rx_count + 1] BY <1>1, <2>2, <2>4, <2>5
  <2> QED BY <1>1, <1>9, <2>1, <2>4, <2>7, <2>8 DEF InOrder
<1> QED BY <1>1, <1>5, <1>6, <1>7, <1>8, <1>9 DEF RxInv

LEMMA RxStore == ASSUME RxInv, StoreByte PROVE RxInv'
<1>1. /\ pc = "uart_store" /\ pc' = "uart_isr"
      /\ g_rx' = (IF Room THEN Append(g_rx, b) ELSE g_rx) /\ g_rx_count' = g_rx_count + 1
      /\ Typing /\ UNCHANGED <<frames, level, rda, b>>
  BY DEF StoreByte, Runs, To, Inside
<1>2. Len(frames) = 1 /\ level = 5 /\ UartAt("uart_store")
  BY <1>1, AtUart DEF UartIsr
<1>3. /\ fifo \in Seq(Bytes) /\ arrived \in Seq(Bytes) /\ g_rx \in Seq(Bytes)
      /\ b \in Bytes /\ g_rx_count \in Nat
  BY DEF RxInv, RxTyped
<1>4. g_rx' \in Seq(Bytes) BY <1>1, <1>3, Appended
<1>5. RxTyped' BY <1>1, <1>3, <1>4, LineStep DEF RxInv, RxTyped, Typing
<1>6. Stack' BY <1>1, <1>2 DEF RxInv, Stack, UartIsr
<1>7. MainPc' = MainPc BY <1>1, <1>2 DEF MainPc
<1>8. ~UartAt("uart_store")' /\ ~UartAt("uart_read")' BY <1>1, <1>2 DEF UartAt
<1>9. ASSUME InOrder PROVE InOrder'
  <2>1. Gone = g_rx_count + 1 /\ Gone' = Gone /\ Gone \in Nat BY <1>1, <1>2, <1>3, <1>8 DEF Gone
  <2>2. /\ Len(arrived') = Gone + Len(fifo')
        /\ \A i \in 1 .. Len(fifo') : fifo'[i] = arrived'[Gone + i]
        /\ \A i \in 1 .. Len(arrived) : arrived'[i] = arrived[i]
    BY <1>1, <1>3, <1>9, <2>1, LineOrder DEF InOrder, Typing
  <2>3. Len(fifo) \in Nat /\ Len(arrived) \in Nat /\ Len(g_rx) \in Nat BY <1>3, Seqs
  <2>4. /\ Len(g_rx) = Min2(g_rx_count, RxSize) /\ Len(arrived) = g_rx_count + 1 + Len(fifo)
        /\ \A i \in 1 .. Len(g_rx) : g_rx[i] = arrived[i]
        /\ b = arrived[g_rx_count + 1]
    BY <1>2, <1>9, <2>1 DEF InOrder
  <2>5. CASE Room
    <3>1. /\ Len(g_rx') = Len(g_rx) + 1 /\ g_rx'[Len(g_rx) + 1] = b
          /\ \A i \in 1 .. Len(g_rx) : g_rx'[i] = g_rx[i]
      BY <1>1, <1>3, <2>5, Appended
    <3>2. Len(g_rx) = g_rx_count /\ Len(g_rx') = Min2(g_rx_count + 1, RxSize)
      BY <1>3, <2>4, <2>5, <3>1, InterruptsAssumption DEF Min2, Room
    <3>3. ASSUME NEW i \in 1 .. Len(g_rx') PROVE g_rx'[i] = arrived'[i]
      <4>1. i \in 1 .. Len(arrived) BY <1>3, <2>3, <2>4, <3>1, <3>2
      <4>2. g_rx'[i] = arrived[i]
        <5>1. CASE i \in 1 .. Len(g_rx) BY <2>4, <3>1, <5>1
        <5>2. CASE i = Len(g_rx) + 1 BY <2>4, <3>1, <3>2, <5>2
        <5> QED BY <2>3, <3>1, <5>1, <5>2
      <4> QED BY <2>2, <4>1, <4>2
    <3> QED BY <1>1, <1>8, <2>1, <2>2, <3>2, <3>3 DEF InOrder
  <2>6. CASE ~Room
    <3>1. Len(g_rx') = Min2(g_rx_count + 1, RxSize) /\ g_rx' = g_rx /\ Len(g_rx) <= Len(arrived)
      BY <1>1, <1>3, <2>3, <2>4, <2>6, InterruptsAssumption DEF Min2, Room
    <3>2. \A i \in 1 .. Len(g_rx') : g_rx'[i] = arrived'[i]
      BY <2>2, <2>3, <2>4, <3>1
    <3> QED BY <1>1, <1>8, <2>1, <2>2, <3>1, <3>2 DEF InOrder
  <2> QED BY <2>5, <2>6
<1> QED BY <1>1, <1>5, <1>6, <1>7, <1>8, <1>9 DEF RxInv

\* What interrupts what: main either handler, the receiver's the timer's.
LEMMA RxInterrupt == ASSUME RxInv, Interrupt PROVE RxInv'
<1> DEFINE frame == [pc |-> pc, level |-> level]
<1>1. /\ Ipl > level /\ level' = Ipl /\ frames' = Append(frames, frame)
      /\ pc' = IF Ipl = TimerLevel THEN "timer_isr" ELSE "uart_isr"
      /\ Typing /\ UNCHANGED <<rda, rxVars>>
  BY DEF Interrupt, Inside
<1>2. Ipl \in {0, 5, 6} BY DEF Ipl, TimerLevel, UartLevel
<1>3. /\ \/ Len(frames) = 0 /\ level = 0 /\ pc \in MainPcs
         \/ Len(frames) = 1 /\ level = 5 /\ pc \in UartIsr /\ Ipl = 6
      /\ frames \in Seq(Frame)
  BY <1>1, <1>2 DEF RxInv, Stack
<1>4. frame \in Frame BY <1>3, Places DEF Frame
<1>5. /\ frames' \in Seq(Frame) /\ Len(frames') = Len(frames) + 1
      /\ \A i \in 1 .. Len(frames) : frames'[i] = frames[i]
      /\ frames'[Len(frames) + 1] = frame
  BY <1>1, <1>3, <1>4, AppendProperties
<1>6. CASE Len(frames) = 0
  <2>1. level = 0 /\ pc \in MainPcs /\ Len(frames') = 1 /\ frames'[1] = frame BY <1>3, <1>5, <1>6
  <2>2. \/ pc' = "uart_isr" /\ level' = 5
        \/ pc' = "timer_isr" /\ level' = 6
    BY <1>1, <1>2, <2>1 DEF TimerLevel
  <2>3. Stack'
    <3>1. frames'[1].pc \in MainPcs /\ frames'[1].level = 0 BY <2>1
    <3>2. \/ pc' \in UartIsr /\ level' = 5
          \/ pc' \in TimerIsr \cup {"rte"} /\ level' = 6
      BY <2>2 DEF UartIsr, TimerIsr
    <3>3. frames' \in Seq(Frame) /\ Len(frames') = 1 BY <1>5, <2>1
    <3> QED BY <3>1, <3>2, <3>3 DEF Stack
  <2>4. MainPc' = MainPc BY <1>6, <2>1 DEF MainPc
  <2>5. pc # "uart_store" /\ pc # "uart_read" BY <2>1 DEF MainPcs, UartIsr
  <2>6. /\ UartAt("uart_store")' <=> UartAt("uart_store")
        /\ UartAt("uart_read")' => UartAt("uart_read")
    BY <1>6, <2>1, <2>2, <2>5 DEF UartAt
  <2> QED BY <1>1, <2>3, <2>4, <2>6, HandlerStep
<1>7. CASE Len(frames) = 1
  <2>1. level = 5 /\ pc \in UartIsr /\ Len(frames') = 2 /\ frames'[1] = frames[1]
        /\ frames'[2] = frame /\ pc' = "timer_isr" /\ level' = 6
    BY <1>1, <1>3, <1>5, <1>7 DEF TimerLevel
  <2>2. Stack' BY <1>5, <1>7, <2>1 DEF RxInv, Stack, TimerIsr
  <2>3. MainPc' = MainPc BY <1>7, <2>1 DEF MainPc
  <2>4. /\ UartAt("uart_store")' <=> UartAt("uart_store")
        /\ UartAt("uart_read")' <=> UartAt("uart_read")
    BY <1>7, <2>1 DEF UartAt
  <2> QED BY <1>1, <2>2, <2>3, <2>4, HandlerStep
<1> QED BY <1>3, <1>6, <1>7

LEMMA Returned ==
    ASSUME RxInv, Rte
    PROVE  /\ pc = "rte" /\ Len(frames) \in {1, 2}
           /\ pc' = frames[Len(frames)].pc /\ level' = frames[Len(frames)].level
           /\ frames' \in Seq(Frame) /\ Len(frames') = Len(frames) - 1
           /\ \A i \in 1 .. Len(frames) - 1 : frames'[i] = frames[i]
           /\ Typing /\ UNCHANGED <<rda, rxVars>>
<1> DEFINE n == Len(frames)
<1>1. /\ pc = "rte" /\ pc' = frames[n].pc /\ level' = frames[n].level
      /\ frames' = SubSeq(frames, 1, n - 1) /\ Typing /\ UNCHANGED <<rda, rxVars>>
  BY DEF Rte, Runs, Inside
<1>2. frames \in Seq(Frame) /\ n \in {1, 2}
  <2>1. pc \notin MainPcs BY <1>1 DEF MainPcs, UartIsr
  <2> QED BY <2>1 DEF RxInv, Stack
<1>3. frames' \in Seq(Frame) /\ Len(frames') = n - 1
      /\ \A i \in 1 .. n - 1 : frames'[i] = frames[i]
  <2>1. \A i \in 1 .. n : frames[i] \in Frame BY <1>2, ElementOfSeq
  <2>2. n - 1 \in Int /\ 1 \in Int /\ \A i \in 1 .. n - 1 : frames[i] \in Frame BY <1>2, <2>1
  <2>3. /\ frames' \in Seq(Frame)
        /\ Len(frames') = IF 1 <= n - 1 THEN n - 1 - 1 + 1 ELSE 0
        /\ \A i \in 1 .. n - 1 - 1 + 1 : frames'[i] = frames[1 + i - 1]
    BY <1>1, <2>2, SubSeqProperties
  <2> HIDE DEF n
  <2>4. Len(frames') = n - 1 /\ \A i \in 1 .. n - 1 : i \in 1 .. n - 1 - 1 + 1 /\ 1 + i - 1 = i
    BY <1>2, <2>3
  <2> QED BY <2>3, <2>4
<1> QED BY <1>1, <1>2, <1>3

LEMMA RxRte == ASSUME RxInv, Rte PROVE RxInv'
<1> DEFINE n == Len(frames)
<1>1. /\ pc = "rte" /\ pc' = frames[n].pc /\ level' = frames[n].level
      /\ Typing /\ UNCHANGED <<rda, rxVars>>
  BY Returned
<1>2. n \in {1, 2} BY Returned
<1>3. frames' \in Seq(Frame) /\ Len(frames') = n - 1
      /\ \A i \in 1 .. n - 1 : frames'[i] = frames[i]
  BY Returned
<1>4. CASE n = 1
  <2>1. pc' \in MainPcs /\ level' = 0 /\ Len(frames') = 0 BY <1>1, <1>3, <1>4 DEF RxInv, Stack
  <2>2. Stack'
    <3> HIDE DEF n
    <3>1. frames' \in Seq(Frame) /\ level' \in {0, 7} BY <1>3, <2>1
    <3> QED BY <2>1, <3>1 DEF Stack
  <2>3. MainPc' = MainPc BY <1>1, <1>4, <2>1 DEF MainPc
  <2>4. pc' # "uart_store" /\ pc' # "uart_read" BY <2>1 DEF MainPcs, UartIsr
  <2>5. /\ UartAt("uart_store")' <=> UartAt("uart_store")
        /\ UartAt("uart_read")' <=> UartAt("uart_read")
    BY <1>1, <1>4, <2>1, <2>4 DEF UartAt
  <2> QED BY <1>1, <2>2, <2>3, <2>5, HandlerStep
<1>5. CASE n = 2
  <2>1. /\ pc' = frames[2].pc /\ pc' \in UartIsr /\ level' = 5 /\ Len(frames') = 1
        /\ frames'[1] = frames[1]
    BY <1>1, <1>3, <1>5 DEF RxInv, Stack
  <2>2. Stack' BY <1>3, <1>5, <2>1 DEF RxInv, Stack
  <2>3. MainPc' = MainPc BY <1>5, <2>1 DEF MainPc
  <2>4. /\ UartAt("uart_store")' <=> UartAt("uart_store")
        /\ UartAt("uart_read")' <=> UartAt("uart_read")
    BY <1>1, <1>5, <2>1 DEF UartAt
  <2> QED BY <1>1, <2>2, <2>3, <2>4, HandlerStep
<1> QED BY <1>2, <1>4, <1>5

LEMMA RxHandlers == ASSUME RxInv, Handlers PROVE RxInv'
<1>1. CASE Acknowledge
  BY <1>1, AtTimer DEF Acknowledge, WriteTimer, Runs, TimerIsr
<1>2. CASE Count
  BY <1>2, AtTimer DEF Count, Runs, To, Inside, TimerIsr
<1> QED BY <1>1, <1>2, RxPoll, RxRead, RxStore, RxRte DEF Handlers

LEMMA RxInit == Init => RxInv
<1> SUFFICES ASSUME Init PROVE RxInv OBVIOUS
<1>1. Len(<<>>) = 0 /\ <<>> \in Seq(Bytes) /\ <<>> \in Seq(Frame) BY EmptySeq
<1>2. /\ pc \in MainPcs /\ pc \notin Emptied /\ pc # "uart_read"
  BY DEF Init, Pcs, MaskedAt, TimerIsr, UartIsr, MainPcs, Emptied
<1>3. Stack BY <1>1, <1>2 DEF Init, Stack, Masked
<1>4. RxTyped BY <1>1 DEF Init, RxTyped, Bytes
<1> QED BY <1>1, <1>2, <1>3, <1>4 DEF Init, RxInv, MainPc, UartAt

LEMMA RxSteps == RxInv /\ [Next]_vars => RxInv'
<1> SUFFICES ASSUME RxInv, [Next]_vars PROVE RxInv' OBVIOUS
<1>1. CASE UNCHANGED vars
  <2>1. UNCHANGED <<pc, level, frames, rda, fifo, arrived, g_rx, g_rx_count, b>>
    BY <1>1 DEF vars, cpuVars, uartVars, rxVars
  <2> QED BY <2>1 DEF RxInv, Stack, RxTyped, UartAt, MainPc, InOrder, Gone
<1> QED BY <1>1, RxInterrupt, RxHandlers, RxTimerTest, RxUartTest, RxSweep DEF Next

\* What InOrder says element by element, BytesInOrder says of sequences.
LEMMA SubSeqIs ==
    ASSUME NEW s \in Seq(Bytes), NEW t \in Seq(Bytes), NEW k \in Nat,
           k + Len(t) <= Len(s), \A i \in 1 .. Len(t) : t[i] = s[k + i]
    PROVE  t = SubSeq(s, k + 1, k + Len(t))
<1> DEFINE n == Len(t)  u == SubSeq(s, k + 1, k + n)
<1>1. n \in Nat /\ Len(s) \in Nat BY Seqs
<1>2. \A i \in k + 1 .. k + n : s[i] \in Bytes
  <2>1. \A i \in k + 1 .. k + n : i \in 1 .. Len(s) BY <1>1
  <2> QED BY <2>1, Seqs
<1>3. /\ u \in Seq(Bytes) /\ Len(u) = IF k + 1 <= k + n THEN (k + n) - (k + 1) + 1 ELSE 0
      /\ \A i \in 1 .. (k + n) - (k + 1) + 1 : u[i] = s[(k + 1) + i - 1]
  <2>1. k + 1 \in Int /\ k + n \in Int BY <1>1
  <2> HIDE DEF n
  <2> QED BY <1>2, <2>1, SubSeqProperties, SMTT(40)
<1> HIDE DEF u, n
<1>4. Len(u) = n BY <1>1, <1>3
<1>5. \A i \in 1 .. n : t[i] = u[i]
  <2> SUFFICES ASSUME NEW i \in 1 .. n PROVE t[i] = u[i] OBVIOUS
  <2>1. i \in 1 .. (k + n) - (k + 1) + 1 /\ (k + 1) + i - 1 = k + i BY <1>1
  <2>2. u[i] = s[k + i] BY <1>3, <2>1
  <2> QED BY <2>2 DEF n
<1>6. Len(t) = Len(u) BY <1>4 DEF n
<1>7. t = u BY <1>3, <1>5, <1>6, SeqEqual DEF n
<1> QED BY <1>7 DEF u, n

LEMMA RxBytes == RxInv => BytesInOrder
<1> SUFFICES ASSUME RxInv, Listening
             PROVE  /\ g_rx = SubSeq(arrived, 1, Min2(g_rx_count, RxSize))
                    /\ fifo = SubSeq(arrived, Taken + 1, Len(arrived))
                    /\ Taken = g_rx_count + 1 => b = arrived[Taken]
  BY DEF BytesInOrder
<1>1. MainPc \in Emptied
  <2>1. CASE rda BY <2>1, Places DEF RxInv
  <2>2. CASE pc \in {"off_2", "mask_2", "report"}
    <3>1. pc \in Emptied BY <2>2 DEF Emptied
    <3> QED BY <3>1, Places, AtMain
  <2> QED BY <2>1, <2>2 DEF Listening
<1>2. InOrder /\ RxTyped /\ Stack BY <1>1 DEF RxInv
<1>3. Taken = Gone
  <2>1. "uart_store" \in {pc} \cup {frames[i].pc : i \in DOMAIN frames} <=> UartAt("uart_store")
    <3>1. DOMAIN frames = 1 .. Len(frames) /\ Len(frames) \in 0 .. 2
      BY <1>2, LenProperties DEF Stack
    <3>2. Len(frames) >= 1 => frames[1].pc # "uart_store" BY <1>2 DEF Stack, MainPcs, UartIsr
    <3>3. "uart_store" \in {frames[i].pc : i \in DOMAIN frames}
             <=> Len(frames) = 2 /\ frames[2].pc = "uart_store"
      BY <3>1, <3>2
    <3> QED BY <3>3 DEF UartAt
  <2> QED BY <2>1 DEF Taken, Gone
<1>4. /\ Gone \in Nat /\ Len(fifo) \in Nat /\ Len(arrived) \in Nat /\ Len(g_rx) \in Nat
      /\ Gone >= g_rx_count /\ (Gone = g_rx_count + 1 <=> UartAt("uart_store"))
  BY <1>2, Seqs DEF Gone, RxTyped
<1>5. fifo = SubSeq(arrived, Gone + 1, Gone + Len(fifo))
  BY <1>2, <1>4, SubSeqIs DEF InOrder, RxTyped
<1>6. g_rx = SubSeq(arrived, 0 + 1, 0 + Len(g_rx))
  <2>1. 0 + Len(g_rx) <= Len(arrived)
    BY <1>2, <1>4, InterruptsAssumption DEF InOrder, Min2, RxTyped
  <2>2. \A i \in 1 .. Len(g_rx) : g_rx[i] = arrived[0 + i] BY <1>2, <1>4 DEF InOrder
  <2>3. 0 \in Nat OBVIOUS
  <2> QED BY <1>2, <2>1, <2>2, <2>3, SubSeqIs, Zenon DEF RxTyped
<1> QED BY <1>2, <1>3, <1>4, <1>5, <1>6 DEF InOrder

\* The bytes that come while the receiver is open are stored in their order,
\* none twice and none left out, however the timer interrupts the handler:
\* with every size of the FIFO and of g_rx (irqtest.c, uart_isr).
THEOREM BytesAreInOrder == Spec => []BytesInOrder
<1> QED BY RxInit, RxSteps, RxBytes, PTL DEF Spec

-----------------------------------------------------------------------------
(* The verdict of irqtest, and the times of sdread: the clock.             *)

\* Where the timer is written, in one clock or two.
WritesAt == {"timer_isr", "on_1", "off_1", "on_2", "off_2", "on_s", "off_s"}

Clocked ==
    /\ held => pc \in WritesAt
    /\ enable => freq = 3 /\ count <= Reload[3]
    /\ g_ticks >= 0 /\ elapsed \in Nat

\* A clock in which nothing is written: the timer counts on, or rolls over.
LEMMA Quiet ==
    ASSUME IInv, Clocked, Timer(NoWrite)
    PROVE  /\ enable' = enable /\ freq' = freq /\ elapsed' \in Nat /\ Reload[3] \in Nat \ {0}
           /\ ~enable => elapsed' = elapsed /\ pending' = pending /\ raised' = raised
           /\ enable =>
                 /\ elapsed' = elapsed + 1
                 /\ \/ /\ count = Reload[3] /\ count' = 0 /\ pending'
                       /\ raised' = raised + (IF pending THEN 0 ELSE 1)
                    \/ /\ count < Reload[3] /\ count' = count + 1
                       /\ pending' = pending /\ raised' = raised
<1>1. Reload[3] \in Nat \ {0} BY TimerAssumption
<1>2. NoWrite.reg = "none" BY DEF NoWrite
<1>3. /\ enable' = enable /\ freq' = freq /\ pending' = (pending \/ Rollover)
      /\ count' = IF ~enable \/ Rollover THEN 0 ELSE count + 1
      /\ raised' = IF ~pending /\ pending' THEN raised + 1 ELSE raised
      /\ elapsed' = IF enable THEN elapsed + 1 ELSE elapsed
  BY <1>2 DEF Timer, TimerClock, Withdrawn, IInv, Typed
<1>4. count \in Nat /\ raised \in Int /\ elapsed \in Nat
      /\ enable \in BOOLEAN /\ pending \in BOOLEAN
  BY DEF IInv, Typed, Clocked
<1>5. enable => freq = 3 /\ count <= Reload[3] /\ (Rollover <=> count = Reload[3])
  BY <1>1, <1>4 DEF Clocked, Rollover
<1>6. ~enable => ~Rollover BY DEF Rollover
<1> QED BY <1>1, <1>3, <1>4, <1>5, <1>6

\* A clock of the acknowledge.
LEMMA Acked ==
    ASSUME IInv, Clocked, Timer(Ack)
    PROVE  /\ enable' = enable /\ freq' = freq /\ ~pending' /\ raised' = raised
           /\ elapsed' \in Nat
           /\ enable => /\ elapsed' = elapsed + 1
                        /\ count' = IF count = Reload[3] THEN 0 ELSE count + 1
<1>1. Reload[3] \in Nat \ {0} BY TimerAssumption
<1>2. Ack.reg = "status" BY DEF Ack, NoWrite
<1>3. /\ enable' = enable /\ freq' = freq /\ ~pending' /\ raised' = raised
      /\ count' = IF ~enable \/ Rollover THEN 0 ELSE count + 1
      /\ elapsed' = IF enable THEN elapsed + 1 ELSE elapsed
  BY <1>2 DEF Timer, TimerClock, Withdrawn, IInv, Typed
<1>4. count \in Nat /\ elapsed \in Nat /\ enable \in BOOLEAN BY DEF IInv, Typed, Clocked
<1>5. enable => count <= Reload[3] /\ (Rollover <=> count = Reload[3])
  BY <1>1, <1>4 DEF Clocked, Rollover
<1> QED BY <1>3, <1>4, <1>5

\* A clock in which the timer is switched on, or has been in the clock before.
LEMMA On ==
    ASSUME IInv, Clocked, Timer(Ctrl(TRUE))
    PROVE  /\ enable' /\ freq' = 3 /\ elapsed' \in Nat /\ count' \in Nat
           /\ count' <= Reload[3]
           /\ ~enable => elapsed' = 0 /\ count' = 0 /\ pending' = pending /\ raised' = raised
           /\ enable =>
                 /\ elapsed' = elapsed + 1
                 /\ \/ /\ count = Reload[3] /\ count' = 0 /\ pending'
                       /\ raised' = raised + (IF pending THEN 0 ELSE 1)
                    \/ /\ count < Reload[3] /\ count' = count + 1
                       /\ pending' = pending /\ raised' = raised
<1>1. Reload[3] \in Nat \ {0} BY TimerAssumption
<1>2. Ctrl(TRUE).reg = "ctrl" /\ Ctrl(TRUE).on /\ Ctrl(TRUE).freq = 3 BY DEF Ctrl
<1>3. /\ enable' = TRUE /\ freq' = 3 /\ pending' = (pending \/ Rollover)
      /\ count' = IF ~enable \/ Rollover THEN 0 ELSE count + 1
      /\ raised' = IF ~pending /\ pending' THEN raised + 1 ELSE raised
      /\ elapsed' = IF ~enable THEN 0 ELSE elapsed + 1
  <2>1. enable' = TRUE BY <1>2 DEF Timer, TimerClock, Ctrl
  <2> QED BY <1>2, <2>1 DEF Timer, TimerClock, Withdrawn, IInv, Typed
<1>4. count \in Nat /\ raised \in Int /\ elapsed \in Nat
      /\ enable \in BOOLEAN /\ pending \in BOOLEAN
  BY DEF IInv, Typed, Clocked
<1>5. enable => freq = 3 /\ count <= Reload[3] /\ (Rollover <=> count = Reload[3])
  BY <1>1, <1>4 DEF Clocked, Rollover
<1>6. ~enable => ~Rollover BY DEF Rollover
<1> QED BY <1>1, <1>3, <1>4, <1>5, <1>6

\* A clock in which it is switched off.
LEMMA Off ==
    ASSUME IInv, Clocked, Timer(Ctrl(FALSE))
    PROVE  /\ ~enable' /\ ~pending' /\ elapsed' \in Nat
           /\ elapsed' = IF enable THEN elapsed + 1 ELSE elapsed
           /\ raised' = IF pending THEN raised - 1 ELSE raised
<1>1. Ctrl(FALSE).reg = "ctrl" /\ ~Ctrl(FALSE).on BY DEF Ctrl
<1>2. ~enable' /\ ~pending' BY <1>1 DEF Timer, TimerClock, Withdrawn
<1>3. elapsed' = IF enable THEN elapsed + 1 ELSE elapsed BY <1>2 DEF Timer
<1>4. raised' = IF pending THEN raised - 1 ELSE raised BY <1>1, <1>2 DEF Timer
<1> QED BY <1>2, <1>3, <1>4 DEF Clocked

LEMMA ClockedKept ==
    ASSUME IInv, Clocked, g_ticks' \in {g_ticks, g_ticks + 1, 0},
           held' => pc' \in WritesAt,
           \/ Timer(NoWrite) \/ Timer(Ack) \/ Timer(Ctrl(TRUE)) \/ Timer(Ctrl(FALSE))
           \/ TimerClock(NoWrite) /\ UNCHANGED elapsed
    PROVE  Clocked'
<1>1. g_ticks' >= 0 BY DEF Clocked, IInv, Typed
<1>2. Reload[3] \in Nat \ {0} BY TimerAssumption
<1>3. count \in Nat BY DEF IInv, Typed
<1>4. (enable' => freq' = 3 /\ count' <= Reload[3]) /\ elapsed' \in Nat
  <2>1. CASE Timer(NoWrite)
    <3>1. enable => count' <= Reload[3] BY <1>2, <1>3, <2>1, Quiet
    <3>2. (enable' <=> enable) /\ freq' = freq /\ elapsed' \in Nat BY <2>1, Quiet
    <3> QED BY <3>1, <3>2 DEF Clocked
  <2>2. CASE Timer(Ack)
    <3>1. (enable' <=> enable) /\ freq' = freq /\ elapsed' \in Nat BY <2>2, Acked
    <3>2. enable => count' = IF count = Reload[3] THEN 0 ELSE count + 1 BY <2>2, Acked
    <3>3. enable => count' <= Reload[3] BY <1>2, <1>3, <3>2 DEF Clocked
    <3> QED BY <3>1, <3>3 DEF Clocked
  <2>3. CASE Timer(Ctrl(TRUE)) BY <2>3, On
  <2>4. CASE Timer(Ctrl(FALSE)) BY <2>4, Off
  <2>5. CASE TimerClock(NoWrite) /\ UNCHANGED elapsed
    <3>1. NoWrite.reg = "none" BY DEF NoWrite
    <3>2. /\ enable' = enable /\ freq' = freq
          /\ count' = IF ~enable \/ Rollover THEN 0 ELSE count + 1
      BY <2>5, <3>1 DEF TimerClock
    <3>3. enable => freq = 3 /\ count <= Reload[3] /\ (~Rollover => count < Reload[3])
      BY <1>2, <1>3 DEF Clocked, Rollover
    <3>4. enable => count' <= Reload[3] BY <1>2, <1>3, <3>2, <3>3
    <3> QED BY <2>5, <3>2, <3>3, <3>4 DEF Clocked
  <2> QED BY <2>1, <2>2, <2>3, <2>4, <2>5
<1> QED BY <1>1, <1>4 DEF Clocked

\* A step of main or of a handler that writes nothing.
LEMMA ClockedQuiet ==
    ASSUME IInv, Clocked, pc \notin WritesAt, g_ticks' \in {g_ticks, g_ticks + 1, 0},
           UNCHANGED held, Timer(NoWrite) \/ (TimerClock(NoWrite) /\ UNCHANGED elapsed)
    PROVE  Clocked'
<1>1. ~held' BY DEF Clocked
<1> QED BY <1>1, ClockedKept

LEMMA ClockedWrite ==
    ASSUME IInv, Clocked, NEW p \in WritesAt, NEW w \in {Ack, Ctrl(TRUE), Ctrl(FALSE)},
           NEW next, WriteTimer(p, w, next)
    PROVE  Clocked'
<1>1. Timer(w) /\ g_ticks' = g_ticks /\ (held' => pc' = p) BY DEF WriteTimer
<1> QED BY <1>1, ClockedKept

LEMMA ClockedHandlers == ASSUME IInv, Clocked, Interrupt \/ Handlers PROVE Clocked'
<1> USE DEF WritesAt
<1>1. CASE Interrupt BY <1>1, ClockedKept DEF Interrupt, Inside
<1>2. CASE Acknowledge BY <1>2, ClockedWrite DEF Acknowledge
<1>3. CASE Count BY <1>3, ClockedQuiet DEF Count, Runs, To, Inside
<1>4. CASE Poll BY <1>4, ClockedQuiet DEF Poll, Runs, To, Inside
<1>5. CASE ReadByte BY <1>5, ClockedQuiet DEF ReadByte, Runs, To
<1>6. CASE StoreByte BY <1>6, ClockedQuiet DEF StoreByte, Runs, To, Inside
<1>7. CASE Rte BY <1>7, ClockedQuiet DEF Rte, Runs, Inside
<1> QED BY <1>1, <1>2, <1>3, <1>4, <1>5, <1>6, <1>7 DEF Handlers

LEMMA ClockedMask ==
    ASSUME IInv, Clocked, NEW p, p \notin WritesAt, NEW mask, NEW next,
           SetInterrupts(p, mask, next)
    PROVE  Clocked'
BY ClockedQuiet DEF SetInterrupts, Runs, To, Inside

LEMMA ClockedNote ==
    ASSUME IInv, Clocked, NEW p, p \notin WritesAt, NEW noted, NEW next,
           Note(p, noted, next) \/ Turns(p)
    PROVE  Clocked'
BY ClockedQuiet DEF Note, Turns, Runs, To, Inside

LEMMA ClockedTimerTest == ASSUME IInv, Clocked, TimerTest PROVE Clocked'
<1> USE DEF WritesAt
<1>1. CASE \/ SetInterrupts("irqtest", Masked, "zero_1")
           \/ SetInterrupts("unmask_1", Open, "first")
           \/ SetInterrupts("mask_1", Masked, "off_1")
  BY <1>1, ClockedMask
<1>2. CASE ZeroTicks("zero_1", "on_1") BY <1>2, ClockedQuiet DEF ZeroTicks, Runs, To
<1>3. CASE \/ WriteTimer("on_1", Ctrl(TRUE), "masked")
           \/ WriteTimer("off_1", Ctrl(FALSE), "freeze")
  BY <1>3, ClockedWrite
<1>4. CASE \/ Turns("masked") \/ Turns("sleep") \/ Turns("frozen")
           \/ Note("first", [main EXCEPT !.prev = g_ticks], "sleep")
           \/ Note("freeze", [main EXCEPT !.prev = g_ticks], "frozen")
  BY <1>4, ClockedNote
<1>5. CASE Over("masked", [main EXCEPT !.seen = pending], "unmask_1")
  BY <1>5, ClockedNote DEF Over
<1>6. CASE Over("sleep", Sleeping, IF main.round < 2 THEN "sleep" ELSE "mask_1")
  <2>1. \E next \in {"sleep", "mask_1"} : Note("sleep", Sleeping, next) BY <1>6 DEF Over
  <2> QED BY <2>1, ClockedNote
<1>7. CASE Over("frozen", [main EXCEPT !.passed =
                main.seen /\ main.climbing /\ g_ticks = main.prev /\ g_ticks > 0], "flush")
  BY <1>7, ClockedNote DEF Over
<1> QED BY <1>1, <1>2, <1>3, <1>4, <1>5, <1>6, <1>7 DEF TimerTest

LEMMA ClockedUartTest == ASSUME IInv, Clocked, UartTest PROVE Clocked'
<1> USE DEF WritesAt
<1>1. CASE Flush BY <1>1, ClockedQuiet DEF Flush, Runs, To
<1>2. CASE Flushed BY <1>2, ClockedQuiet DEF Flushed, Runs, To
<1>3. CASE \/ WriteTimer("on_2", Ctrl(TRUE), "ier_on")
           \/ WriteTimer("off_2", Ctrl(FALSE), "mask_2")
  BY <1>3, ClockedWrite
<1>4. CASE SwitchIer("ier_on", TRUE, "unmask_2") \/ SwitchIer("ier_off", FALSE, "off_2")
  BY <1>4, ClockedQuiet DEF SwitchIer, Runs, To
<1>5. CASE \/ SetInterrupts("unmask_2", Open, "loop")
           \/ SetInterrupts("mask_2", Masked, "report")
  BY <1>5, ClockedMask
<1>6. CASE Guard BY <1>6, ClockedQuiet DEF Guard, Runs, To, Inside
<1>7. CASE GuardOver BY <1>7, ClockedQuiet DEF GuardOver, Runs, To, Inside
<1>8. CASE Report BY <1>8, ClockedQuiet DEF Report, Runs, To, Inside
<1> QED BY <1>1, <1>2, <1>3, <1>4, <1>5, <1>6, <1>7, <1>8 DEF UartTest

LEMMA ClockedSweep == ASSUME IInv, Clocked, Sweep PROVE Clocked'
<1> USE DEF WritesAt
<1>1. CASE \/ SetInterrupts("sweep", Masked, "zero_s")
           \/ SetInterrupts("unmask_s", Open, "read")
           \/ SetInterrupts("mask_s", Masked, "off_s")
  BY <1>1, ClockedMask
<1>2. CASE ZeroTicks("zero_s", "on_s") BY <1>2, ClockedQuiet DEF ZeroTicks, Runs, To
<1>3. CASE \/ WriteTimer("on_s", Ctrl(TRUE), "unmask_s")
           \/ WriteTimer("off_s", Ctrl(FALSE), "ms")
  BY <1>3, ClockedWrite
<1>4. CASE Turns("read") BY <1>4, ClockedNote
<1>5. CASE Over("read", main, "mask_s") BY <1>5, ClockedNote DEF Over
<1>6. CASE Note("ms", [main EXCEPT !.round = @ + 1],
                IF main.round < 2 THEN "sweep" ELSE "swept")
  BY <1>6, ClockedNote
<1> QED BY <1>1, <1>2, <1>3, <1>4, <1>5, <1>6 DEF Sweep

LEMMA ClockedInit == Init => Clocked
BY DEF Init, TimerInit, Clocked

LEMMA ClockedSteps == IInv /\ Clocked /\ [Next]_vars => Clocked'
<1> SUFFICES ASSUME IInv, Clocked, [Next]_vars PROVE Clocked' OBVIOUS
<1>1. CASE UNCHANGED vars
  <2>1. UNCHANGED <<pc, held, enable, freq, count, g_ticks, elapsed>>
    BY <1>1 DEF vars, cpuVars, timerVars
  <2> QED BY <2>1 DEF Clocked
<1> QED BY <1>1, ClockedHandlers, ClockedTimerTest, ClockedUartTest, ClockedSweep DEF Next

-----------------------------------------------------------------------------
\* Whoever is interrupted, main stays where it is, and was not masked.
LEMMA MainWaits ==
    ASSUME IInv, RxInv, Interrupt \/ Handlers
    PROVE  /\ MainPc' = MainPc /\ MainPc \in MainPcs \ MaskedAt
           /\ Interrupt \/ Len(frames) > 0
<1>1. DOMAIN frames = 1 .. Len(frames) /\ Len(frames) \in 0 .. 2
  BY LenProperties DEF RxInv, Stack
<1>2. Len(frames) > 0 => MainPc = frames[1].pc /\ MainPc \in MainPcs \ MaskedAt
  <2>1. Len(frames) > 0 => 1 \in DOMAIN frames BY <1>1
  <2>2. Len(frames) > 0 => MainPc = frames[1].pc /\ frames[1].pc \in MainPcs
    BY <1>1 DEF MainPc, RxInv, Stack
  <2> QED BY <2>1, <2>2 DEF IInv, HandlerAlone
<1>3. CASE Interrupt
  <2> DEFINE frame == [pc |-> pc, level |-> level]
  <2>1. Ipl > level /\ frames' = Append(frames, frame) BY <1>3 DEF Interrupt
  <2>2. level # 7 BY <2>1 DEF Ipl, TimerLevel, UartLevel
  <2>3. frames \in Seq(Frame) /\ pc \in Pcs /\ frame \in Frame
    BY DEF IInv, Typed, RxInv, Stack, Frame
  <2>4. /\ Len(frames') = Len(frames) + 1
        /\ \A i \in 1 .. Len(frames) : frames'[i] = frames[i]
        /\ frames'[Len(frames) + 1] = frame
    BY <2>1, <2>3, AppendProperties
  <2>5. CASE Len(frames) = 0
    <3>1. pc \in MainPcs \ MaskedAt BY <2>2, <2>5 DEF RxInv, Stack, IInv, MainMasks
    <3>2. Len(frames') = 1 /\ frames'[1].pc = pc BY <2>4, <2>5
    <3> QED BY <1>3, <2>5, <3>1, <3>2 DEF MainPc
  <2>6. CASE Len(frames) > 0
    <3>1. Len(frames') # 0 /\ frames'[1] = frames[1] BY <1>1, <2>4, <2>6
    <3> QED BY <1>2, <2>6, <3>1 DEF MainPc
  <2> QED BY <1>1, <2>5, <2>6
<1>4. CASE Rte
  <2>1. Len(frames) \in {1, 2} /\ Len(frames') = Len(frames) - 1 BY <1>4, Returned
  <2>2. CASE Len(frames) = 1
    <3>1. Len(frames') = 0 /\ pc' = frames[1].pc BY <1>4, <2>1, <2>2, Returned
    <3> QED BY <1>2, <2>2, <3>1 DEF MainPc
  <2>3. CASE Len(frames) = 2
    <3>1. Len(frames') = 1 /\ frames'[1] = frames[1] BY <1>4, <2>1, <2>3, Returned
    <3> QED BY <1>2, <2>3, <3>1 DEF MainPc
  <2> QED BY <2>1, <2>2, <2>3
<1>5. CASE Acknowledge \/ Count \/ Poll \/ ReadByte \/ StoreByte
  <2>1. UNCHANGED frames /\ pc \in TimerIsr \cup UartIsr
    BY <1>5 DEF Acknowledge, WriteTimer, Count, Poll, ReadByte, StoreByte, Runs, To,
                TimerIsr, UartIsr
  <2>2. pc \notin MainPcs BY <2>1, Places
  <2>3. Len(frames) > 0 BY <1>1, <2>2 DEF RxInv, Stack
  <2> QED BY <1>2, <2>1, <2>3 DEF MainPc
<1> QED BY <1>3, <1>4, <1>5 DEF Handlers

-----------------------------------------------------------------------------
(* The verdict of irqtest.                                                 *)

Mains == [wait : Nat, round : Nat, prev : Nat, seen : BOOLEAN, climbing : BOOLEAN,
          passed : BOOLEAN, guard : Nat]

\* Main counts with interrupts on; it has switched them off again; it has
\* seen the masked tick; nothing has stood still; the timer has passed; the
\* guard has been left.
Running == {"masked", "unmask_1", "first", "sleep"}
Slept == {"mask_1", "off_1", "freeze", "frozen"}
Seen == {"unmask_1", "first", "sleep"} \cup Slept
Early == {"irqtest", "zero_1", "on_1", "masked"} \cup Seen
Later == {"flush", "on_2", "ier_on", "unmask_2", "loop", "ier_off", "off_2", "mask_2", "report"}
Left == {"ier_off", "off_2", "mask_2", "report"}

\* The turns of a loop are clocks of the timer: since the loop began it has
\* rolled over, or has counted as far as the loop.
HonestAt(p) ==
    /\ p \in Running => enable
    /\ p \in {"irqtest", "zero_1", "on_1"} => main.wait = 0
    /\ p = "masked" => pending \/ count >= main.wait
    /\ p \in Early => main.climbing
    /\ p \in Seen => main.seen
    /\ p = "sleep" => /\ main.prev <= g_ticks
                      /\ raised = main.prev => count >= main.wait
    /\ p \in Slept => g_ticks > 0
    /\ p = "frozen" => g_ticks = main.prev
    /\ p \in Later => main.passed
    /\ p \in Left => g_rx_done \/ main.guard = GuardLimit
    /\ p \in Emptied /\ g_rx_done => g_rx_count > 0
    /\ p \in {"report", "done"} => level = Masked
    /\ p = "done" => main.passed \/ main.guard = GuardLimit \/ g_ticks = 0

HonestInv ==
    /\ main \in Mains /\ HonestAt(MainPc)
    /\ MainPc \in {"report", "done"} => Len(frames) = 0
    /\ pc \in {"first", "sleep"} => level = Open

\* What a handler, and being interrupted, can do to what main looks at.
LEMMA Handled ==
    ASSUME IInv, RxInv, Clocked, Interrupt \/ Handlers
    PROVE  /\ main' = main /\ enable' = enable
           /\ g_ticks' \in {g_ticks, g_ticks + 1}
           /\ g_rx_count' \in {g_rx_count, g_rx_count + 1}
           /\ g_rx_done => g_rx_done'
           /\ g_rx_done' => g_rx_done \/ g_rx_count' = g_rx_count + 1
           /\ pc' \in {"first", "sleep"} => level' = Open
           /\ enable => \/ raised' = raised + 1
                        \/ raised' = raised /\ (pending \/ InIsr \/ count' = count + 1)
<1>1. Timer(NoWrite) \/ (Timer(Ack) /\ pc = "timer_isr")
  BY DEF Interrupt, Handlers, Acknowledge, WriteTimer, Count, Poll, ReadByte, StoreByte,
         Rte, Inside, Runs
<1>2. /\ main' = main
      /\ g_ticks' \in {g_ticks, g_ticks + 1}
      /\ \/ UNCHANGED <<g_rx_done, g_rx_count>>
         \/ (g_rx_done => g_rx_done') /\ g_rx_count' = g_rx_count + 1
  BY DEF Interrupt, Handlers, Acknowledge, WriteTimer, Count, Poll, ReadByte, StoreByte,
         Rte, Inside, rxVars
<1>3. pc' \in {"first", "sleep"} => level' = Open
  <2> SUFFICES ASSUME pc' \in {"first", "sleep"} PROVE level' = Open OBVIOUS
  <2>1. pc' \notin UartIsr /\ pc' \notin TimerIsr BY DEF UartIsr, TimerIsr
  <2>2. Rte
    BY <2>1 DEF Interrupt, Handlers, Acknowledge, WriteTimer, Count, Poll, ReadByte, StoreByte,
                Runs, To, UartIsr, TimerIsr
  <2>3. Len(frames) = 1
    <3>1. Len(frames) \in {1, 2} /\ pc' = frames[Len(frames)].pc BY <2>2, Returned
    <3>2. Len(frames) = 2 => frames[2].pc \in UartIsr BY DEF RxInv, Stack
    <3> QED BY <2>1, <3>1, <3>2
  <2>4. level' = frames[1].level BY <2>2, <2>3, Returned
  <2> QED BY <2>3, <2>4 DEF RxInv, Stack, Open
<1>4. CASE Timer(NoWrite)
  <2>1. enable' = enable BY <1>4, Quiet
  <2>2. enable => \/ raised' = raised + 1
                  \/ raised' = raised /\ (pending \/ InIsr \/ count' = count + 1)
    <3>1. pending \in BOOLEAN /\ raised \in Int BY DEF IInv, Typed
    <3> QED BY <1>4, <3>1, Quiet
  <2> QED BY <1>2, <1>3, <2>1, <2>2
<1>5. CASE Timer(Ack) /\ pc = "timer_isr"
  <2>1. enable' = enable /\ raised' = raised BY <1>5, Acked
  <2>2. pending \/ InIsr BY <1>5 DEF IInv, HandlerAlone, InIsr
  <2> QED BY <1>2, <1>3, <2>1, <2>2
<1> QED BY <1>1, <1>4, <1>5

LEMMA HonestHandlers ==
    ASSUME IInv, RxInv, Clocked, HonestInv, Interrupt \/ Handlers
    PROVE  HonestInv'
<1> DEFINE m == MainPc
<1>1. MainPc' = m /\ m \notin MaskedAt BY MainWaits
<1>2. m \notin {"report", "done"}
  <2> SUFFICES ASSUME m \in {"report", "done"} PROVE FALSE OBVIOUS
  <2>1. Len(frames) = 0 /\ level = 7 BY DEF HonestInv, HonestAt, Masked
  <2>2. Interrupt BY <2>1, MainWaits
  <2> QED BY <2>1, <2>2 DEF Interrupt, Ipl, TimerLevel, UartLevel
<1>3. main' = main /\ main \in Mains BY Handled DEF HonestInv
<1>4. g_ticks' >= g_ticks /\ g_ticks' \in Int /\ g_ticks \in Int /\ g_rx_count \in Nat /\ raised \in Int /\ count \in Nat
  <2>1. g_ticks' \in {g_ticks, g_ticks + 1} BY Handled
  <2>2. g_ticks \in Int /\ raised \in Int /\ count \in Nat BY DEF IInv, Typed
  <2>3. g_rx_count \in Nat BY DEF RxInv, RxTyped
  <2> QED BY <2>1, <2>2, <2>3
<1> HIDE DEF m
<1>5. HonestAt(m) BY DEF HonestInv, m
<1>6. m \in Running => enable' BY <1>5, Handled DEF HonestAt
<1>7. m = "sleep" => main'.prev <= g_ticks' /\ (raised' = main'.prev => count' >= main'.wait)
  <2> SUFFICES ASSUME m = "sleep"
               PROVE  main.prev <= g_ticks' /\ (raised' = main.prev => count' >= main.wait)
    BY <1>3
  <2>1. enable /\ main.prev <= g_ticks /\ (raised = main.prev => count >= main.wait)
    BY <1>5 DEF HonestAt, Running
  <2>2. main.prev \in Nat /\ main.wait \in Nat BY <1>3 DEF Mains
  <2>3. main.prev <= g_ticks' BY <1>4, <2>1, <2>2
  <2>6. \/ raised' = raised + 1
        \/ raised' = raised /\ (pending \/ InIsr \/ count' = count + 1)
    BY <2>1, Handled
  <2>4. CASE pending \/ InIsr
    <3>1. raised >= g_ticks + 1 BY <1>4, <2>4 DEF IInv, TicksCounted
    <3>2. raised' # main.prev BY <1>4, <2>1, <2>2, <2>6, <3>1
    <3> QED BY <2>3, <3>2
  <2>5. CASE ~(pending \/ InIsr)
    <3>1. raised = g_ticks BY <1>4, <2>5 DEF IInv, TicksCounted
    <3>2. raised' = raised + 1 \/ (raised' = raised /\ count' = count + 1)
      BY <2>5, <2>6
    <3> QED BY <1>4, <2>1, <2>2, <2>3, <3>1, <3>2
  <2> QED BY <2>4, <2>5
<1>8. m \in Slept => g_ticks' > 0 BY <1>4, <1>5, Handled DEF HonestAt
<1>9. m \in Left => g_rx_done' \/ main'.guard = GuardLimit
  BY <1>3, <1>5, Handled DEF HonestAt
<1>10. m \in Emptied /\ g_rx_done' => g_rx_count' > 0
  <2>1. m \in Emptied /\ g_rx_done => g_rx_count > 0 BY <1>5 DEF HonestAt
  <2> QED BY <1>4, <2>1, Handled
<1>11. HonestAt(m)'
  <2>1. m \notin {"irqtest", "zero_1", "on_1", "masked", "frozen"} BY <1>1 DEF MaskedAt
  <2>2. (m \in Early => main'.climbing) /\ (m \in Seen => main'.seen) /\ (m \in Later => main'.passed)
    BY <1>3, <1>5 DEF HonestAt
  <2>3. m' = m BY <1>1 DEF m
  <2> QED BY <1>2, <1>6, <1>7, <1>8, <1>9, <1>10, <2>1, <2>2, <2>3 DEF HonestAt
<1>12. pc' \in {"first", "sleep"} => level' = Open BY Handled
<1>13. HonestAt(MainPc)' BY <1>11 DEF m
<1>14. MainPc' \notin {"report", "done"} BY <1>1, <1>2
<1> QED BY <1>3, <1>12, <1>13, <1>14 DEF HonestInv

\* A step of main: what is to be shown is HonestAt where it goes.
LEMMA HonestMain ==
    ASSUME RxInv, pc \in MainPcs, UNCHANGED frames, NEW next \in MainPcs, pc' = next,
           main' \in Mains, HonestAt(next)', next \in {"first", "sleep"} => level' = Open
    PROVE  HonestInv'
<1>1. Len(frames') = 0 /\ MainPc' = next BY AtMain DEF MainPc
<1> QED BY <1>1 DEF HonestInv

\* At p, main's own state, and what is known there.
LEMMA AtHonest ==
    ASSUME IInv, RxInv, HonestInv, pc \in MainPcs
    PROVE  /\ HonestAt(pc) /\ main \in Mains /\ level \in {0, 7} /\ ~InIsr
           /\ raised = g_ticks + (IF pending THEN 1 ELSE 0)
           /\ g_ticks \in Int /\ raised \in Int /\ count \in Nat /\ pending \in BOOLEAN
           /\ g_rx_count \in Nat
           /\ pc \in {"first", "sleep"} => level = Open
<1>1. MainPc = pc /\ level \in {0, 7} BY AtMain
<1>2. ~InIsr BY Places DEF InIsr, TimerIsr
<1>3. raised = g_ticks + (IF pending THEN 1 ELSE 0) BY <1>2 DEF IInv, TicksCounted, Typed
<1> QED BY <1>1, <1>2, <1>3 DEF HonestInv, IInv, Typed, RxInv, RxTyped

\* Where main has nothing to note, and what it has noted still holds.
Calm == {"zero_1", "first", "off_1", "freeze", "flush", "on_2", "ier_on", "unmask_2",
         "loop", "off_2", "mask_2"}

LEMMA HonestCalm ==
    ASSUME IInv, RxInv, HonestInv, pc \in MainPcs, UNCHANGED <<frames, main>>,
           NEW next \in Calm, pc' = next,
           g_ticks' = g_ticks, UNCHANGED <<g_rx_done, g_rx_count>> \/ (~g_rx_done' /\ next = "on_2"),
           \/ next = pc
           \/ next = "zero_1" /\ pc = "irqtest"
           \/ next = "first" /\ pc = "unmask_1" /\ enable' = enable /\ level' = Open
           \/ next = "off_1" /\ pc = "mask_1"
           \/ next = "freeze" /\ pc = "off_1"
           \/ next = "on_2" /\ pc = "flush" /\ ~g_rx_done'
           \/ next = "ier_on" /\ pc = "on_2"
           \/ next = "unmask_2" /\ pc = "ier_on"
           \/ next = "loop" /\ pc = "unmask_2"
           \/ next = "off_2" /\ pc = "ier_off"
           \/ next = "mask_2" /\ pc = "off_2",
           next # "first" \/ pc # next
    PROVE  HonestInv'
<1>1. HonestAt(pc) /\ main \in Mains BY AtHonest
<1>2. next \in MainPcs BY DEF Calm, Pcs, MaskedAt, TimerIsr, UartIsr, MainPcs
<1>3. next = "first" => enable' /\ level' = Open BY <1>1 DEF HonestAt, Running
<1>4. CASE next \in {"zero_1", "first"}
  <2>1. pc \in Early /\ (next = "zero_1" => main.wait = 0) /\ (next = "first" => pc \in Seen)
    BY <1>1, <1>4 DEF HonestAt, Early, Seen
  <2>2. main'.climbing /\ (next = "zero_1" => main'.wait = 0) /\ (next = "first" => main'.seen)
    BY <1>1, <2>1 DEF HonestAt
  <2>3. HonestAt(next)'
    BY <1>3, <1>4, <2>2 DEF HonestAt, Running, Slept, Seen, Early, Later, Left, Emptied
  <2> QED BY <1>1, <1>2, <1>3, <1>4, <2>3, HonestMain
<1>5. CASE next \in {"off_1", "freeze"}
  <2>1. pc \in Early /\ pc \in Seen /\ pc \in Slept BY <1>5 DEF Early, Seen, Slept
  <2>2. main'.climbing /\ main'.seen /\ g_ticks' > 0 BY <1>1, <2>1 DEF HonestAt
  <2>3. HonestAt(next)'
    BY <1>5, <2>2 DEF HonestAt, Running, Slept, Seen, Early, Later, Left, Emptied
  <2> QED BY <1>1, <1>2, <1>5, <2>3, HonestMain
<1>6. CASE next \in Calm \ {"zero_1", "first", "off_1", "freeze"}
  <2>1. pc \in Later /\ (next \in Emptied => pc \in Emptied \/ ~g_rx_done')
        /\ (next \in Left => pc \in Left)
    BY <1>6 DEF Later, Emptied, Left, Calm
  <2>2. main'.passed /\ (next \in Emptied /\ g_rx_done' => g_rx_count' > 0)
        /\ (next \in Left => g_rx_done' \/ main'.guard = GuardLimit)
    BY <1>1, <2>1 DEF HonestAt, Left
  <2>3. HonestAt(next)'
    BY <1>6, <2>2 DEF HonestAt, Calm, Running, Slept, Seen, Early, Later, Left, Emptied
  <2> QED BY <1>1, <1>2, <1>6, <2>3, HonestMain DEF Calm
<1>7. next \in Calm OBVIOUS
<1> QED BY <1>4, <1>5, <1>6, <1>7

LEMMA HonestTimerTest ==
    ASSUME Reload[3] < DelayTurns, IInv, RxInv, Clocked, HonestInv, TimerTest
    PROVE  HonestInv'
<1> USE DEF Pcs, MaskedAt, TimerIsr, UartIsr, MainPcs
<1>d. DelayTurns \in Nat /\ Reload[3] \in Nat BY InterruptsAssumption, TimerAssumption
<1>1. CASE SetInterrupts("irqtest", Masked, "zero_1")
  BY <1>1, HonestCalm DEF SetInterrupts, Runs, To, Inside, rxVars, Calm
<1>2. CASE ZeroTicks("zero_1", "on_1")
  <2>1. pc = "zero_1" /\ pc' = "on_1" /\ UNCHANGED <<frames, main>>
    BY <1>2 DEF ZeroTicks, Runs, To
  <2>2. HonestAt("zero_1") /\ main \in Mains BY <2>1, AtHonest
  <2>3. HonestAt("on_1")'
    BY <2>1, <2>2 DEF HonestAt, Running, Slept, Seen, Early, Later, Left, Emptied
  <2> QED BY <2>1, <2>2, <2>3, HonestMain
<1>3. CASE WriteTimer("on_1", Ctrl(TRUE), "masked")
  <2>1. pc = "on_1" /\ pc' \in {"on_1", "masked"} /\ UNCHANGED <<frames, main>>
        /\ Timer(Ctrl(TRUE))
    BY <1>3 DEF WriteTimer, Runs
  <2>2. HonestAt("on_1") /\ main \in Mains BY <2>1, AtHonest
  <2>3. enable' /\ count' \in Nat BY <2>1, On
  <2>4. main.wait = 0 /\ main.climbing BY <2>2 DEF HonestAt, Early
  <2>5. HonestAt("on_1")' /\ HonestAt("masked")'
    BY <2>1, <2>3, <2>4 DEF HonestAt, Running, Slept, Seen, Early, Later, Left, Emptied
  <2> QED BY <2>1, <2>2, <2>5, HonestMain
<1>4. CASE Turns("masked")
  <2>1. /\ pc = "masked" /\ pc' = "masked" /\ UNCHANGED frames /\ Timer(NoWrite)
        /\ main' = [main EXCEPT !.wait = @ + 1]
    BY <1>4 DEF Turns, Runs, To, Inside
  <2>2. /\ HonestAt("masked") /\ main \in Mains /\ count \in Nat
    BY <2>1, AtHonest
  <2>3. /\ main' \in Mains /\ main'.wait = main.wait + 1 /\ main'.climbing = main.climbing
        /\ main.wait \in Nat
    BY <2>1, <2>2 DEF Mains
  <2>4. enable /\ main.climbing /\ (pending \/ count >= main.wait)
    BY <2>2 DEF HonestAt, Running, Early
  <2>5. enable' /\ (pending' \/ count' >= main'.wait)
    BY <2>1, <2>2, <2>3, <2>4, Quiet
  <2>6. HonestAt("masked")'
    BY <2>3, <2>4, <2>5 DEF HonestAt, Running, Slept, Seen, Early, Later, Left, Emptied
  <2> QED BY <2>1, <2>3, <2>6, HonestMain
<1>5. CASE Over("masked", [main EXCEPT !.seen = pending], "unmask_1")
  <2>1. /\ pc = "masked" /\ pc' = "unmask_1" /\ UNCHANGED frames /\ Timer(NoWrite)
        /\ main' = [[main EXCEPT !.seen = pending] EXCEPT !.wait = 0]
        /\ main.wait >= DelayTurns
    BY <1>5 DEF Over, Note, Runs, To, Inside
  <2>2. HonestAt("masked") /\ main \in Mains /\ count \in Nat /\ pending \in BOOLEAN
    BY <2>1, AtHonest
  <2>3. enable /\ main.climbing /\ (pending \/ count >= main.wait)
    BY <2>2 DEF HonestAt, Running, Early
  <2>4. pending
    <3>1. count <= Reload[3] /\ main.wait \in Nat BY <2>2, <2>3 DEF Clocked, Mains
    <3> QED BY <1>d, <2>1, <2>2, <2>3, <3>1
  <2>5. main' \in Mains /\ main'.seen /\ main'.climbing = main.climbing
    BY <2>1, <2>2, <2>4 DEF Mains
  <2>6. enable' BY <2>1, <2>3, Quiet
  <2>7. HonestAt("unmask_1")'
    BY <2>3, <2>5, <2>6 DEF HonestAt, Running, Slept, Seen, Early, Later, Left, Emptied
  <2> QED BY <2>1, <2>5, <2>7, HonestMain
<1>6. CASE SetInterrupts("unmask_1", Open, "first")
  <2>1. enable' = enable BY <1>6, Quiet DEF SetInterrupts, Inside
  <2> QED BY <1>6, <2>1, HonestCalm DEF SetInterrupts, Runs, To, Inside, rxVars, Calm
<1>7. CASE Note("first", [main EXCEPT !.prev = g_ticks], "sleep")
  <2>1. /\ pc = "first" /\ pc' = "sleep" /\ UNCHANGED <<frames, level, g_ticks>>
        /\ Timer(NoWrite)
        /\ main' = [[main EXCEPT !.prev = g_ticks] EXCEPT !.wait = 0]
    BY <1>7 DEF Note, Runs, To, Inside
  <2>2. HonestAt("first") /\ main \in Mains /\ g_ticks \in Int /\ level = Open
    BY <2>1, AtHonest
  <2>3. g_ticks \in Nat BY <2>2 DEF Clocked
  <2>4. /\ main' \in Mains /\ main'.prev = g_ticks' /\ main'.wait = 0
        /\ main'.seen = main.seen /\ main'.climbing = main.climbing
    BY <2>1, <2>2, <2>3 DEF Mains
  <2>5. enable' /\ main.seen /\ main.climbing
    BY <2>1, <2>2, Quiet DEF HonestAt, Running, Seen, Early
  <2>6. count' \in Nat BY StepKeeps, <1>7 DEF IInv, Typed, Next, TimerTest
  <2>7. main'.prev <= g_ticks' /\ count' >= main'.wait BY <2>1, <2>3, <2>4, <2>6
  <2>8. HonestAt("sleep")'
    BY <2>4, <2>5, <2>7 DEF HonestAt, Running, Slept, Seen, Early, Later, Left, Emptied
  <2> QED BY <2>1, <2>2, <2>4, <2>8, HonestMain
<1>8. CASE Turns("sleep")
  <2>1. /\ pc = "sleep" /\ pc' = "sleep" /\ UNCHANGED <<frames, level, g_ticks>>
        /\ Timer(NoWrite) /\ main' = [main EXCEPT !.wait = @ + 1]
    BY <1>8 DEF Turns, Runs, To, Inside
  <2>2. /\ HonestAt("sleep") /\ main \in Mains /\ g_ticks \in Int /\ level = Open
        /\ raised = g_ticks + (IF pending THEN 1 ELSE 0) /\ pending \in BOOLEAN
        /\ raised \in Int /\ count \in Nat
    BY <2>1, AtHonest
  <2>3. /\ main' \in Mains /\ main'.prev = main.prev /\ main'.wait = main.wait + 1
        /\ main'.seen = main.seen /\ main'.climbing = main.climbing
        /\ main.prev \in Nat /\ main.wait \in Nat
    BY <2>1, <2>2 DEF Mains
  <2>4. /\ enable /\ main.seen /\ main.climbing /\ main.prev <= g_ticks
        /\ raised = main.prev => count >= main.wait
    BY <2>2 DEF HonestAt, Running, Seen, Early
  <2>5. \/ raised' = raised + (IF pending THEN 0 ELSE 1) /\ count = Reload[3] /\ count' = 0
        \/ raised' = raised /\ count' = count + 1
    BY <2>1, <2>4, Quiet
  <2>6. raised' = main.prev => count' >= main.wait + 1
    BY <2>2, <2>3, <2>4, <2>5
  <2>7. enable' BY <2>1, <2>4, Quiet
  <2>8. HonestAt("sleep")'
    BY <2>1, <2>3, <2>4, <2>6, <2>7
    DEF HonestAt, Running, Slept, Seen, Early, Later, Left, Emptied
  <2> QED BY <2>1, <2>2, <2>3, <2>8, HonestMain
<1>9. CASE Over("sleep", Sleeping, IF main.round < 2 THEN "sleep" ELSE "mask_1")
  <2>1. /\ pc = "sleep" /\ UNCHANGED <<frames, level, g_ticks>>
        /\ pc' \in {"sleep", "mask_1"}
        /\ Timer(NoWrite) /\ main' = [Sleeping EXCEPT !.wait = 0]
        /\ main.wait >= DelayTurns /\ (held \/ Ipl <= level)
    BY <1>9 DEF Over, Note, Runs, To, Inside
  <2>2. /\ HonestAt("sleep") /\ main \in Mains /\ g_ticks \in Int /\ level = Open
        /\ raised = g_ticks + (IF pending THEN 1 ELSE 0) /\ pending \in BOOLEAN
        /\ raised \in Int /\ count \in Nat
    BY <2>1, AtHonest
  <2>3. ~pending
    <3>1. ~held BY <2>1 DEF Clocked, WritesAt
    <3> QED BY <2>1, <2>2, <3>1 DEF Ipl, Open, TimerLevel
  <2>4. /\ enable /\ main.seen /\ main.climbing /\ main.prev <= g_ticks
        /\ raised = main.prev => count >= main.wait
    BY <2>2 DEF HonestAt, Running, Seen, Early
  <2>5. g_ticks > main.prev /\ main.prev \in Nat
    <3>1. main.prev \in Nat /\ main.wait \in Nat BY <2>2 DEF Mains
    <3>2. count <= Reload[3] BY <2>4 DEF Clocked
    <3> QED BY <1>d, <2>1, <2>2, <2>3, <2>4, <3>1, <3>2
  <2>6. g_ticks \in Nat /\ g_ticks > 0 BY <2>2, <2>5
  <2>7. /\ main' \in Mains /\ main'.prev = g_ticks' /\ main'.wait = 0
        /\ main'.seen = main.seen /\ main'.climbing
    <3>1. Sleeping = [[[main EXCEPT !.round = @ + 1] EXCEPT !.climbing = TRUE] EXCEPT !.prev = g_ticks]
      BY <2>2, <2>4, <2>5 DEF Sleeping, Mains
    <3>2. main.round + 1 \in Nat BY <2>2 DEF Mains
    <3>3. Sleeping \in Mains /\ Sleeping.prev = g_ticks /\ Sleeping.seen = main.seen
          /\ Sleeping.climbing
      BY <2>2, <2>6, <3>1, <3>2 DEF Mains
    <3> QED BY <2>1, <3>3 DEF Mains
  <2>8. enable' BY <2>1, <2>4, Quiet
  <2>9. count' \in Nat BY StepKeeps, <1>9 DEF IInv, Typed, Next, TimerTest
  <2>10. main'.prev <= g_ticks' /\ count' >= main'.wait /\ g_ticks' > 0
    BY <2>1, <2>6, <2>7, <2>9
  <2>11. HonestAt("sleep")' /\ HonestAt("mask_1")'
    BY <2>4, <2>7, <2>8, <2>10
    DEF HonestAt, Running, Slept, Seen, Early, Later, Left, Emptied
  <2> QED BY <2>1, <2>2, <2>7, <2>11, HonestMain
<1>10. CASE SetInterrupts("mask_1", Masked, "off_1")
  BY <1>10, HonestCalm DEF SetInterrupts, Runs, To, Inside, rxVars, Calm
<1>11. CASE WriteTimer("off_1", Ctrl(FALSE), "freeze")
  BY <1>11, HonestCalm DEF WriteTimer, Runs, rxVars, Calm
<1>12. CASE Note("freeze", [main EXCEPT !.prev = g_ticks], "frozen")
  <2>1. /\ pc = "freeze" /\ pc' = "frozen" /\ UNCHANGED <<frames, g_ticks>>
        /\ main' = [[main EXCEPT !.prev = g_ticks] EXCEPT !.wait = 0]
    BY <1>12 DEF Note, Runs, To, Inside
  <2>2. HonestAt("freeze") /\ main \in Mains /\ g_ticks \in Int BY <2>1, AtHonest
  <2>3. g_ticks \in Nat BY <2>2 DEF Clocked
  <2>4. /\ main' \in Mains /\ main'.prev = g_ticks'
        /\ main'.seen = main.seen /\ main'.climbing = main.climbing
    BY <2>1, <2>2, <2>3 DEF Mains
  <2>5. main.seen /\ main.climbing /\ g_ticks' > 0
    BY <2>1, <2>2 DEF HonestAt, Seen, Early, Slept
  <2>6. HonestAt("frozen")'
    BY <2>4, <2>5 DEF HonestAt, Running, Slept, Seen, Early, Later, Left, Emptied
  <2> QED BY <2>1, <2>4, <2>6, HonestMain
<1>13. CASE Turns("frozen")
  <2>1. /\ pc = "frozen" /\ pc' = "frozen" /\ UNCHANGED <<frames, g_ticks>>
        /\ main' = [main EXCEPT !.wait = @ + 1]
    BY <1>13 DEF Turns, Runs, To, Inside
  <2>2. HonestAt("frozen") /\ main \in Mains BY <2>1, AtHonest
  <2>3. /\ main' \in Mains /\ main'.prev = main.prev
        /\ main'.seen = main.seen /\ main'.climbing = main.climbing
    BY <2>1, <2>2 DEF Mains
  <2>4. HonestAt("frozen")'
    BY <2>1, <2>2, <2>3 DEF HonestAt, Running, Slept, Seen, Early, Later, Left, Emptied
  <2> QED BY <2>1, <2>3, <2>4, HonestMain
<1>14. CASE Over("frozen", [main EXCEPT !.passed =
                main.seen /\ main.climbing /\ g_ticks = main.prev /\ g_ticks > 0], "flush")
  <2>1. /\ pc = "frozen" /\ pc' = "flush" /\ UNCHANGED frames
        /\ main' = [[main EXCEPT !.passed = main.seen /\ main.climbing /\ g_ticks = main.prev
                                            /\ g_ticks > 0] EXCEPT !.wait = 0]
    BY <1>14 DEF Over, Note, Runs, To, Inside
  <2>2. HonestAt("frozen") /\ main \in Mains BY <2>1, AtHonest
  <2>3. main.seen /\ main.climbing /\ g_ticks = main.prev /\ g_ticks > 0
    BY <2>2 DEF HonestAt, Slept, Seen, Early
  <2>4. main' \in Mains /\ main'.passed
    <3>1. (main.seen /\ main.climbing /\ g_ticks = main.prev /\ g_ticks > 0) = TRUE BY <2>3
    <3>2. main' = [[main EXCEPT !.passed = TRUE] EXCEPT !.wait = 0] BY <2>1, <3>1, Zenon
    <3> QED BY <2>2, <3>2 DEF Mains
  <2>5. HonestAt("flush")'
    BY <2>4 DEF HonestAt, Running, Slept, Seen, Early, Later, Left, Emptied
  <2> QED BY <2>1, <2>4, <2>5, HonestMain
<1> QED
  BY <1>1, <1>2, <1>3, <1>4, <1>5, <1>6, <1>7, <1>8, <1>9, <1>10, <1>11, <1>12, <1>13, <1>14
  DEF TimerTest

LEMMA HonestUartTest ==
    ASSUME IInv, RxInv, Clocked, HonestInv, UartTest
    PROVE  HonestInv'
<1> USE DEF Pcs, MaskedAt, TimerIsr, UartIsr, MainPcs
<1>1. CASE Flush BY <1>1, HonestCalm DEF Flush, Runs, To, rxVars, Calm
<1>2. CASE Flushed
  <2>1. /\ pc = "flush" /\ pc' = "on_2" /\ UNCHANGED <<frames, main>> /\ ~g_rx_done'
    BY <1>2 DEF Flushed, Runs, To
  <2>2. HonestAt("flush") /\ main \in Mains BY <2>1, AtHonest
  <2>3. main'.passed BY <2>1, <2>2 DEF HonestAt, Later
  <2>4. HonestAt("on_2")'
    BY <2>1, <2>3 DEF HonestAt, Running, Slept, Seen, Early, Later, Left, Emptied
  <2> QED BY <2>1, <2>2, <2>4, HonestMain
<1>3. CASE WriteTimer("on_2", Ctrl(TRUE), "ier_on")
  BY <1>3, HonestCalm DEF WriteTimer, Runs, rxVars, Calm
<1>4. CASE SwitchIer("ier_on", TRUE, "unmask_2")
  BY <1>4, HonestCalm DEF SwitchIer, Runs, To, rxVars, Calm
<1>5. CASE SetInterrupts("unmask_2", Open, "loop")
  BY <1>5, HonestCalm DEF SetInterrupts, Runs, To, Inside, rxVars, Calm
<1>6. CASE Guard
  <2>1. /\ pc = "loop" /\ pc' = "loop" /\ UNCHANGED <<frames, g_rx_done, g_rx_count>>
        /\ main' = [main EXCEPT !.guard = @ + 1]
    BY <1>6 DEF Guard, Runs, To, Inside, rxVars
  <2>2. HonestAt("loop") /\ main \in Mains BY <2>1, AtHonest
  <2>3. main' \in Mains /\ main'.passed = main.passed BY <2>1, <2>2 DEF Mains
  <2>4. main.passed /\ (g_rx_done' => g_rx_count' > 0)
    BY <2>1, <2>2 DEF HonestAt, Later, Emptied
  <2>5. HonestAt("loop")'
    BY <2>3, <2>4 DEF HonestAt, Running, Slept, Seen, Early, Later, Left, Emptied
  <2> QED BY <2>1, <2>3, <2>5, HonestMain
<1>7. CASE GuardOver
  <2>1. /\ pc = "loop" /\ pc' = "ier_off" /\ UNCHANGED <<frames, main, g_rx_done, g_rx_count>>
        /\ g_rx_done \/ main.guard = GuardLimit
    BY <1>7 DEF GuardOver, Runs, To, Inside, rxVars
  <2>2. HonestAt("loop") /\ main \in Mains BY <2>1, AtHonest
  <2>3. /\ main'.passed /\ (g_rx_done' => g_rx_count' > 0)
        /\ g_rx_done' \/ main'.guard = GuardLimit
    BY <2>1, <2>2 DEF HonestAt, Later, Emptied
  <2>4. HonestAt("ier_off")'
    BY <2>3 DEF HonestAt, Running, Slept, Seen, Early, Later, Left, Emptied
  <2> QED BY <2>1, <2>2, <2>4, HonestMain
<1>8. CASE SwitchIer("ier_off", FALSE, "off_2")
  BY <1>8, HonestCalm DEF SwitchIer, Runs, To, rxVars, Calm
<1>9. CASE WriteTimer("off_2", Ctrl(FALSE), "mask_2")
  BY <1>9, HonestCalm DEF WriteTimer, Runs, rxVars, Calm
<1>10. CASE SetInterrupts("mask_2", Masked, "report")
  <2>1. /\ pc = "mask_2" /\ pc' = "report" /\ level' = Masked
        /\ UNCHANGED <<frames, main, g_rx_done, g_rx_count>>
    BY <1>10 DEF SetInterrupts, Runs, To, Inside, rxVars
  <2>2. HonestAt("mask_2") /\ main \in Mains BY <2>1, AtHonest
  <2>3. /\ main'.passed /\ (g_rx_done' => g_rx_count' > 0)
        /\ g_rx_done' \/ main'.guard = GuardLimit
    BY <2>1, <2>2 DEF HonestAt, Later, Emptied, Left
  <2>4. HonestAt("report")'
    BY <2>1, <2>3 DEF HonestAt, Running, Slept, Seen, Early, Later, Left, Emptied
  <2> QED BY <2>1, <2>2, <2>4, HonestMain
<1>11. CASE Report
  <2>1. /\ pc = "report" /\ pc' = "done" /\ UNCHANGED <<frames, level, g_ticks, g_rx_done, g_rx_count>>
        /\ main' = [main EXCEPT !.passed = @ /\ g_rx_done /\ g_rx_count > 0 /\ g_ticks > 0]
    BY <1>11 DEF Report, Runs, To, Inside, rxVars
  <2>2. HonestAt("report") /\ main \in Mains BY <2>1, AtHonest
  <2>3. /\ main.passed /\ (g_rx_done => g_rx_count > 0) /\ level = Masked
        /\ g_rx_done \/ main.guard = GuardLimit
    BY <2>2 DEF HonestAt, Later, Emptied, Left
  <2>4. main' \in Mains /\ main'.guard = main.guard
        /\ main'.passed = (main.passed /\ g_rx_done /\ g_rx_count > 0 /\ g_ticks > 0)
    BY <2>1, <2>2 DEF Mains
  <2>5. main'.passed \/ main'.guard = GuardLimit \/ g_ticks = 0
    <3>1. g_ticks \in Int /\ g_ticks >= 0 BY DEF IInv, Typed, Clocked
    <3>2. g_ticks > 0 \/ g_ticks = 0 BY <3>1
    <3> QED BY <2>3, <2>4, <3>2
  <2>6. HonestAt("done")'
    BY <2>1, <2>3, <2>5 DEF HonestAt, Running, Slept, Seen, Early, Later, Left, Emptied
  <2> QED BY <2>1, <2>4, <2>6, HonestMain
<1> QED
  BY <1>1, <1>2, <1>3, <1>4, <1>5, <1>6, <1>7, <1>8, <1>9, <1>10, <1>11 DEF UartTest

\* The program of sdread has none of this.
SweepAt == {"sweep", "zero_s", "on_s", "unmask_s", "read", "mask_s", "off_s", "ms", "swept"}

LEMMA SweepMoves ==
    ASSUME Sweep
    PROVE  /\ pc \in SweepAt /\ pc' \in SweepAt /\ UNCHANGED frames
           /\ \/ main' = main
              \/ main' = [main EXCEPT !.wait = @ + 1]
              \/ main' = [main EXCEPT !.wait = 0]
              \/ main' = [[main EXCEPT !.round = @ + 1] EXCEPT !.wait = 0]
<1> USE DEF SweepAt, Runs, To
<1>1. CASE \/ SetInterrupts("sweep", Masked, "zero_s")
           \/ SetInterrupts("unmask_s", Open, "read")
           \/ SetInterrupts("mask_s", Masked, "off_s")
  BY <1>1 DEF SetInterrupts
<1>2. CASE ZeroTicks("zero_s", "on_s") BY <1>2 DEF ZeroTicks
<1>3. CASE \/ WriteTimer("on_s", Ctrl(TRUE), "unmask_s")
           \/ WriteTimer("off_s", Ctrl(FALSE), "ms")
  BY <1>3 DEF WriteTimer
<1>4. CASE Turns("read") BY <1>4 DEF Turns
<1>5. CASE Over("read", main, "mask_s") BY <1>5 DEF Over, Note
<1>6. CASE Note("ms", [main EXCEPT !.round = @ + 1],
                IF main.round < 2 THEN "sweep" ELSE "swept")
  BY <1>6 DEF Note
<1> QED BY <1>1, <1>2, <1>3, <1>4, <1>5, <1>6 DEF Sweep

LEMMA HonestSweep ==
    ASSUME IInv, RxInv, HonestInv, Sweep
    PROVE  HonestInv'
<1>1. pc \in MainPcs /\ pc' \in MainPcs /\ UNCHANGED frames
  <2>1. SweepAt \subseteq MainPcs BY DEF SweepAt, MainPcs, Pcs, MaskedAt, TimerIsr, UartIsr
  <2> QED BY <2>1, SweepMoves
<1>2. main' \in Mains
  <2>1. main \in Mains /\ main.round \in Nat /\ main.wait \in Nat BY DEF HonestInv, Mains
  <2>2. main.round + 1 \in Nat /\ main.wait + 1 \in Nat BY <2>1
  <2>3. \/ main' = main
        \/ main' = [main EXCEPT !.wait = @ + 1]
        \/ main' = [main EXCEPT !.wait = 0]
        \/ main' = [[main EXCEPT !.round = @ + 1] EXCEPT !.wait = 0]
    BY SweepMoves
  <2>4. CASE main' = [main EXCEPT !.wait = @ + 1] BY <2>1, <2>2, <2>4 DEF Mains
  <2>5. CASE main' = [main EXCEPT !.wait = 0] BY <2>1, <2>5 DEF Mains
  <2>6. CASE main' = [[main EXCEPT !.round = @ + 1] EXCEPT !.wait = 0]
    <3>1. [main EXCEPT !.round = @ + 1] \in Mains BY <2>1, <2>2 DEF Mains
    <3> QED BY <2>6, <3>1 DEF Mains
  <2> QED BY <2>1, <2>3, <2>4, <2>5, <2>6
<1>3. pc' \in SweepAt BY SweepMoves
<1>4. ASSUME NEW next \in SweepAt PROVE HonestAt(next)' /\ next \notin {"first", "sleep"}
  BY DEF SweepAt, HonestAt, Running, Slept, Seen, Early, Later, Left, Emptied
<1> QED BY <1>1, <1>2, <1>3, <1>4, HonestMain

LEMMA HonestInit == Init => HonestInv
<1> SUFFICES ASSUME Init PROVE HonestInv OBVIOUS
<1>1. pc \in {"irqtest", "sweep"} /\ Len(frames) = 0 /\ MainPc = pc /\ main = Locals
  BY DEF Init, MainPc
<1>2. main \in Mains /\ main.wait = 0 /\ main.climbing BY <1>1 DEF Locals, Mains
<1>3. HonestAt(pc)
  BY <1>1, <1>2 DEF HonestAt, Running, Slept, Seen, Early, Later, Left, Emptied
<1> QED BY <1>1, <1>2, <1>3 DEF HonestInv

LEMMA HonestSteps ==
    ASSUME Reload[3] < DelayTurns, IInv, RxInv, Clocked, HonestInv, [Next]_vars
    PROVE  HonestInv'
<1>1. CASE UNCHANGED vars
  <2>1. UNCHANGED <<pc, level, frames, main, enable, count, pending, g_ticks, raised,
                    g_rx_done, g_rx_count>>
    BY <1>1 DEF vars, cpuVars, timerVars, rxVars
  <2>2. MainPc' = MainPc BY <2>1 DEF MainPc
  <2> QED BY <2>1, <2>2 DEF HonestInv, HonestAt
<1> QED
  BY <1>1, HonestHandlers, HonestTimerTest, HonestUartTest, HonestSweep DEF Next

\* irqtest speaks the truth (irqtest.c:60-131): where a delay loop outlasts a
\* tick the timer passes, and the receiver fails only where no Enter came
\* before the guard ran out, or where it came before the first tick.
THEOREM VerdictIsHonest ==
    ASSUME Reload[3] < DelayTurns
    PROVE  Spec => []HonestVerdict
<1>1. Init => IInv /\ RxInv /\ Clocked /\ HonestInv
  BY InitEstablishes, RxInit, ClockedInit, HonestInit
<1>2. IInv /\ RxInv /\ Clocked /\ HonestInv /\ [Next]_vars => (IInv /\ RxInv /\ Clocked /\ HonestInv)'
  BY StepKeeps, RxSteps, ClockedSteps, HonestSteps
<1>3. IInv /\ RxInv /\ Clocked /\ HonestInv => HonestVerdict
  <2> SUFFICES ASSUME IInv, RxInv, HonestInv PROVE HonestVerdict OBVIOUS
  <2>1. pc \in {"flush", "on_2", "done"} => MainPc = pc
    BY AtMain DEF MainPcs, Pcs, MaskedAt, TimerIsr, UartIsr
  <2> QED BY <2>1 DEF HonestInv, HonestAt, HonestVerdict, Later
<1> QED BY <1>1, <1>2, <1>3, PTL DEF Spec

-----------------------------------------------------------------------------
(* The times of sdread.                                                    *)

\* How far the timer may have counted since the tick that is not yet counted:
\* the handlers of two ticks never meet.
InTime ==
    /\ pc = "on_s" => ~pending /\ count = 0
    /\ pc = "unmask_s" => ~pending /\ count <= 1
    /\ pc \in {"read", "mask_s"} /\ pending => count <= 1
    /\ pc \in {"off_s", "rte"} /\ pending => count = 0
    /\ pc = "timer_isr" => count <= IF held THEN 3 ELSE 2
    /\ pc = "timer_count" => ~pending /\ count <= 4

\* The timer runs, and has missed no tick; and what is left of it once it is
\* switched off.
Counting == enable /\ elapsed = (raised * Period) + count
Stopped ==
    /\ ~enable /\ ~pending
    /\ raised * Period <= elapsed /\ elapsed < ((raised + 1) * Period) + SwitchingOff

TimerIsOn ==
    \/ MainPc \in {"unmask_s", "read", "mask_s"}
    \/ pc = "on_s" /\ held
    \/ pc = "off_s" /\ ~held
TimeInv ==
    MainPc \in SweepAt =>
        /\ Len(frames) <= 1 /\ (Len(frames) = 1 => level = TimerLevel)
        /\ pc = "on_s" /\ ~held => ~enable /\ ~pending /\ raised = 0
        /\ TimerIsOn => Counting /\ InTime
        /\ pc = "ms" \/ (pc = "off_s" /\ held) => Stopped
        /\ pc \in {"read", "mask_s"} => level = Open

LEMMA Periods ==
    /\ Period \in Nat /\ Period = Reload[3] + 1 /\ Reload[3] \in Nat
    /\ \A n \in Int : (n + 1) * Period = (n * Period) + Period /\ n * Period \in Int
<1>1. Reload[3] \in Nat /\ Period = Reload[3] + 1 BY TimerAssumption DEF Period
<1>2. \A p \in Nat : \A n \in Int : (n + 1) * p = (n * p) + p /\ n * p \in Int OBVIOUS
<1> QED BY <1>1, <1>2

LEMMA StopsNear ==
    \A c \in Nat, n \in Int : c <= Period + 1 =>
        n * Period <= (n * Period) + c /\ (n * Period) + c < ((n + 1) * Period) + 2
<1> SUFFICES ASSUME NEW c \in Nat, NEW n \in Int, c <= Period + 1
             PROVE  n * Period <= (n * Period) + c /\ (n * Period) + c < ((n + 1) * Period) + 2
  OBVIOUS
<1>1. (n + 1) * Period = (n * Period) + Period /\ n * Period \in Int /\ Period \in Nat BY Periods
<1>2. \A x \in Int, p \in Nat : c <= p + 1 => x <= x + c /\ x + c < x + p + 2 OBVIOUS
<1> QED BY <1>1, <1>2

LEMMA CountsOn ==
    ASSUME IInv, Clocked, Counting, Timer(NoWrite), pending => count < Reload[3]
    PROVE  /\ Counting' /\ count \in Nat /\ count' \in Nat
           /\ pending => pending' /\ count' = count + 1
           /\ ~pending => \/ pending' /\ count' = 0
                          \/ ~pending' /\ count' = count + 1
<1>1. count \in Nat /\ raised \in Int /\ elapsed \in Nat /\ pending \in BOOLEAN
  BY DEF IInv, Typed, Clocked
<1>2. /\ enable' /\ elapsed' = elapsed + 1
      /\ \/ /\ count = Reload[3] /\ count' = 0 /\ pending'
            /\ raised' = raised + (IF pending THEN 0 ELSE 1)
         \/ /\ count < Reload[3] /\ count' = count + 1
            /\ pending' = pending /\ raised' = raised
  BY Quiet DEF Counting
<1>3. CASE count = Reload[3] /\ count' = 0 /\ pending'
           /\ raised' = raised + (IF pending THEN 0 ELSE 1)
  <2>1. ~pending /\ raised' = raised + 1 BY <1>1, <1>3, Periods
  <2>2. raised' * Period = (raised * Period) + Period /\ raised * Period \in Int
    BY <1>1, <2>1, Periods
  <2>3. elapsed' = (raised' * Period) + count'
    BY <1>1, <1>2, <1>3, <2>2, Periods DEF Counting
  <2> QED BY <1>1, <1>2, <1>3, <2>1, <2>3 DEF Counting
<1>4. CASE count < Reload[3] /\ count' = count + 1 /\ pending' = pending /\ raised' = raised
  <2>1. raised * Period \in Int BY <1>1, Periods
  <2>2. elapsed' = (raised' * Period) + count' BY <1>1, <1>2, <1>4, <2>1 DEF Counting
  <2> QED BY <1>1, <1>2, <1>4, <2>2 DEF Counting
<1> QED BY <1>2, <1>3, <1>4

\* A clock of the acknowledge, where it cannot meet a rollover.
LEMMA CountsAck ==
    ASSUME IInv, Clocked, Counting, Timer(Ack), count < Reload[3]
    PROVE  Counting' /\ ~pending' /\ count' = count + 1 /\ count \in Nat
<1>1. count \in Nat /\ raised \in Int /\ elapsed \in Nat BY DEF IInv, Typed, Clocked
<1>2. raised * Period \in Int BY <1>1, Periods
<1>3. enable' /\ ~pending' /\ raised' = raised /\ elapsed' = elapsed + 1 /\ count' = count + 1
  BY <1>1, Acked, Periods DEF Counting
<1> QED BY <1>1, <1>2, <1>3 DEF Counting

\* A step of main.
LEMMA TimeMain ==
    ASSUME RxInv, pc \in SweepAt, UNCHANGED frames, NEW next \in SweepAt, pc' = next,
           next = "on_s" /\ ~held' => ~enable' /\ ~pending' /\ raised' = 0,
           next \in {"unmask_s", "read", "mask_s"} \/ (next = "on_s" /\ held')
             \/ (next = "off_s" /\ ~held') => Counting' /\ InTime',
           next = "ms" \/ (next = "off_s" /\ held') => Stopped',
           next \in {"read", "mask_s"} => level' = Open
    PROVE  TimeInv'
<1>1. SweepAt \subseteq MainPcs BY DEF SweepAt, MainPcs, Pcs, MaskedAt, TimerIsr, UartIsr
<1>2. Len(frames') = 0 /\ MainPc' = next BY <1>1, AtMain DEF MainPc
<1> QED BY <1>2 DEF TimeInv, TimerIsOn

LEMMA AtTime ==
    ASSUME RxInv, TimeInv, pc \in SweepAt
    PROVE  /\ pc = "on_s" /\ ~held => ~enable /\ ~pending /\ raised = 0
           /\ pc \in {"unmask_s", "read", "mask_s"} \/ (pc = "on_s" /\ held)
                \/ (pc = "off_s" /\ ~held) => Counting /\ InTime
           /\ pc = "ms" \/ (pc = "off_s" /\ held) => Stopped
           /\ pc \in {"read", "mask_s"} => level = Open
<1>1. SweepAt \subseteq MainPcs BY DEF SweepAt, MainPcs, Pcs, MaskedAt, TimerIsr, UartIsr
<1>2. MainPc = pc BY <1>1, AtMain
<1> QED BY <1>2 DEF TimeInv, TimerIsOn

LEMMA TimeSweep ==
    ASSUME 4 <= Reload[3], IInv, RxInv, Clocked, TimeInv, Sweep
    PROVE  TimeInv'
<1> USE DEF SweepAt
<1>p. Reload[3] \in Nat /\ Reload[3] >= 4 BY Periods
<1>t. count \in Nat /\ raised \in Int /\ elapsed \in Nat /\ pending \in BOOLEAN /\ g_ticks \in Int
      /\ held \in BOOLEAN
  BY DEF IInv, Typed, Clocked
<1>1. CASE SetInterrupts("sweep", Masked, "zero_s")
  BY <1>1, TimeMain DEF SetInterrupts, Runs, To
<1>2. CASE ZeroTicks("zero_s", "on_s")
  <2>1. pc = "zero_s" /\ pc' = "on_s" /\ UNCHANGED <<frames, held>> /\ raised' = 0
        /\ TimerClock(NoWrite)
    BY <1>2 DEF ZeroTicks, Runs, To
  <2>2. ~held /\ ~enable /\ ~pending
    BY <2>1 DEF Clocked, WritesAt, IInv, MainMasks, OffAt
  <2>3. ~enable' /\ ~pending'
    BY <2>1, <2>2 DEF TimerClock, NoWrite, Withdrawn, Rollover
  <2> QED BY <2>1, <2>2, <2>3, TimeMain
<1>3. CASE WriteTimer("on_s", Ctrl(TRUE), "unmask_s")
  <2>1. /\ pc = "on_s" /\ UNCHANGED frames /\ Timer(Ctrl(TRUE))
        /\ \/ ~held /\ held' = TRUE /\ pc' = "on_s"
           \/ held' = FALSE /\ pc' = "unmask_s"
    BY <1>3 DEF WriteTimer, Runs
  <2>2. CASE ~held
    <3>1. ~enable /\ ~pending /\ raised = 0 BY <2>1, <2>2, AtTime
    <3>2. enable' /\ elapsed' = 0 /\ count' = 0 /\ ~pending' /\ raised' = 0
      BY <2>1, <3>1, On
    <3>3. 0 * Period = 0 BY Periods
    <3>4. Counting' BY <3>2, <3>3 DEF Counting
    <3>5. InTime' BY <2>1, <3>2 DEF InTime
    <3> QED BY <2>1, <3>4, <3>5, TimeMain
  <2>3. CASE held
    <3>1. Counting /\ ~pending /\ count = 0 BY <2>1, <2>3, AtTime DEF InTime
    <3>2. enable' /\ elapsed' = elapsed + 1 /\ count' = 1 /\ ~pending' /\ raised' = raised
      BY <1>p, <2>1, <3>1, On DEF Counting
    <3>3. raised * Period \in Int BY <1>t, Periods
    <3>4. Counting' BY <1>t, <3>1, <3>2, <3>3 DEF Counting
    <3>5. InTime' BY <2>1, <2>3, <3>2 DEF InTime
    <3> QED BY <2>1, <2>3, <3>4, <3>5, TimeMain
  <2> QED BY <1>t, <2>2, <2>3
<1>4. CASE SetInterrupts("unmask_s", Open, "read")
  <2>1. /\ pc = "unmask_s" /\ pc' = "read" /\ UNCHANGED <<frames, held>> /\ Timer(NoWrite)
        /\ level' = Open
    BY <1>4 DEF SetInterrupts, Runs, To, Inside
  <2>2. Counting /\ ~pending BY <2>1, AtTime DEF InTime
  <2>3. Counting' /\ (pending' => count' = 0) BY <2>1, <2>2, CountsOn
  <2>4. InTime' BY <2>1, <2>3 DEF InTime
  <2> QED BY <2>1, <2>3, <2>4, TimeMain
<1>5. CASE \/ Turns("read") \/ Over("read", main, "mask_s")
           \/ SetInterrupts("mask_s", Masked, "off_s")
  <2>1. /\ pc \in {"read", "mask_s"} /\ UNCHANGED <<frames, held>> /\ Timer(NoWrite)
        /\ \/ pc' \in {"read", "mask_s"} /\ level' = level
           \/ pc' = "off_s"
        /\ held \/ Ipl <= level
    BY <1>5 DEF Turns, Over, Note, SetInterrupts, Runs, To, Inside
  <2>2. Counting /\ level = Open BY <2>1, AtTime
  <2>3. ~held BY <2>1 DEF Clocked, WritesAt
  <2>4. ~pending BY <2>1, <2>2, <2>3 DEF Ipl, TimerLevel, Open
  <2>5. Counting' /\ (pending' => count' = 0) BY <2>1, <2>2, <2>4, CountsOn
  <2>6. InTime' BY <2>1, <2>5 DEF InTime
  <2> QED BY <2>1, <2>2, <2>3, <2>5, <2>6, TimeMain
<1>6. CASE WriteTimer("off_s", Ctrl(FALSE), "ms")
  <2>1. /\ pc = "off_s" /\ UNCHANGED frames /\ Timer(Ctrl(FALSE))
        /\ \/ ~held /\ held' = TRUE /\ pc' = "off_s"
           \/ held' = FALSE /\ pc' = "ms"
    BY <1>6 DEF WriteTimer, Runs
  <2>2. /\ ~enable' /\ ~pending'
        /\ elapsed' = IF enable THEN elapsed + 1 ELSE elapsed
        /\ raised' = IF pending THEN raised - 1 ELSE raised
    BY <2>1, Off
  <2>3. CASE ~held
    <3>1. Counting /\ (pending => count = 0) /\ count <= Reload[3]
      BY <2>1, <2>3, AtTime DEF InTime, Counting, Clocked
    <3>2. elapsed' = (raised * Period) + count + 1 BY <1>t, <2>2, <3>1, Periods DEF Counting
    <3>3. CASE pending
      <4>1. raised' \in Int /\ raised' + 1 = raised /\ count = 0 BY <1>t, <2>2, <3>1, <3>3
      <4>2. (raised' + 1) * Period = (raised' * Period) + Period /\ raised' * Period \in Int
        BY <4>1, Periods
      <4>3. elapsed' = (raised' * Period) + Period + 1
        BY <3>2, <4>1, <4>2, Periods
      <4>7. \A x \in Int, q \in Nat : x + q + 1 = x + (q + 1) OBVIOUS
      <4>9. \A q \in Nat : q + 1 \in Nat /\ q + 1 <= q + 1 OBVIOUS
      <4>8. Period \in Nat /\ Period + 1 \in Nat /\ Period + 1 <= Period + 1
        BY <4>9, Periods, Zenon
      <4>5. elapsed' = (raised' * Period) + (Period + 1) BY <4>2, <4>3, <4>7, <4>8, Zenon
      <4>6. /\ raised' * Period <= elapsed'
            /\ elapsed' < ((raised' + 1) * Period) + 2
        BY <4>1, <4>5, <4>8, StopsNear, Zenon
      <4>4. Stopped' BY <2>2, <4>6, Zenon DEF Stopped, SwitchingOff
      <4> QED BY <2>1, <2>3, <4>4, TimeMain
    <3>4. CASE ~pending
      <4>1. raised' = raised BY <2>2, <3>4
      <4>2. (raised + 1) * Period = (raised * Period) + Period /\ raised * Period \in Int
        BY <1>t, Periods
      <4>7. \A x \in Int, q \in Nat : x + q + 1 = x + (q + 1) OBVIOUS
      <4>8. count + 1 \in Nat /\ count + 1 <= Period + 1 BY <1>t, <3>1, Periods
      <4>4. elapsed' = (raised * Period) + (count + 1)
        BY <1>t, <3>2, <4>2, <4>7, Zenon
      <4>5. /\ raised * Period <= elapsed'
            /\ elapsed' < ((raised + 1) * Period) + 2
        BY <1>t, <4>4, <4>8, StopsNear, Zenon
      <4>6. raised' * Period <= elapsed' /\ elapsed' < ((raised' + 1) * Period) + 2
        BY <4>1, <4>5, Zenon
      <4>3. Stopped' BY <2>2, <4>6, Zenon DEF Stopped, SwitchingOff
      <4> QED BY <2>1, <2>3, <4>3, TimeMain
    <3> QED BY <3>3, <3>4
  <2>4. CASE held
    <3>1. Stopped BY <2>1, <2>4, AtTime
    <3>2. elapsed' = elapsed /\ raised' = raised BY <2>2, <3>1 DEF Stopped
    <3>3. Stopped' BY <2>2, <3>1, <3>2, Periods DEF Stopped
    <3> QED BY <2>1, <2>4, <3>3, TimeMain
  <2> QED BY <1>t, <2>3, <2>4
<1>7. CASE Note("ms", [main EXCEPT !.round = @ + 1],
                IF main.round < 2 THEN "sweep" ELSE "swept")
  <2>1. pc = "ms" /\ pc' \in {"sweep", "swept"} /\ UNCHANGED frames
    BY <1>7 DEF Note, Runs, To
  <2> QED BY <2>1, TimeMain
<1> QED BY <1>1, <1>2, <1>3, <1>4, <1>5, <1>6, <1>7 DEF Sweep

\* A handler can only be the timer's: the receiver is not open.
LEMMA TimeHandlers ==
    ASSUME 4 <= Reload[3], IInv, RxInv, Clocked, TimeInv, Interrupt \/ Handlers
    PROVE  TimeInv'
<1> SUFFICES ASSUME MainPc' \in SweepAt PROVE TimeInv' BY DEF TimeInv
<1>p. Reload[3] \in Nat /\ Reload[3] >= 4 BY Periods
<1>t. count \in Nat /\ raised \in Int /\ elapsed \in Nat /\ pending \in BOOLEAN /\ g_ticks \in Int
      /\ held \in BOOLEAN
  BY DEF IInv, Typed, Clocked
<1>1. MainPc' = MainPc /\ MainPc \in SweepAt \ MaskedAt BY MainWaits
<1>2. Len(frames) <= 1 /\ Len(frames) \in Nat /\ (Len(frames) = 1 => level = 6)
  BY <1>1 DEF TimeInv, TimerLevel, RxInv, Stack
<1>3. ~rda BY <1>1 DEF RxInv, Opened, SweepAt
<1>4. MainPc \in {"read", "mask_s", "swept"} BY <1>1 DEF SweepAt, MaskedAt
<1>5. CASE Interrupt
  <2>1. /\ Timer(NoWrite) /\ ~held /\ ~held' /\ Ipl > level /\ level' = Ipl
        /\ pc' = IF Ipl = TimerLevel THEN "timer_isr" ELSE "uart_isr"
        /\ frames' = Append(frames, [pc |-> pc, level |-> level])
    BY <1>5 DEF Interrupt, Inside
  <2>2. Ipl \in {0, 6} /\ (Ipl = 6 => pending) BY <1>3 DEF Ipl, UartRequest, TimerLevel
  <2>3. level \in {0, 5, 6, 7} BY DEF IInv, Typed
  <2>4. Ipl = 6 /\ pending /\ Len(frames) = 0 /\ pc = MainPc
    <3>1. Ipl = 6 /\ level # 6 BY <2>1, <2>2, <2>3
    <3>2. Len(frames) = 0 BY <1>2, <3>1
    <3> QED BY <2>2, <3>1, <3>2 DEF MainPc
  <2>5. Len(frames') = 1
    <3>1. frames \in Seq(Frame) /\ [pc |-> pc, level |-> level] \in Frame
      BY DEF IInv, Typed, Frame
    <3> QED BY <2>1, <2>4, <3>1, AppendProperties
  <2>6. pc' = "timer_isr" /\ level' = TimerLevel BY <2>1, <2>4 DEF TimerLevel
  <2>7. pc \in {"read", "mask_s"} => Counting' /\ InTime'
    <3> SUFFICES ASSUME pc \in {"read", "mask_s"} PROVE Counting' /\ InTime' OBVIOUS
    <3>1. Counting /\ count <= 1
      BY <1>1, <2>4 DEF TimeInv, TimerIsOn, InTime
    <3>2. Counting' /\ count' = count + 1 BY <1>p, <1>t, <2>1, <2>4, <3>1, CountsOn
    <3>3. InTime' BY <1>t, <2>1, <2>6, <3>1, <3>2 DEF InTime
    <3> QED BY <3>2, <3>3
  <2> QED BY <1>1, <1>4, <2>4, <2>5, <2>6, <2>7 DEF TimeInv, TimerIsOn
<1>6. CASE Handlers
  <2>1. pc \notin MainPcs
    BY <1>6, Places DEF Handlers, Acknowledge, WriteTimer, Count, Poll, ReadByte, StoreByte, Rte,
       Runs, TimerIsr, UartIsr
  <2>2. Len(frames) = 1 /\ level = 6 /\ pc \in TimerIsr \cup {"rte"}
    BY <1>2, <2>1 DEF RxInv, Stack
  <2>3. MainPc \in {"read", "mask_s"} => Counting /\ InTime
    BY <1>1 DEF TimeInv, TimerIsOn
  <2>4. CASE Acknowledge
    <3>1. /\ pc = "timer_isr" /\ Timer(Ack) /\ UNCHANGED <<frames, level>>
          /\ \/ ~held /\ held' = TRUE /\ pc' = "timer_isr"
             \/ held' = FALSE /\ pc' = "timer_count"
      BY <2>4 DEF Acknowledge, WriteTimer, Runs
    <3>2. ASSUME MainPc \in {"read", "mask_s"} PROVE Counting' /\ InTime'
      <4>1. Counting /\ count <= IF held THEN 3 ELSE 2 BY <2>3, <3>1, <3>2 DEF InTime
      <4>2. count < Reload[3] BY <1>p, <1>t, <4>1
      <4>3. Counting' /\ ~pending' /\ count' = count + 1 BY <3>1, <4>1, <4>2, CountsAck
      <4>4. InTime' BY <1>t, <3>1, <4>1, <4>3 DEF InTime
      <4> QED BY <4>3, <4>4
    <3> QED BY <1>1, <1>4, <2>2, <3>1, <3>2 DEF TimeInv, TimerIsOn, TimerLevel
  <2>5. CASE Count
    <3>1. /\ pc = "timer_count" /\ pc' = "rte" /\ Timer(NoWrite) /\ UNCHANGED <<frames, level>>
      BY <2>5 DEF Count, Runs, To, Inside
    <3>2. ASSUME MainPc \in {"read", "mask_s"} PROVE Counting' /\ InTime'
      <4>1. Counting /\ ~pending BY <2>3, <3>1, <3>2 DEF InTime
      <4>2. Counting' /\ (pending' => count' = 0) BY <3>1, <4>1, CountsOn
      <4>3. InTime' BY <3>1, <4>2 DEF InTime
      <4> QED BY <4>2, <4>3
    <3> QED BY <1>1, <1>4, <2>2, <3>1, <3>2 DEF TimeInv, TimerIsOn, TimerLevel
  <2>6. CASE Rte
    <3>1. /\ pc = "rte" /\ pc' = frames[1].pc /\ level' = frames[1].level
          /\ Len(frames') = 0 /\ Timer(NoWrite)
      BY <2>2, <2>6, Returned DEF Rte, Inside
    <3>2. pc' = MainPc /\ level' = Open BY <2>2, <3>1 DEF MainPc, RxInv, Stack, Open
    <3>3. ASSUME MainPc \in {"read", "mask_s"} PROVE Counting' /\ InTime'
      <4>1. Counting /\ (pending => count = 0) BY <2>3, <3>1, <3>3 DEF InTime
      <4>2. pending => count < Reload[3] BY <1>p, <4>1
      <4>3. Counting' /\ (pending' => count' <= 1) BY <1>t, <3>1, <4>1, <4>2, CountsOn
      <4>4. InTime' BY <3>2, <3>3, <4>3 DEF InTime
      <4> QED BY <4>3, <4>4
    <3> QED BY <1>1, <1>4, <3>1, <3>2, <3>3 DEF TimeInv, TimerIsOn
  <2>7. CASE Poll \/ ReadByte \/ StoreByte
    BY <2>2, <2>7 DEF Poll, ReadByte, StoreByte, Runs, TimerIsr
  <2> QED BY <1>6, <2>4, <2>5, <2>6, <2>7 DEF Handlers
<1> QED BY <1>5, <1>6

\* irqtest is another program.
LEMMA TimeOthers ==
    ASSUME RxInv, TimerTest \/ UartTest
    PROVE  TimeInv'
<1> USE DEF Runs, To
<1>1. pc' \in MainPcs \ SweepAt /\ pc \in MainPcs /\ UNCHANGED frames
  <2> USE DEF MainPcs, Pcs, MaskedAt, TimerIsr, UartIsr, SweepAt
  <2>1. CASE TimerTest
    BY <2>1 DEF TimerTest, SetInterrupts, ZeroTicks, WriteTimer, Turns, Over, Note
  <2>2. CASE UartTest
    BY <2>2 DEF UartTest, Flush, Flushed, WriteTimer, SwitchIer, SetInterrupts, Guard, GuardOver,
                Report
  <2> QED BY <2>1, <2>2
<1>2. MainPc' = pc' BY <1>1, AtMain DEF MainPc
<1> QED BY <1>1, <1>2 DEF TimeInv

LEMMA TimeInit == Init => TimeInv
<1> SUFFICES ASSUME Init PROVE TimeInv OBVIOUS
<1>1. pc \in {"irqtest", "sweep"} /\ Len(frames) = 0 /\ MainPc = pc
  BY DEF Init, MainPc
<1> QED BY <1>1 DEF TimeInv, TimerIsOn

LEMMA TimeSteps ==
    ASSUME 4 <= Reload[3], IInv, RxInv, Clocked, TimeInv, [Next]_vars
    PROVE  TimeInv'
<1>1. CASE UNCHANGED vars
  <2>1. UNCHANGED <<pc, level, frames, held, enable, count, pending, raised, elapsed>>
    BY <1>1 DEF vars, cpuVars, timerVars
  <2>2. MainPc' = MainPc BY <2>1 DEF MainPc
  <2> QED BY <2>1, <2>2 DEF TimeInv, TimerIsOn, Counting, InTime, Stopped
<1> QED BY <1>1, TimeHandlers, TimeSweep, TimeOthers DEF Next

\* The time sdread prints (sdread.c:147) is not longer than the timer ran, and
\* short of it by no more than a tick and the clocks in which the program
\* masks and disables it, where a tick is longer than the handler: no tick is
\* missed, not even one that falls into the acknowledge of another.
THEOREM TimesAreMeasured ==
    ASSUME 4 <= Reload[3]
    PROVE  Spec => []TimeMeasured
<1>1. Init => IInv /\ RxInv /\ Clocked /\ TimeInv
  BY InitEstablishes, RxInit, ClockedInit, TimeInit
<1>2. IInv /\ RxInv /\ Clocked /\ TimeInv /\ [Next]_vars => (IInv /\ RxInv /\ Clocked /\ TimeInv)'
  BY StepKeeps, RxSteps, ClockedSteps, TimeSteps
<1>3. IInv /\ RxInv /\ Clocked /\ TimeInv => TimeMeasured
  <2> SUFFICES ASSUME IInv, RxInv, TimeInv, pc = "ms"
               PROVE  /\ g_ticks * Period <= elapsed
                      /\ elapsed < (g_ticks + 1) * Period + SwitchingOff
    BY DEF TimeMeasured
  <2>1. Stopped BY AtTime DEF SweepAt
  <2>2. raised = g_ticks
    <3>1. ~InIsr BY DEF InIsr
    <3> QED BY <2>1, <3>1 DEF IInv, TicksCounted, Typed, Stopped
  <2> QED BY <2>1, <2>2 DEF Stopped
<1> QED BY <1>1, <1>2, <1>3, PTL DEF Spec
=============================================================================
