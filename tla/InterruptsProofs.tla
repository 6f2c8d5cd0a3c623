------------------------- MODULE InterruptsProofs -------------------------
(***************************************************************************)
(* Proofs about interrupts and exceptions, for every set of lines that     *)
(* devices drive, every mask the boot loader leaves, any number of         *)
(* requests, spurious or not, and a fault at any point.                    *)
(***************************************************************************)
EXTENDS Interrupts, SequenceTheorems, TLAPS

(* What ck_main's calls have established after the first done of them. *)
BootProgress ==
    /\ done \in 0 .. 7
    /\ handlers \in [0 .. 15 -> {"none", "default", "timer", "keyboard"}]
    /\ done >= 3 => offset = [master |-> 32, slave |-> 40]
    /\ done >= 4 => \A l \in 0 .. 15 : idt[32 + l] = Stub("irq", l)
    /\ done >= 4 => \A l \in 2 .. 15 : handlers[l] = "default"
    /\ done >= 5 => handlers[0] = "timer"
    /\ done >= 6 => handlers[1] = "keyboard"

InInterrupt == cpu \in {"handler", "eoi", "iret"}

(* Interrupts come on last, and one that is being handled found all of the
   tables in place. *)
FlagLast ==
    /\ IF_ => done = 7
    /\ InInterrupt => done = 7
    /\ cpu \in {"handler", "eoi"} => irq \in 0 .. 15
    /\ isr \subseteq 0 .. 15
    /\ cpu = "iret" => isr = {}

(* A report is the one made of the fault. *)
ReportKept == cpu = "halted" => fault \in 0 .. 31 /\ report = Report(fault)

(* The inductive invariant.  ServiceMatches needs the tables: an interrupt
   that met another line's stub would end another line. *)
IntInv == BootProgress /\ FlagLast /\ ServiceMatches /\ ReportKept

-----------------------------------------------------------------------------

(* With the tables in place a line meets its own stub. *)
LEMMA OwnStub ==
    ASSUME BootProgress, done = 7, NEW l \in 0 .. 15
    PROVE  idt[Vector(l)] = Stub("irq", l)
<1>1. Vector(l) = 32 + l
  BY DEF BootProgress, Vector, Slave
<1> QED
  BY <1>1 DEF BootProgress

LEMMA IntInitInv == IntInit => IntInv
<1> SUFFICES ASSUME IntInit PROVE IntInv
  OBVIOUS
<1>1. BootProgress
  BY DEF IntInit, BootProgress
<1>2. FlagLast
  BY DEF IntInit, FlagLast, InInterrupt
<1>3. ServiceMatches /\ ReportKept
  BY DEF IntInit, ServiceMatches, ReportKept
<1> QED
  BY <1>1, <1>2, <1>3 DEF IntInv

(* A call of ck_main establishes its part and undoes no earlier one. *)
LEMMA BootInv ==
    ASSUME IntInv, Boot
    PROVE  IntInv'
<1> USE DEF IntInv
<1>1. /\ done \in 0 .. 6 /\ done' = done + 1 /\ cpu = "thread"
      /\ UNCHANGED <<cpu, irq, report, fault>>
      /\ BootCall(Order[done + 1])
  BY DEF Boot, Order, BootProgress
<1>2. /\ done = 0 => ck_idt_init
      /\ done = 1 => ck_exceptions_init
      /\ done = 2 => ck_pic_init
      /\ done = 3 => ck_irq_init
      /\ done = 4 => ck_irq_set_handler(0, "timer")
      /\ done = 5 => ck_irq_set_handler(1, "keyboard")
      /\ done = 6 => sti
  <2> HIDE DEF IntInv
  <2> QED
    BY <1>1 DEF BootCall, Order
<1>3. ~ IF_ /\ isr = {}
  BY <1>1 DEF FlagLast, ServiceMatches
<1>4. BootProgress'
  <2>1. CASE done = 0
    BY <1>1, <1>2, <2>1 DEF BootProgress, ck_idt_init
  <2>2. CASE done = 1
    BY <1>1, <1>2, <2>2 DEF BootProgress, ck_exceptions_init
  <2>3. CASE done = 2
    BY <1>1, <1>2, <2>3 DEF BootProgress, ck_pic_init, tables
  <2>4. CASE done = 3
    BY <1>1, <1>2, <2>4 DEF BootProgress, ck_irq_init, IrqOf, Vectors, pic
  <2>5. CASE done = 4
    <3>1. handlers' = [handlers EXCEPT ![0] = "timer"] /\ UNCHANGED <<idt, offset>>
      BY <1>2, <2>5 DEF ck_irq_set_handler, pic
    <3> QED
      BY <1>1, <2>5, <3>1 DEF BootProgress
  <2>6. CASE done = 5
    <3>1. handlers' = [handlers EXCEPT ![1] = "keyboard"] /\ UNCHANGED <<idt, offset>>
      BY <1>2, <2>6 DEF ck_irq_set_handler, pic
    <3> QED
      BY <1>1, <2>6, <3>1 DEF BootProgress
  <2>7. CASE done = 6
    <3>1. UNCHANGED <<handlers, idt, offset>>
      BY <1>2, <2>7 DEF sti, pic, tables
    <3> QED
      BY <1>1, <2>7, <3>1 DEF BootProgress
  <2> QED
    BY <1>1, <2>1, <2>2, <2>3, <2>4, <2>5, <2>6, <2>7
<1>5. isr' = {} /\ (IF_' => done' = 7)
  BY <1>1, <1>2, <1>3 DEF ck_idt_init, ck_exceptions_init, ck_pic_init, ck_irq_init,
     ck_irq_set_handler, sti, pic, tables
<1>6. FlagLast'
  BY <1>1, <1>5 DEF FlagLast, InInterrupt
<1>7. ServiceMatches' /\ ReportKept'
  BY <1>1, <1>5 DEF ServiceMatches, ReportKept
<1> QED
  BY <1>4, <1>6, <1>7

(* An interrupt that is entered has its own number on the stack. *)
LEMMA EnterInv ==
    ASSUME IntInv, IF_, NEW l \in 0 .. 15, Enter(l), isr' \subseteq {l, MasterLine(l)}
    PROVE  IntInv'
<1> USE DEF IntInv
<1>1. done = 7 /\ idt[Vector(l)] = Stub("irq", l)
  BY OwnStub DEF FlagLast
<1>2. irq' = l /\ cpu' = "handler" /\ IF_' = FALSE
  BY <1>1 DEF Enter, Stub
<1>3. UNCHANGED <<done, idt, handlers, offset, report, fault>>
  BY DEF Enter, tables
<1>4. BootProgress' /\ ReportKept'
  BY <1>2, <1>3 DEF BootProgress, ReportKept
<1>5. FlagLast'
  BY <1>1, <1>2, <1>3 DEF FlagLast, InInterrupt, MasterLine
<1>6. ServiceMatches'
  BY <1>2 DEF ServiceMatches
<1> QED
  BY <1>4, <1>5, <1>6

LEMMA AcknowledgeInv ==
    ASSUME IntInv, NEW l \in Lines, Acknowledge(l) \/ Spurious(l)
    PROVE  IntInv'
<1>1. l \in 0 .. 15 /\ IF_ /\ cpu = "thread" /\ isr = {}
  BY InterruptsAssumption DEF Acknowledge, Spurious, CanEnter, IntInv, ServiceMatches
<1>2. CASE Acknowledge(l)
  BY <1>1, <1>2, EnterInv DEF Acknowledge
<1>3. CASE Spurious(l) /\ l \in Slave
  BY <1>1, <1>3, EnterInv DEF Spurious, MasterLine, Slave
<1>4. CASE Spurious(l) /\ l \notin Slave
  BY <1>1, <1>4, EnterInv DEF Spurious
<1> QED
  BY <1>2, <1>3, <1>4

(* One command to the master, and one to the slave for its lines, leave
   nothing in service. *)
LEMMA EoiInv ==
    ASSUME IntInv, ck_pic_send_eoi
    PROVE  IntInv'
<1> USE DEF IntInv
<1>1. irq \in 0 .. 15 /\ isr \subseteq {irq, MasterLine(irq)} /\ isr \subseteq 0 .. 15
  BY DEF ck_pic_send_eoi, FlagLast, ServiceMatches
<1>2. EndHighest(isr \cap Master) = {} /\ (irq >= 8 => EndHighest(isr \cap Slave) = {})
  BY <1>1 DEF EndHighest, Master, Slave, MasterLine
<1>3. irq < 8 => isr \cap Slave = {}
  BY <1>1 DEF Slave, MasterLine
<1>4. isr' = {}
  <2>1. isr' = AfterEoi
    BY DEF ck_pic_send_eoi
  <2>2. CASE irq >= 8
    BY <1>2, <2>1, <2>2 DEF AfterEoi
  <2>3. CASE ~ (irq >= 8)
    BY <1>1, <1>2, <1>3, <2>1, <2>3 DEF AfterEoi
  <2> QED
    BY <2>2, <2>3
<1>5. BootProgress' /\ ReportKept'
  BY DEF ck_pic_send_eoi, BootProgress, ReportKept, tables
<1>6. FlagLast'
  BY <1>4 DEF ck_pic_send_eoi, FlagLast, InInterrupt
<1>7. ServiceMatches'
  BY <1>4 DEF ck_pic_send_eoi, ServiceMatches
<1> QED
  BY <1>5, <1>6, <1>7

(* The other steps leave the tables alone. *)
LEMMA OtherInv ==
    ASSUME IntInv,
           \/ RunHandler \/ Iret \/ UNCHANGED intVars
           \/ \E l \in Lines : Raise(l)
           \/ \E v \in Faults : Exception(v)
    PROVE  IntInv'
<1> USE DEF IntInv
<1>1. BootProgress'
  BY DEF RunHandler, Iret, Raise, Exception, BootProgress, tables, pic, intVars
<1>2. CASE RunHandler
  BY <1>1, <1>2 DEF RunHandler, FlagLast, ServiceMatches, ReportKept, InInterrupt, pic
<1>3. CASE Iret
  BY <1>1, <1>3 DEF Iret, FlagAfterIret, FlagLast, ServiceMatches, ReportKept, InInterrupt, pic
<1>4. CASE UNCHANGED intVars
  BY <1>1, <1>4 DEF intVars, FlagLast, ServiceMatches, ReportKept, InInterrupt, pic
<1>5. ASSUME NEW l \in Lines, Raise(l) PROVE IntInv'
  BY <1>1, <1>5 DEF Raise, FlagLast, ServiceMatches, ReportKept, InInterrupt
<1>6. ASSUME NEW v \in Faults, Exception(v) PROVE IntInv'
  BY <1>1, <1>6, InterruptsAssumption
  DEF Exception, FlagLast, ServiceMatches, ReportKept, InInterrupt, pic
<1> QED
  BY <1>2, <1>3, <1>4, <1>5, <1>6

-----------------------------------------------------------------------------

(* What a stub leaves on the stack, word by word. *)
LEMMA StackWords ==
    ASSUME NEW v \in 0 .. 31
    PROVE  /\ Pushad(StubFrame(v))[9] = Word("vector", v)
           /\ Pushad(StubFrame(v))[11].what = "eip"
<1> DEFINE frame == StubFrame(v)
           regs == [i \in 1 .. 8 |-> Word("register", i)]
           W == [what : {"register", "vector", "error", "eip", "cs", "eflags"}, value : Int]
<1>1. /\ Word("vector", v) \in W /\ Word("error", v) \in W /\ Word("error", 0) \in W
      /\ Word("eip", 0) \in W /\ Word("cs", 0) \in W /\ Word("eflags", 0) \in W
      /\ \A i \in 1 .. 8 : Word("register", i) \in W
  BY DEF Word
<1>2. regs \in Seq(W) /\ Len(regs) = 8
  <2>1. regs \in [1 .. 8 -> W]
    BY <1>1
  <2> QED
    BY <2>1
<1> HIDE DEF regs, W
<1>3. ASSUME NEW p \in Seq(W), NEW q \in Seq(W)
      PROVE  /\ p \o q \in Seq(W) /\ Len(p \o q) = Len(p) + Len(q)
             /\ \A k \in 1 .. Len(p) : (p \o q)[k] = p[k]
             /\ \A k \in 1 .. Len(q) : (p \o q)[Len(p) + k] = q[k]
  BY ConcatProperties
<1>4. ASSUME NEW x \in W
      PROVE  <<x>> \in Seq(W) /\ Len(<<x>>) = 1 /\ <<x>>[1] = x
  OBVIOUS
<1> DEFINE err == IF v \in StubsWithError THEN << >> ELSE <<Word("error", 0)>>
           cpuErr == IF v \in CpuPushesError THEN <<Word("error", v)>> ELSE << >>
           ret == <<Word("eip", 0), Word("cs", 0), Word("eflags", 0)>>
<1>5. ret \in Seq(W) /\ Len(ret) = 3 /\ ret[1] = Word("eip", 0)
  BY <1>1
<1>6. /\ err \in Seq(W) /\ cpuErr \in Seq(W)
      /\ \/ Len(err) = 0 /\ Len(cpuErr) = 1
         \/ Len(err) = 1 /\ Len(cpuErr) = 0
  BY <1>1, <1>4 DEF StubsWithError, CpuPushesError
<1> DEFINE first == <<Word("vector", v)>> \o err
<1>7. frame = first \o (cpuErr \o ret)
  BY DEF StubFrame, CpuFrame
<1> HIDE DEF err, cpuErr, ret, frame
<1>8. first \in Seq(W) /\ Len(first) = 1 + Len(err) /\ first[1] = Word("vector", v)
  BY <1>1, <1>3, <1>4, <1>6
<1> HIDE DEF first
<1>9. /\ cpuErr \o ret \in Seq(W) /\ Len(cpuErr \o ret) = Len(cpuErr) + 3
      /\ (cpuErr \o ret)[Len(cpuErr) + 1] = ret[1]
  <2>1. \A k \in 1 .. Len(ret) : (cpuErr \o ret)[Len(cpuErr) + k] = ret[k]
    BY <1>3, <1>5, <1>6
  <2>2. 1 \in 1 .. Len(ret)
    BY <1>5
  <2>3. (cpuErr \o ret)[Len(cpuErr) + 1] = ret[1]
    BY <2>1, <2>2
  <2>4. cpuErr \o ret \in Seq(W) /\ Len(cpuErr \o ret) = Len(cpuErr) + Len(ret)
    BY <1>3, <1>5, <1>6
  <2> QED
    BY <1>5, <2>3, <2>4
<1> DEFINE rest == cpuErr \o ret
<1> HIDE DEF rest
<1>10. /\ frame \in Seq(W) /\ Len(frame) = 5
       /\ frame[1] = Word("vector", v) /\ frame[3] = Word("eip", 0)
  <2>1. /\ rest \in Seq(W) /\ Len(rest) = Len(cpuErr) + 3 /\ rest[Len(cpuErr) + 1] = ret[1]
        /\ frame = first \o rest
    BY <1>7, <1>9 DEF rest
  <2>2. /\ frame \in Seq(W) /\ Len(frame) = Len(first) + Len(rest)
        /\ \A k \in 1 .. Len(first) : frame[k] = first[k]
        /\ \A k \in 1 .. Len(rest) : frame[Len(first) + k] = rest[k]
    BY <1>3, <1>8, <2>1
  <2>3. frame[Len(first) + (Len(cpuErr) + 1)] = ret[1] /\ frame[1] = first[1]
    <3>1. Len(cpuErr) + 1 \in 1 .. Len(rest) /\ 1 \in 1 .. Len(first)
      BY <1>6, <1>8, <2>1
    <3> QED
      BY <2>1, <2>2, <3>1
  <2>4. Len(first) + (Len(cpuErr) + 1) = 3 /\ Len(frame) = 5
    <3>1. CASE Len(err) = 0 /\ Len(cpuErr) = 1
      BY <1>8, <2>1, <2>2, <3>1
    <3>2. CASE Len(err) = 1 /\ Len(cpuErr) = 0
      BY <1>8, <2>1, <2>2, <3>2
    <3> QED
      BY <1>6, <3>1, <3>2
  <2> QED
    BY <1>5, <1>8, <2>2, <2>3, <2>4
<1>11. (regs \o frame)[9] = frame[1] /\ (regs \o frame)[11] = frame[3]
  <2>1. \A k \in 1 .. Len(frame) : (regs \o frame)[Len(regs) + k] = frame[k]
    BY <1>2, <1>3, <1>10
  <2>2. 1 \in 1 .. Len(frame) /\ 3 \in 1 .. Len(frame)
    BY <1>10
  <2>3. (regs \o frame)[Len(regs) + 1] = frame[1] /\ (regs \o frame)[Len(regs) + 3] = frame[3]
    BY <2>1, <2>2
  <2>4. Len(regs) + 1 = 9 /\ Len(regs) + 3 = 11
    BY <1>2
  <2> QED
    BY <2>3, <2>4
<1>12. Pushad(StubFrame(v)) = regs \o frame
  BY DEF Pushad, regs, frame
<1>13. Word("eip", 0).what = "eip"
  BY DEF Word
<1> QED
  BY <1>10, <1>11, <1>12, <1>13

(* The inductive invariant holds throughout. *)
LEMMA IntAlways == IntSpec => []IntInv
<1>1. IntInv /\ [IntNext]_intVars => IntInv'
  BY BootInv, AcknowledgeInv, EoiInv, OtherInv DEF IntNext, Execute
<1> QED
  BY <1>1, IntInitInv, PTL DEF IntSpec

(* Over the boot of ck_main: while interrupts are on, each line has its own
   stub in the descriptor table and the C handler its driver registered. *)
THEOREM HandlersReady == IntSpec => []HandlersInPlace
<1>1. IntInv => HandlersInPlace
  <2> SUFFICES ASSUME IntInv, IF_, NEW l \in 0 .. 15
               PROVE  idt[Vector(l)] = Stub("irq", l) /\ handlers[l] = Registered(l)
    BY DEF HandlersInPlace
  <2>1. BootProgress /\ done = 7
    BY DEF IntInv, FlagLast
  <2>2. handlers[l] = Registered(l)
    BY <2>1 DEF BootProgress, Registered
  <2> QED
    BY <2>1, <2>2, OwnStub
<1> QED
  BY <1>1, IntAlways, PTL

(* For every set of lines and any requests, spurious ones included: the
   end-of-interrupt commands of ck_irq_handler end the interrupt being
   handled and no other. *)
THEOREM InterruptsCorrect == IntSpec => []ServiceMatches
<1>1. IntInv => ServiceMatches
  BY DEF IntInv
<1> QED
  BY <1>1, IntAlways, PTL

(* Every report of ck_exception_handler names the exception that occurred, has
   an "err=" field exactly when the processor pushed an error code, and finds
   the frame where the processor left it, at any point after the stubs are
   installed.  That the field holds the vector is shown by ErrorCodeShown. *)
THEOREM FaultsNamed == IntSpec => []FaultReported
<1>1. IntInv => FaultReported
  <2> SUFFICES ASSUME IntInv, cpu = "halted"
               PROVE  /\ report.vector = fault
                      /\ report.error # << >> <=> fault \in CpuPushesError
                      /\ report.returns = "eip"
    BY DEF FaultReported
  <2> DEFINE stack == Pushad(StubFrame(fault))
  <2>1. report = Report(fault) /\ stack[9] = Word("vector", fault) /\ stack[11].what = "eip"
    BY StackWords DEF IntInv, ReportKept
  <2> HIDE DEF stack
  <2>2. stack[9].value = fault
    BY <2>1 DEF Word
  <2>3. report = [vector |-> fault,
                  error |-> IF fault \in CpuPushesError THEN <<stack[9]>> ELSE << >>,
                  returns |-> "eip"]
    BY <2>1, <2>2 DEF Report, stack, ErrorShown, CpuPushesError
  <2>4. <<stack[9]>> # << >>
    OBVIOUS
  <2> QED
    BY <2>3, <2>4
<1> QED
  BY <1>1, IntAlways, PTL
============================================================================
