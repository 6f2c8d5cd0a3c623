---------------------------- MODULE Interrupts ----------------------------
(***************************************************************************)
(* Interrupts and exceptions (src/interrupts/) over the boot sequence of   *)
(* ck_main: the descriptor table, the two interrupt controllers, the       *)
(* dispatch of hardware interrupts with their end-of-interrupt commands,   *)
(* and the report of a processor exception.                                *)
(*                                                                         *)
(* The controllers and the processor are modelled as far as the code       *)
(* relies on them: a request is latched until it is acknowledged, the      *)
(* controller offers the request of highest priority that no interrupt in  *)
(* service blocks, a request may go away before it is acknowledged (a      *)
(* spurious interrupt), and an interrupt gate turns interrupts off.        *)
(***************************************************************************)
EXTENDS Integers, Sequences, FiniteSets

CONSTANTS
    Lines,     \* the lines that devices drive, among 0 .. 15 without 2
    Faults,    \* the exceptions that can occur, among 0 .. 31
    MaxRaises  \* bound: requests that the devices make

ASSUME InterruptsAssumption ==
    /\ Lines \subseteq (0 .. 15) \ {2}
    /\ Faults \subseteq 0 .. 31
    /\ MaxRaises \in Nat

VARIABLES
    done,      \* how many of ck_main's initialisation calls have returned
    idt,       \* ck_idt: vector -> stub
    handlers,  \* ck_irq_handlers_c: line -> C handler
    offset,    \* external: vector offsets of master and slave
    imr,       \* external: the lines masked
    irr,       \* external: the lines with a request latched
    isr,       \* external: the lines in service; 2 is the cascade
    IF_,       \* external: the processor's interrupt flag
    cpu,       \* what the processor executes, see below
    irq,       \* the number the interrupt stub pushed
    report,    \* what ck_exception_handler printed
    fault,     \* history: the exception that occurred
    raises     \* history: requests made, bounded by MaxRaises

pic == <<offset, imr, irr, isr>>
tables == <<idt, handlers>>
intVars == <<done, tables, pic, IF_, cpu, irq, report, fault, raises>>

(* cpu is "thread" in ck_main or the shell, "handler", "eoi" and "iret" in an
   interrupt, "halted" after an exception report, "hung" in the default stub
   and "reset" after a fault without a descriptor table. *)

(* 48 to 255 are never raised and keep the default stub. *)
Vectors == 0 .. 47
Stub(kind, n) == [kind |-> kind, n |-> n]
NoStub == Stub("none", 0)
NoIrq == -1
NoReport == << >>
NoFault == -1

(* The state in which the boot loader leaves the machine: the controllers at
   the vectors of the BIOS, some lines masked and some not. *)
IntInit ==
    /\ done = 0
    /\ idt = [v \in Vectors |-> NoStub]
    /\ handlers = [l \in 0 .. 15 |-> "none"]
    /\ offset = [master |-> 8, slave |-> 112]
    /\ imr \in SUBSET Lines
    /\ irr = {} /\ isr = {}
    /\ IF_ = FALSE
    /\ cpu = "thread" /\ irq = NoIrq
    /\ report = NoReport /\ fault = NoFault
    /\ raises = 0

-----------------------------------------------------------------------------

(* The initialisation calls. *)
ck_idt_init ==
    /\ idt' = [v \in Vectors |-> Stub("default", 0)]
    /\ UNCHANGED <<handlers, pic, IF_>>

ck_exceptions_init ==
    /\ idt' = [v \in Vectors |-> IF v < 32 THEN Stub("exception", v) ELSE idt[v]]
    /\ UNCHANGED <<handlers, pic, IF_>>

(* ICW1 clears the request and service registers; the masks saved before are
   written back without those of lines 0, 1 and 2. *)
ck_pic_init ==
    /\ offset' = [master |-> 32, slave |-> 40]
    /\ imr' = imr \ {0, 1, 2}
    /\ irr' = {} /\ isr' = {}
    /\ UNCHANGED <<tables, IF_>>

IrqOf(v) == v - 32

ck_irq_init ==
    /\ handlers' = [l \in 0 .. 15 |-> "default"]
    /\ idt' = [v \in Vectors |->
                 IF IrqOf(v) \in 0 .. 15 THEN Stub("irq", IrqOf(v)) ELSE idt[v]]
    /\ UNCHANGED <<pic, IF_>>

ck_irq_set_handler(l, h) ==
    /\ handlers' = [handlers EXCEPT ![l] = h]
    /\ UNCHANGED <<idt, pic, IF_>>

sti == IF_' = TRUE /\ UNCHANGED <<tables, pic>>

(* ck_main's order; the memory and scheduler calls before sti leave all of
   this alone. *)
IrqInitLast == <<"idt", "exceptions", "pic", "timer", "keyboard", "irq", "sti">>
Order == <<"idt", "exceptions", "pic", "irq", "timer", "keyboard", "sti">>

BootCall(call) ==
    \/ call = "idt" /\ ck_idt_init
    \/ call = "exceptions" /\ ck_exceptions_init
    \/ call = "pic" /\ ck_pic_init
    \/ call = "irq" /\ ck_irq_init
    \/ call = "timer" /\ ck_irq_set_handler(0, "timer")
    \/ call = "keyboard" /\ ck_irq_set_handler(1, "keyboard")
    \/ call = "sti" /\ sti

Boot ==
    /\ cpu = "thread"
    /\ done < Len(Order)
    /\ done' = done + 1
    /\ BootCall(Order[done + 1])
    /\ UNCHANGED <<cpu, irq, report, fault, raises>>

Ready == done = Len(Order)

-----------------------------------------------------------------------------

(* The controllers.  A slave line reaches the master as line 2. *)
Raise(l) ==
    /\ raises < MaxRaises
    /\ raises' = raises + 1
    /\ irr' = irr \cup {l}
    /\ UNCHANGED <<done, tables, offset, imr, isr, IF_, cpu, irq, report, fault>>

Slave == 8 .. 15
MasterLine(l) == IF l \in Slave THEN 2 ELSE l

Blocked(l) ==
    \/ isr \cap 0 .. MasterLine(l) # {}
    \/ l \in Slave /\ isr \cap 8 .. l # {}

Requests == {l \in irr \ imr : MasterLine(l) \notin imr /\ ~ Blocked(l)}

(* Higher(k, l): line k comes before line l. *)
Higher(k, l) ==
    \/ MasterLine(k) < MasterLine(l)
    \/ MasterLine(k) = MasterLine(l) /\ k < l

Vector(l) == IF l \in Slave THEN offset.slave + l - 8 ELSE offset.master + l

(* The processor acknowledges and goes through the gate, which clears the
   interrupt flag; the stub pushes its own number. *)
Enter(l) ==
    /\ IF_' = FALSE
    /\ irq' = idt[Vector(l)].n
    /\ cpu' = IF idt[Vector(l)].kind = "irq" THEN "handler" ELSE "hung"
    /\ UNCHANGED <<done, tables, offset, imr, report, fault, raises>>

CanEnter(l) ==
    /\ IF_ /\ cpu = "thread"
    /\ l \in Requests
    /\ \A k \in Requests \ {l} : Higher(l, k)

Acknowledge(l) ==
    /\ CanEnter(l)
    /\ irr' = irr \ {l}
    /\ isr' = isr \cup {l, MasterLine(l)}
    /\ Enter(l)

(* The request went away: line 7 of the controller, with no service bit. *)
Spurious(l) ==
    /\ CanEnter(l)
    /\ irr' = irr \ {l}
    /\ isr' = IF l \in Slave THEN isr \cup {2} ELSE isr
    /\ Enter(IF l \in Slave THEN 15 ELSE 7)

(* ck_irq_handler: the C handler, which is never null here, then the end of
   interrupt.  The handlers of timer.c and keyboard.c are in Keyboard. *)
RunHandler ==
    /\ cpu = "handler"
    /\ cpu' = "eoi"
    /\ UNCHANGED <<done, tables, pic, IF_, irq, report, fault, raises>>

(* A non-specific end of interrupt ends what has the highest priority. *)
EndHighest(lines) == {l \in lines : \E k \in lines : k < l}
Master == 0 .. 7

EoiMasterOnly == EndHighest(isr \cap Master) \cup (isr \cap Slave)
AfterEoi ==
    EndHighest(isr \cap Master)
        \cup (IF irq >= 8 THEN EndHighest(isr \cap Slave) ELSE isr \cap Slave)

ck_pic_send_eoi ==
    /\ cpu = "eoi"
    /\ isr' = AfterEoi
    /\ cpu' = "iret"
    /\ UNCHANGED <<done, tables, offset, imr, irr, IF_, irq, report, fault, raises>>

FlagKept == IF_
FlagAfterIret == TRUE

Iret ==
    /\ cpu = "iret"
    /\ IF_' = FlagAfterIret
    /\ irq' = NoIrq
    /\ cpu' = "thread"
    /\ UNCHANGED <<done, tables, pic, report, fault, raises>>

-----------------------------------------------------------------------------

(* Exceptions.  The stack grows to the left; a word is what was pushed. *)
Word(what, value) == [what |-> what, value |-> value]
CpuPushesError == {8, 10, 11, 12, 13, 14, 17}

CpuFrame(v) ==
    (IF v \in CpuPushesError THEN <<Word("error", v)>> ELSE << >>)
        \o <<Word("eip", 0), Word("cs", 0), Word("eflags", 0)>>

(* The stubs: CK_ISR_WITH_ERROR for these vectors, CK_ISR_NO_ERROR, which
   pushes a 0 in place of the error code, for the others. *)
StubsWithErrorShort == {8, 10, 11, 12, 13, 14}
StubsWithError == {8, 10, 11, 12, 13, 14, 17}

StubFrame(v) ==
    <<Word("vector", v)>>
        \o (IF v \in StubsWithError THEN << >> ELSE <<Word("error", 0)>>)
        \o CpuFrame(v)

(* After pushad the eight registers lie below; the vector is loaded from
   [esp + 32], and the frame's error_code is the word after the registers. *)
Pushad(stack) == [i \in 1 .. 8 |-> Word("register", i)] \o stack
ErrorShown == {8, 10, 11, 12, 13, 14, 17}

Report(v) ==
    LET stack == Pushad(StubFrame(v))
        vector == stack[9].value
    IN  [vector |-> vector,
         error |-> IF vector \in ErrorShown THEN <<stack[9]>> ELSE << >>,
         returns |-> stack[8 + 2 + 1].what]

(* A fault of the thread or of a handler: the report, then cli and hlt. *)
Exception(v) ==
    /\ cpu \in {"thread", "handler", "eoi", "iret"}
    /\ IF_' = FALSE
    /\ fault' = v
    /\ \/ idt[v].kind = "exception" /\ cpu' = "halted" /\ report' = Report(v)
       \/ idt[v].kind = "default" /\ cpu' = "hung" /\ UNCHANGED report
       \/ idt[v].kind = "none" /\ cpu' = "reset" /\ UNCHANGED report
    /\ UNCHANGED <<done, tables, pic, irq, raises>>

Execute ==
    \/ Boot
    \/ \E l \in Lines : Acknowledge(l) \/ Spurious(l)
    \/ RunHandler \/ ck_pic_send_eoi \/ Iret

IntNext == Execute \/ (\E l \in Lines : Raise(l)) \/ (\E v \in Faults : Exception(v))

(* The processor goes on executing; devices and faults promise nothing. *)
IntSpec == IntInit /\ [][IntNext]_intVars /\ WF_intVars(Execute)

-----------------------------------------------------------------------------

(* The C handler that the code registers for a line. *)
Registered(l) == IF l = 0 THEN "timer" ELSE IF l = 1 THEN "keyboard" ELSE "default"

(* While interrupts are on, whatever line is acknowledged gets its own stub
   and its own C handler: no later initialisation call undid an earlier one
   and none was still to come. *)
HandlersInPlace ==
    IF_ => \A l \in 0 .. 15 :
              /\ idt[Vector(l)] = Stub("irq", l)
              /\ handlers[l] = Registered(l)

(* The end-of-interrupt commands end the interrupt being handled and no
   other, also for spurious interrupts, which put nothing or only the
   cascade in service; back in the thread nothing is left in service. *)
ServiceMatches ==
    /\ cpu = "thread" => isr = {}
    /\ cpu \in {"handler", "eoi"} => isr \subseteq {irq, MasterLine(irq)}

(* The exception report names the exception that occurred, has an "err=" field
   exactly when the processor pushed an error code, and finds the frame two
   words above the registers whichever stub was taken: the lists of vectors
   of the processor, of the stubs and of the C handler agree.  It does not
   say that the word in the field is the error code; see ErrorCodeShown. *)
FaultReported ==
    cpu = "halted" =>
        /\ report.vector = fault
        /\ report.error # << >> <=> fault \in CpuPushesError
        /\ report.returns = "eip"

(* "Print error code if present" (exceptions.c, ck_exception_handler): the word
   printed after "err=" is the one the processor pushed.  The code prints
   frame->error_code, and the frame has no field for the vector pushed last. *)
ErrorCodeShown ==
    cpu = "halted" => \A i \in DOMAIN report.error : report.error[i].what = "error"

(* A request on an unmasked line does not stay unanswered, whichever other
   lines ask and however the requests nest, unless a fault stops it all. *)
RequestsAnswered ==
    \A l \in Lines :
        Ready /\ l \in irr \ imr ~> l \notin irr \/ cpu = "halted"
============================================================================
