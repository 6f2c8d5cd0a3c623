----------------------------- MODULE Scheduler -----------------------------
(***************************************************************************)
(* The cooperative scheduler (src/kernel/scheduler.c).  ck_main creates    *)
(* the tasks, then the shell's loop and the monitor's loop call            *)
(* ck_scheduler_run_tasks, which calls each task's function in turn on the *)
(* one kernel stack.  ck_task_create's two allocations each succeed or     *)
(* fail, and after a failed creation freed its stack they may also not     *)
(* return (see Heap); its blocks are counted so that a failure between the *)
(* two shows.                                                              *)
(***************************************************************************)
EXTENDS Integers

CONSTANTS
    MaxTasks,   \* CK_SCHEDULER_MAX_TASKS, 8
    Word,       \* 2^32, where the statistics wrap
    MaxCreates  \* bound: calls of ck_task_create in ck_main, 3 in the code

ASSUME SchedulerAssumption ==
    /\ MaxTasks \in Nat \ {0}
    /\ Word \in Nat \ {0}
    /\ MaxCreates \in Nat

READY == "ready"
RUNNING == "running"
NoTask == -1

VARIABLES
    state,             \* id -> ck_task_table[id].state
    times_run,         \* id -> ck_task_table[id].times_run
    total_ticks,       \* id -> ck_task_table[id].total_ticks
    entry,             \* id -> ck_task_table[id].entry: which call of ck_task_create
    task_count,        \* ck_task_count
    current_task_id,   \* ck_current_task_id
    context_switches,  \* ck_context_switches
    context,           \* ck_current_context.task, as an id
    pc,                \* "boot"; "regs" inside ck_task_create; "hung" in a ck_malloc
                       \* of it that does not return; "idle" in the loops;
                       \* "dispatch", "body" and "done" inside run_tasks
    i,                 \* the loop variable of run_tasks
    blocks,            \* history: heap blocks held for tasks
    creates            \* history: calls of ck_task_create, bounded by MaxCreates

table == <<state, times_run, total_ticks, entry>>
stats == <<task_count, context_switches, blocks, creates>>
schedVars == <<table, current_task_id, context, pc, i, stats>>

Slots == 0 .. MaxTasks - 1
Tasks == 0 .. task_count - 1

(* ck_scheduler_init: the table is zeroed, and READY is 0. *)
SchedInit ==
    /\ state = [t \in Slots |-> READY]
    /\ times_run = [t \in Slots |-> 0]
    /\ total_ticks = [t \in Slots |-> 0]
    /\ entry = [t \in Slots |-> 0]
    /\ task_count = 0
    /\ current_task_id = 0
    /\ context_switches = 0
    /\ context = NoTask
    /\ pc = "boot"
    /\ i = 0
    /\ blocks = 0
    /\ creates = 0

(* ck_task_create up to its first allocation.  A call with a null task, a null
   entry or an empty stack is refused like one that finds the table full or
   gets no memory. *)
TableFullLate == task_count > MaxTasks
TableFull == task_count >= MaxTasks

CreateRefused ==
    /\ pc = "boot"
    /\ creates < MaxCreates
    /\ creates' = creates + 1
    /\ UNCHANGED <<table, current_task_id, context, pc, i,
                   task_count, context_switches, blocks>>

CreateStack ==
    /\ pc = "boot"
    /\ creates < MaxCreates
    /\ ~ TableFull
    /\ creates' = creates + 1
    /\ blocks' = blocks + 1
    /\ pc' = "regs"
    /\ UNCHANGED <<table, current_task_id, context, i, task_count, context_switches>>

(* The register block cannot be had: the stack is freed. *)
StackKept == blocks
StackFreed == blocks - 1

CreateRegsFail ==
    /\ pc = "regs"
    /\ blocks' = StackFreed
    /\ pc' = "boot"
    /\ UNCHANGED <<table, current_task_id, context, i, task_count, context_switches, creates>>

Create ==
    /\ pc = "regs"
    /\ blocks' = blocks + 1
    /\ state' = [state EXCEPT ![task_count] = READY]
    /\ times_run' = [times_run EXCEPT ![task_count] = 0]
    /\ total_ticks' = [total_ticks EXCEPT ![task_count] = 0]
    /\ entry' = [entry EXCEPT ![task_count] = creates]
    /\ task_count' = task_count + 1
    /\ pc' = "boot"
    /\ UNCHANGED <<current_task_id, context, i, context_switches, creates>>

(* Once a creation has freed its stack, a later ck_malloc can search a circle
   of blocks for ever: the kernel stops there. *)
SomeFailed == task_count + (IF pc = "regs" THEN 1 ELSE 0) < creates

CreateHangs ==
    /\ pc' = "hung"
    /\ \/ pc = "boot" /\ creates < MaxCreates /\ ~ TableFull /\ SomeFailed
       \/ pc = "regs" /\ SomeFailed
       \/ pc = "hung"
    /\ UNCHANGED <<table, current_task_id, context, i, stats>>

ck_task_create == CreateRefused \/ CreateStack \/ CreateRegsFail \/ Create \/ CreateHangs

(* ck_main enables interrupts and enters the shell's loop. *)
StartShell ==
    /\ pc = "boot"
    /\ pc' = "idle"
    /\ UNCHANGED <<table, current_task_id, context, i, stats>>

(* ck_scheduler_run_tasks.  With no tasks it returns at once. *)
RunTasks ==
    /\ pc = "idle"
    /\ IF task_count = 0 THEN UNCHANGED <<pc, i>> ELSE pc' = "dispatch" /\ i' = 0
    /\ UNCHANGED <<table, current_task_id, context, stats>>

(* The guard is the test of the loop body; BLOCKED is never assigned. *)
Dispatch ==
    /\ pc = "dispatch"
    /\ i < task_count
    /\ state[i] \in {READY, RUNNING}
    /\ current_task_id' = i
    /\ state' = [state EXCEPT ![i] = RUNNING]
    /\ times_run' = [times_run EXCEPT ![i] = (@ + 1) % Word]
    /\ context_switches' = (context_switches + 1) % Word
    /\ context' = i
    /\ pc' = "body"
    /\ UNCHANGED <<total_ticks, entry, i, task_count, blocks, creates>>

(* ck_task_yield: a statistic for the task in the context, no switch. *)
Yield ==
    total_ticks' = IF context = NoTask THEN total_ticks
                   ELSE [total_ticks EXCEPT ![context] = (@ + 1) % Word]

(* The task's function: it may yield (each demo task does so at most once in
   a call, on its counter) and returns. *)
Body ==
    /\ pc = "body"
    /\ pc' = "done"
    /\ Yield \/ UNCHANGED total_ticks
    /\ UNCHANGED <<state, times_run, entry, current_task_id, context, i, stats>>

StillRunning == state
ReadyAgain == [state EXCEPT ![i] = READY]

SkipTask == i + 2
NextTask == i + 1

EndTask ==
    /\ pc = "done"
    /\ state' = ReadyAgain
    /\ i' = NextTask
    /\ pc' = "dispatch"
    /\ UNCHANGED <<times_run, total_ticks, entry, current_task_id, context, stats>>

EndRound ==
    /\ pc = "dispatch"
    /\ i >= task_count
    /\ pc' = "idle"
    /\ UNCHANGED <<table, current_task_id, context, i, stats>>

run_tasks == RunTasks \/ Dispatch \/ Body \/ EndTask \/ EndRound

SchedNext == ck_task_create \/ StartShell \/ run_tasks

(* What the scheduler may do, whatever the tasks' functions do. *)
SchedSpec == SchedInit /\ [][SchedNext]_schedVars

-----------------------------------------------------------------------------

(* Types; in particular the table never takes more tasks than it has slots. *)
SchedTypeOK ==
    /\ state \in [Slots -> {READY, RUNNING}]
    /\ times_run \in [Slots -> 0 .. Word - 1]
    /\ total_ticks \in [Slots -> 0 .. Word - 1]
    /\ entry \in [Slots -> 0 .. MaxCreates]
    /\ task_count \in 0 .. MaxTasks
    /\ current_task_id \in Slots
    /\ context_switches \in 0 .. Word - 1
    /\ context \in Slots \cup {NoTask}
    /\ pc \in {"boot", "regs", "hung", "idle", "dispatch", "body", "done"}
    /\ i \in 0 .. MaxTasks
    /\ blocks \in Nat
    /\ creates \in 0 .. MaxCreates

(* Inside a task's function that task, the one ck_scheduler_current_task
   reports and the one ck_task_yield charges are the same, and it alone is
   RUNNING; outside, no task is. *)
OneTaskRuns ==
    \A t \in Slots :
        state[t] = RUNNING <=>
            /\ pc \in {"body", "done"}
            /\ t \in Tasks
            /\ t = i /\ t = current_task_id /\ t = context

(* Whether task t has had its turn in the round under way. *)
Ran(t) ==
    IF \/ pc \in {"dispatch", "body", "done"} /\ t < i
       \/ pc \in {"body", "done"} /\ t = i
    THEN 1 ELSE 0

(* Round-robin: the run counts of any two tasks differ by whether each has
   had its turn in this round, across any number of rounds and across the
   wrap of the counters. *)
RoundRobin ==
    \A s, t \in Tasks :
        (times_run[s] - times_run[t]) % Word = (Ran(s) - Ran(t)) % Word

(* A task holds exactly its stack and its register block: a creation that
   fails half-way keeps nothing, as long as every allocation returns. *)
TasksHoldTwoBlocks == pc \notin {"regs", "hung"} => blocks = 2 * task_count

(* No task starves: once the shell runs, each task gets the processor again
   and again. *)
NoStarvation ==
    \A t \in Slots : pc = "idle" /\ t < task_count ~> state[t] = RUNNING
============================================================================
