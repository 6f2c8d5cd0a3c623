------------------------------ MODULE Monitor ------------------------------
(***************************************************************************)
(* The task monitor (src/kernel/visualizer.c): its loop drains the         *)
(* keyboard, waits for the time of the next frame, runs the tasks once and *)
(* draws each task's share of the work done since the last frame.  The     *)
(* work is in counters that wrap, and prev_counters outlives the monitor,  *)
(* while the shell's loop runs the tasks unwatched between two uses of it. *)
(* A call of a task's function adds to the counter of that function        *)
(* (src/kernel/kernel_tasks.c); the rows are numbered by task.  The game   *)
(* is in KernelTasks; text and layout are left out.                        *)
(***************************************************************************)
EXTENDS Integers, Sequences, FiniteSetsExt, Functions

CONSTANTS
    Functions,  \* number of task functions, 3
    Works,      \* amounts of work a call of a task's function may add, 1 .. 25
    Word,       \* 2^32, where the work counters wrap
    TickWord,   \* 2^32, where the tick counter wraps
    FrameMs,    \* frame_ms, 50
    Percent,    \* 100
    BarWidth,   \* cells of a bar, 20
    MaxAway,    \* bound: rounds of the tasks from one frame to the next
    Buffer,     \* keys the keyboard keeps, 255; one more is lost
    MaxBurst    \* bound: keys that arrive while the keyboard is drained

ASSUME MonitorAssumption ==
    /\ {Word, TickWord, Percent, BarWidth} \subseteq Nat \ {0}
    /\ {Functions, FrameMs, Buffer, MaxBurst} \subseteq Nat
    /\ MaxAway \in Nat \ {0}
    /\ Works \subseteq Nat
    /\ FrameMs < TickWord

VARIABLES
    counter,         \* ck_task_counter: function -> work, modulo Word
    prev_counters,   \* the same at the last frame
    funcs,           \* the functions of the tasks that ck_main could create, by id
    ticks,           \* what ck_timer_get_ticks returns
    last_draw,       \* ticks at the last frame of this use of the monitor
    keys,            \* what waits in the keyboard: "quit", "other", or "mute",
                     \* a key with no character, for which read_char returns 0
    exit_requested,
    pc,              \* "shell" outside; "drain", "test" and "draw" in the loop
    work,            \* history: task -> work since the last frame, not wrapped
    away,            \* history: rounds since the last frame, bounded by MaxAway
    since,           \* history: ticks since the last frame of this use, up to FrameMs
    lag,             \* history: ticks since the clock was last compared
    burst            \* history: keys since draining began, bounded by MaxBurst

counts == <<counter, prev_counters, work, away>>
clock == <<ticks, last_draw, since, lag>>
input == <<keys, exit_requested, burst>>
monVars == <<counts, funcs, clock, input, pc>>

Ids == 0 .. Functions - 1
Tasks == 0 .. Len(funcs) - 1
Func(t) == funcs[t + 1]

(* ck_main creates a task for each function, in order; any creation may fail. *)
MonInit ==
    /\ \E n \in 0 .. Functions : funcs \in [1 .. n -> Ids]
    /\ \A j, k \in 1 .. Len(funcs) : j < k => funcs[j] < funcs[k]
    /\ counter = [f \in Ids |-> 0]
    /\ prev_counters = counter
    /\ ticks \in 0 .. TickWord - 1
    /\ last_draw = 0
    /\ keys = << >>
    /\ exit_requested = FALSE
    /\ pc = "shell"
    /\ work = [t \in Tasks |-> 0]
    /\ away = 0 /\ since = FrameMs /\ lag = 0 /\ burst = 0

(* ck_scheduler_run_tasks as the counters see it. *)
RunTasks ==
    /\ away < MaxAway
    /\ away' = away + 1
    /\ \E w \in [Tasks -> Works] :
          /\ work' = [t \in Tasks |-> work[t] + w[t]]
          /\ counter' = [f \in Ids |->
                (counter[f] + SumFunctionOnSet(w, {t \in Tasks : Func(t) = f})) % Word]
    /\ UNCHANGED prev_counters

(* The shell's loop; it leaves one round to the monitor's next frame. *)
ShellRound ==
    /\ pc = "shell"
    /\ away + 1 < MaxAway
    /\ RunTasks
    /\ UNCHANGED <<funcs, clock, input, pc>>

-----------------------------------------------------------------------------

(* The local variables as ck_visualizer_run_monitor begins with them. *)
FreshLocals ==
    /\ last_draw' = 0
    /\ exit_requested' = FALSE
    /\ since' = FrameMs /\ lag' = 0 /\ burst' = 0

Start ==
    /\ pc = "shell"
    /\ FreshLocals
    /\ pc' = "drain"
    /\ UNCHANGED <<counts, funcs, ticks, keys>>

LastKeyQuits == Head(keys) = "quit"
ExitAfterKey == exit_requested \/ Head(keys) = "quit"

DrainKey ==
    /\ pc = "drain"
    /\ keys # << >> /\ Head(keys) # "mute"
    /\ exit_requested' = ExitAfterKey
    /\ keys' = Tail(keys)
    /\ UNCHANGED <<counts, funcs, clock, burst, pc>>

(* Draining ends at the first 0: no key waits, or a key without a character
   was taken, and the keys behind it are left for the next pass. *)
DrainEnd ==
    /\ pc = "drain"
    /\ \/ keys = << >> /\ UNCHANGED keys
       \/ keys # << >> /\ Head(keys) = "mute" /\ keys' = Tail(keys)
    /\ pc' = "test"
    /\ burst' = 0
    /\ UNCHANGED <<counts, funcs, clock, exit_requested>>

(* Keys that come after the last draining are left to the shell. *)
Quit ==
    /\ pc = "test"
    /\ exit_requested
    /\ FreshLocals
    /\ keys' = << >>
    /\ pc' = "shell"
    /\ UNCHANGED <<counts, funcs, ticks>>

TooEarlyByDeadline == ticks < (last_draw + FrameMs) % TickWord
TooEarlyWidened == ticks < last_draw + FrameMs
TooEarly == (ticks - last_draw) % TickWord < FrameMs

Throttled ==
    /\ pc = "test"
    /\ ~ exit_requested /\ TooEarly
    /\ lag' = 0
    /\ pc' = "drain"
    /\ UNCHANGED <<counts, funcs, ticks, last_draw, since, input>>

Round ==
    /\ pc = "test"
    /\ ~ exit_requested /\ ~ TooEarly
    /\ last_draw' = ticks
    /\ since' = 0 /\ lag' = 0
    /\ RunTasks
    /\ pc' = "draw"
    /\ UNCHANGED <<funcs, ticks, input>>

(* deltas, total_delta, the percentage and the cells of the bar of row t *)
DeltaUnwrapped(t) == IF counter[t] >= prev_counters[t] THEN counter[t] - prev_counters[t] ELSE 0
Delta(t) == (counter[t] - prev_counters[t]) % Word

TotalDelta ==
    LET sum == SumFunctionOnSet([t \in Tasks |-> Delta(t)], Tasks) % Word
    IN  IF sum = 0 THEN 1 ELSE sum

Share(t) == ((Delta(t) * Percent) % Word) \div TotalDelta
Filled(t) == Min({((Delta(t) * BarWidth) % Word) \div TotalDelta, BarWidth})

PrevAfterDraw == [f \in Ids |-> IF f \in Tasks THEN counter[f] ELSE prev_counters[f]]

Draw ==
    /\ pc = "draw"
    /\ prev_counters' = PrevAfterDraw
    /\ pc' = "drain"
    /\ work' = [t \in Tasks |-> 0]
    /\ away' = 0
    /\ UNCHANGED <<counter, funcs, clock, input>>

-----------------------------------------------------------------------------

(* The timer interrupt.  Bound: the clock is compared before it can run past
   all the values at which a frame is due. *)
Tick ==
    /\ pc # "shell" => lag < TickWord - FrameMs
    /\ ticks' = (ticks + 1) % TickWord
    /\ IF pc = "shell" THEN UNCHANGED <<since, lag>>
       ELSE since' = (IF since < FrameMs THEN since + 1 ELSE since) /\ lag' = lag + 1
    /\ UNCHANGED <<counts, funcs, last_draw, input, pc>>

KeyKinds == {"quit", "other", "mute"}

(* A key for the monitor; one typed ahead comes just after the start. *)
Key(k) ==
    /\ pc # "shell"
    /\ burst < MaxBurst /\ Len(keys) < Buffer
    /\ burst' = burst + 1
    /\ keys' = Append(keys, k)
    /\ UNCHANGED <<counts, funcs, clock, exit_requested, pc>>

Loop == DrainKey \/ DrainEnd \/ Quit \/ Throttled \/ Round \/ Draw

MonNext == ShellRound \/ Start \/ Loop \/ Tick \/ \E k \in KeyKinds : Key(k)

(* The monitor's loop runs and the timer ticks; nobody has to type. *)
MonSpec == MonInit /\ [][MonNext]_monVars /\ WF_monVars(Loop) /\ WF_monVars(Tick)

-----------------------------------------------------------------------------

(* Every creation up to the last task's succeeded. *)
RowsOwn == \A t \in Tasks : Func(t) = t

(* A frame shows each task's exact share of the work done since the frame
   before, in this use of the monitor or an earlier one, across the wrap of
   the counters, as long as a hundred times that work fits in a word. *)
SharesExact ==
    LET total == SumFunctionOnSet(work, Tasks)
        whole == IF total = 0 THEN 1 ELSE total
    IN  pc = "draw" /\ RowsOwn /\ total * Percent < Word /\ total * BarWidth < Word =>
            \A t \in Tasks : /\ Share(t) = (work[t] * Percent) \div whole
                             /\ Filled(t) = (work[t] * BarWidth) \div whole

(* Two frames of one use of the monitor are at least FrameMs ticks apart,
   also when the tick counter wraps between them. *)
FramesApart == [][Round => since >= FrameMs]_monVars

(* A quit that reached the keyboard's buffer is obeyed whatever is typed before
   and after it, also when a key without a character cuts the draining. *)
QuitObeyed ==
    pc # "shell" /\ (exit_requested \/ \E k \in 1 .. Len(keys) : keys[k] = "quit") ~> pc = "shell"

(* The display never freezes: the next frame comes, unless the user quits. *)
FramesGoOn == pc = "test" ~> pc \in {"draw", "shell"}
============================================================================
