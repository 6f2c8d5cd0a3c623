----------------------------- MODULE Keyboard -----------------------------
(***************************************************************************)
(* The PS/2 keyboard driver (src/drivers/keyboard.c) with the tick counter *)
(* of src/drivers/timer.c.                                                 *)
(*                                                                         *)
(* Two interrupt handlers run to completion, with interrupts off, between  *)
(* any two instructions of the kernel thread.  The kernel thread calls     *)
(* ck_keyboard_read_char over and over (the shell's loop and the monitor's *)
(* loop); each load or store of a shared variable in it is a step of its   *)
(* own, in the order in which the code makes them.                         *)
(***************************************************************************)
EXTENDS Integers, Sequences

CONSTANTS
    BufferSize,    \* CK_KEYBOARD_BUFFER_SIZE, 256
    InitialDelay,  \* CK_KEY_REPEAT_INITIAL_DELAY, 500 ticks
    Interval,      \* CK_KEY_REPEAT_INTERVAL, 50 ticks
    Word,          \* 2^32, where the tick counter wraps
    Keys,          \* make codes of the keys that are not shift keys
    Shifts,        \* make codes of the shift keys, 0x2A and 0x36
    Printable,     \* the keys whose table entry is not 0
    MaxPresses     \* bound on the number of make codes of Keys received

ASSUME KeyboardAssumption ==
    /\ BufferSize \in Nat \ {0}
    /\ InitialDelay \in Nat \ {0}
    /\ Interval \in Nat \ {0}
    /\ Word \in Nat \ {0}
    /\ InitialDelay < Word
    /\ Keys \subseteq Nat \ {0}
    /\ Shifts \subseteq Nat \ {0}
    /\ Shifts \cap Keys = {}
    /\ Printable \subseteq Keys
    /\ MaxPresses \in Nat

NoKey == 0
NoPress == [key |-> NoKey, shift |-> FALSE, late |-> FALSE]

VARIABLES
    buffer, head, tail,         \* ck_keyboard_buffer, _head, _tail
    shift_pressed,              \* ck_keyboard_shift_pressed
    held_key, held_key_time,    \* ck_keyboard_held_key, _held_key_time
    last_repeat_time,           \* ck_keyboard_last_repeat_time
    timer_ticks,                \* ck_timer_ticks
    pc, scancode, now, result,  \* ck_keyboard_read_char: place, locals, result (until
                                \*   the next call)
    down,                       \* external: the keys physically down
    waiting,    \* history: presses buffered and not yet converted, in order, each with
                \*   the shift state then; late once a shift key has moved since,
                \*   and then shift means nothing
    typed,      \* history: the press converted last, until the next call
    presses,    \* history: number of presses, bounded by MaxPresses
    last,       \* history: the key pressed last
    age,        \* history: ticks since that press, up to InitialDelay
    raced,      \* history: during this call a press came in one of the windows of Races
    repeated,   \* history: the age of the key that this call repeats, when it was loaded
    overlap     \* history: two shift keys were down together, and one of them still is

ring == <<buffer, head, tail>>
repeatState == <<held_key, held_key_time, last_repeat_time>>
reader == <<pc, scancode, now, result>>
thisCall == <<raced, repeated>>
history == <<waiting, typed, presses, last, age, overlap>>
vars == <<ring, shift_pressed, repeatState, timer_ticks, reader, down, thisCall, history>>

(* One conversion table per shift state.  What a property tells apart is the
   key, the table, and whether the entry is 0. *)
NoChar == << >>
scancode_table(shift) ==
    [k \in Keys |-> IF k \in Printable THEN <<k, shift>> ELSE NoChar]
ck_scancode_to_ascii(key, shift) == scancode_table(shift)[key]

Init ==
    /\ buffer = [i \in 0 .. BufferSize - 1 |-> NoKey]
    /\ head = 0 /\ tail = 0
    /\ shift_pressed = FALSE
    /\ held_key = NoKey /\ held_key_time = 0 /\ last_repeat_time = 0
    /\ timer_ticks = 0
    /\ pc = "idle" /\ scancode = NoKey /\ now = 0 /\ result = NoChar
    /\ down = {}
    /\ waiting = << >> /\ typed = NoPress
    /\ presses = 0 /\ last = NoKey /\ age = 0 /\ raced = FALSE /\ repeated = 0
    /\ overlap = FALSE

-----------------------------------------------------------------------------

(* ck_timer_irq_handler *)
TimerIrq ==
    /\ timer_ticks' = (timer_ticks + 1) % Word
    /\ age' = IF age < InitialDelay THEN age + 1 ELSE age
    /\ UNCHANGED <<ring, shift_pressed, repeatState, reader, down,
                   thisCall, waiting, typed, presses, last, overlap>>

AllLate == [n \in DOMAIN waiting |->
               [key |-> waiting[n].key, shift |-> FALSE, late |-> TRUE]]

OtherShift(s) == \E t \in Shifts \ {s} : t \in down

(* ck_keyboard_irq_handler, by the kind of scancode read from the port. *)
ShiftMake(s) ==
    /\ down' = down \cup {s}
    /\ shift_pressed' = TRUE
    /\ overlap' = (overlap \/ OtherShift(s))
    /\ waiting' = AllLate
    /\ UNCHANGED <<ring, repeatState, timer_ticks, reader, thisCall,
                   typed, presses, last, age>>

ReleaseLost == shift_pressed
AfterRelease == FALSE

ShiftBreak(s) ==
    /\ s \in down
    /\ down' = down \ {s}
    /\ shift_pressed' = AfterRelease
    /\ overlap' = (overlap /\ OtherShift(s))
    /\ waiting' = AllLate
    /\ UNCHANGED <<ring, repeatState, timer_ticks, reader, thisCall,
                   typed, presses, last, age>>

HeldAfterAnyBreak(k) == NoKey
HeldAfterBreak(k) == IF held_key = k THEN NoKey ELSE held_key

KeyBreak(k) ==
    /\ k \in down
    /\ down' = down \ {k}
    /\ held_key' = HeldAfterBreak(k)
    /\ UNCHANGED <<ring, shift_pressed, held_key_time, last_repeat_time,
                   timer_ticks, reader, thisCall, history>>

next_head == (head + 1) % BufferSize

NeverFull == FALSE
FullOneEarly == (head + 2) % BufferSize = tail
Full == next_head = tail

Enqueue(k) ==
    \/ /\ ~ Full
       /\ buffer' = [buffer EXCEPT ![head] = k]
       /\ head' = next_head
       /\ waiting' = Append(waiting, [key |-> k, shift |-> shift_pressed, late |-> FALSE])
    \/ /\ Full
       /\ UNCHANGED <<buffer, head, waiting>>

(* The places of read_char where a press can pass for one held long enough:
   a press of a later tick than the clock value makes the differences of
   lines 141 and 145 wrap, and after them held_key is read again. *)
Races ==
    \/ pc \in {"elapsed", "since"} /\ timer_ticks # now
    \/ pc \in {"stamp", "repeat"}

DelayNotRestarted == held_key_time
PressTime == timer_ticks

(* A make code also arrives for a key already down: the keyboard repeats the
   last key by itself. *)
KeyMake(k) ==
    /\ presses < MaxPresses
    /\ presses' = presses + 1
    /\ down' = down \cup {k}
    /\ held_key' = k
    /\ held_key_time' = PressTime
    /\ last_repeat_time' = PressTime
    /\ Enqueue(k)
    /\ last' = k /\ age' = 0 /\ raced' = (raced \/ Races)
    /\ UNCHANGED <<tail, shift_pressed, timer_ticks, reader, typed, repeated, overlap>>

KeyboardIrq ==
    \/ \E s \in Shifts : ShiftMake(s) \/ ShiftBreak(s)
    \/ \E k \in Keys : KeyMake(k) \/ KeyBreak(k)

-----------------------------------------------------------------------------

driver == <<ring, shift_pressed, repeatState, timer_ticks, down>>

Return(char) ==
    /\ pc' = "idle"
    /\ scancode' = NoKey
    /\ now' = 0
    /\ result' = char
    /\ raced' = FALSE /\ repeated' = 0

Goto(place) == pc' = place /\ UNCHANGED <<now, result, thisCall>>

(* ck_keyboard_read_key: test for empty, load the slot, advance the tail. *)
ReadCheck ==
    /\ pc = "idle"
    /\ pc' = IF head = tail THEN "held" ELSE "load"
    /\ result' = NoChar
    /\ typed' = NoPress
    /\ UNCHANGED <<driver, scancode, now, thisCall, waiting, presses, last, age, overlap>>

NextSlot == buffer[tail]

ReadLoad ==
    /\ pc = "load"
    /\ scancode' = NextSlot
    /\ Goto("advance")
    /\ UNCHANGED <<driver, history>>

ReadAdvance ==
    /\ pc = "advance"
    /\ tail' = (tail + 1) % BufferSize
    /\ Goto("convert")
    /\ UNCHANGED <<buffer, head, shift_pressed, repeatState, timer_ticks, down,
                   scancode, history>>

(* The repeat test of ck_keyboard_read_char. *)
CheckHeld ==
    /\ pc = "held"
    /\ \/ held_key # NoKey /\ Goto("clock") /\ UNCHANGED scancode
       \/ held_key = NoKey /\ Return(NoChar)
    /\ UNCHANGED <<driver, history>>

ReadClock ==
    /\ pc = "clock"
    /\ now' = timer_ticks
    /\ pc' = "elapsed"
    /\ UNCHANGED <<driver, scancode, result, thisCall, history>>

DelayOver == (now - held_key_time) % Word >= InitialDelay

CheckElapsed ==
    /\ pc = "elapsed"
    /\ \/ DelayOver /\ Goto("since") /\ UNCHANGED scancode
       \/ ~ DelayOver /\ Return(NoChar)
    /\ UNCHANGED <<driver, history>>

IntervalOver == (now - last_repeat_time) % Word >= Interval

CheckInterval ==
    /\ pc = "since"
    /\ \/ IntervalOver /\ Goto("stamp") /\ UNCHANGED scancode
       \/ ~ IntervalOver /\ Return(NoChar)
    /\ UNCHANGED <<driver, history>>

StampRepeat ==
    /\ pc = "stamp"
    /\ last_repeat_time' = now
    /\ Goto("repeat")
    /\ UNCHANGED <<ring, shift_pressed, held_key, held_key_time, timer_ticks, down,
                   scancode, history>>

LoadHeld ==
    /\ pc = "repeat"
    /\ \/ /\ held_key # NoKey
          /\ scancode' = held_key
          /\ pc' = "convertRepeat"
          /\ repeated' = age
          /\ UNCHANGED <<now, result, raced>>
       \/ held_key = NoKey /\ Return(NoChar)
    /\ UNCHANGED <<driver, history>>

(* The shift state is read here, when the character is produced. *)
ShiftIgnored == FALSE
ShiftUsed == shift_pressed

Convert ==
    /\ pc \in {"convert", "convertRepeat"}
    /\ Return(ck_scancode_to_ascii(scancode, ShiftUsed))
    /\ \/ pc = "convert" /\ typed' = Head(waiting) /\ waiting' = Tail(waiting)
       \/ pc = "convertRepeat" /\ UNCHANGED <<typed, waiting>>
    /\ UNCHANGED <<driver, presses, last, age, overlap>>

ck_keyboard_read_char ==
    \/ ReadCheck \/ ReadLoad \/ ReadAdvance
    \/ CheckHeld \/ ReadClock \/ CheckElapsed \/ CheckInterval
    \/ StampRepeat \/ LoadHeld \/ Convert

Next == TimerIrq \/ KeyboardIrq \/ ck_keyboard_read_char

(* The shell's loop and the monitor's loop call ck_keyboard_read_char on
   every turn, and nothing in it waits. *)
Spec == Init /\ [][Next]_vars /\ WF_vars(ck_keyboard_read_char)

-----------------------------------------------------------------------------

(* Types and ranges of the driver's state and of read_char's locals. *)
TypeOK ==
    /\ buffer \in [0 .. BufferSize - 1 -> Keys \cup {NoKey}]
    /\ head \in 0 .. BufferSize - 1
    /\ tail \in 0 .. BufferSize - 1
    /\ shift_pressed \in BOOLEAN
    /\ held_key \in Keys \cup {NoKey}
    /\ {held_key_time, last_repeat_time, timer_ticks, now} \subseteq 0 .. Word - 1
    /\ pc \in {"idle", "load", "advance", "held", "clock", "elapsed", "since",
               "stamp", "repeat", "convert", "convertRepeat"}
    /\ scancode \in Keys \cup {NoKey}
    /\ down \subseteq Keys \cup Shifts

(* Scancodes in the buffer, and whether read_char holds one it took out. *)
Count == (head - tail) % BufferSize
InHand == IF pc = "convert" THEN 1 ELSE 0

(* The buffer holds exactly the accepted presses not yet taken, in order:
   the interrupt handler never overwrites a slot that read_key has still to
   read, and read_key never reads a slot that was not written. *)
RingHoldsRest ==
    /\ Len(waiting) = InHand + Count
    /\ \A n \in 0 .. Count - 1 :
          buffer[(tail + n) % BufferSize] = waiting[InHand + n + 1].key

(* What read_char returns for a buffered press is the character of the press
   that has waited longest, and in the case it was typed in, unless a shift
   key moved while it waited. *)
DeliveredAsTyped ==
    typed.key # NoKey =>
        \E shift \in BOOLEAN :
            /\ typed.late \/ shift = typed.shift
            /\ result = ck_scancode_to_ascii(typed.key, shift)

(* The handler keeps one flag for two shift keys.  The flag never says that
   shift is pressed when neither key is down; it misses a shift key that is
   down only once both have been down together, when the release of the
   first clears it for the second. *)
ShiftFollowsKeys ==
    LET someDown == \E s \in Shifts : s \in down
    IN  /\ shift_pressed => someDown
        /\ someDown => shift_pressed \/ overlap

(* The key that read_char would repeat is the last key pressed, and only
   while that key is physically down, whatever other keys come and go. *)
HeldKeyExact == held_key = IF last \in down THEN last ELSE NoKey

(* The key that read_char loads to repeat it (line 150) has been down for the
   initial delay, also when the tick counter wraps, unless a press came
   while read_char was in one of two windows: after a tick that followed the
   reading of the clock and before the comparisons (lines 140 to 148), or
   after the comparisons and before the key is read again (148 to 150). *)
RepeatAfterDelayUnlessRaced == pc = "convertRepeat" => raced \/ repeated = InitialDelay

(* The buffer with its two indices implements the bounded queue, including
   that whatever waits in it is taken out eventually. *)
Queue == INSTANCE KeyQueue WITH
    Capacity <- BufferSize - 1,
    queue <- [n \in 1 .. Count |-> buffer[(tail + n - 1) % BufferSize]],
    got <- IF pc = "convert" THEN scancode ELSE NoKey,
    offered <- presses

ImplementsQueue == Queue!QueueSpec
============================================================================
