------------------------------- MODULE Shell -------------------------------
(***************************************************************************)
(* The shell (src/kernel/shell.c): the line editor, the screen with its    *)
(* cursor and its scrolling, the status line, the history and the          *)
(* commands.                                                               *)
(*                                                                         *)
(* What a command does to the screen is a sequence of operations, out,     *)
(* carried out one per step: a character to write, a line feed, or one of  *)
(* the operations named below.  The fixed texts and the numbers that the   *)
(* commands print are members of Texts.  A cell of the screen is the       *)
(* character in it; colours are left out, and so is the text of the status *)
(* line, whose cells all hold StatusCell.                                  *)
(***************************************************************************)
EXTENDS Integers, Sequences

CONSTANTS
    Width, Height,  \* VGA_WIDTH and VGA_HEIGHT, 80 and 25
    LineMax,        \* sizeof(input_buffer) - 1, 255
    NameMax,        \* sizeof(cmd_name) - 1, 63
    ArgsMax,        \* sizeof(cmd_args) - 1, 127
    HistorySize,    \* CK_HISTORY_SIZE, 10
    HistoryLine,    \* CK_HISTORY_LINE_SIZE - 1, 63
    Letters,        \* the printable characters other than the space
    Commands,       \* word -> "echo", "history", "taskmon", "clear", "reboot" or "text"
    Texts,          \* texts that the commands print, as sequences
    Word,           \* 2^32, where the tick counter wraps
    MaxTyped        \* bound: keys typed that have an effect

Blank == " "
LineFeed == "lf"
Backspace == "bs"
StatusCell == "status"
MonitorCell == "monitor"    \* a cell as the task monitor leaves it

(* Operations beside writing a character or a line feed. *)
ClearScreen == "clear"      \* the screen of the command clear
RunMonitor == "taskmon"
Restart == "restart"        \* the empty screen that ck_shell_run begins with
ListEntries == "history"    \* the loop of the command history
Halt == "halt"
Operations == {LineFeed, ClearScreen, RunMonitor, Restart, ListEntries, Halt}

ShellChars == Letters \cup {Blank}
Prompt == <<">", Blank>>

ASSUME ShellAssumption ==
    /\ {Width, Height, LineMax, HistorySize, Word} \subseteq Nat \ {0}
    /\ {NameMax, ArgsMax, HistoryLine, MaxTyped} \subseteq Nat
    /\ Height > 3
    /\ LineMax + Len(Prompt) <= (Height - 2) * Width
    /\ Letters \cap (Operations \cup {Blank, Backspace}) = {}
    /\ ">" \in Letters
    /\ Texts \subseteq Seq(ShellChars \cup {LineFeed})
    /\ \A word \in DOMAIN Commands :
          Commands[word] \in {"echo", "history", "taskmon", "clear", "reboot", "text"}

VARIABLES
    vga,           \* VGA_BUFFER: cell -> character
    cursor_pos,    \* ck_cursor_pos
    hw_cursor,     \* external: the cursor position of the VGA controller
    line,          \* input_buffer[0 .. input_len - 1]
    hist,          \* ck_history
    history_count, \* ck_history_count
    ticks,         \* what ck_timer_get_ticks returns
    last_ticks,    \* last_ticks of ck_shell_draw_status
    pc,            \* "status" and "read" in the loop; "write", "monitor", "halted"
    out,           \* what is still to be done on the screen, see above
    listed,        \* the loop variable of the command history
    executed,      \* history: the commands entered that are not empty
    typed          \* history: keys that had an effect, bounded by MaxTyped

screen == <<vga, cursor_pos, hw_cursor>>
commandLog == <<hist, history_count, executed>>
shellVars == <<screen, line, commandLog, ticks, last_ticks, pc, out, listed, typed>>

Size == Height * Width
Cells == 0 .. Size - 1
ClearedScreen == [c \in Cells |-> Blank]

-----------------------------------------------------------------------------

(* ck_vga_write_char, with its scrolling *)
LastRowKept == [c \in Cells |-> IF c < Size - Width THEN vga[c + Width] ELSE vga[c]]
Scrolled == [c \in Cells |-> IF c < Size - Width THEN vga[c + Width] ELSE Blank]

WriteChar(c) ==
    /\ \/ /\ cursor_pos < Size
          /\ vga' = [vga EXCEPT ![cursor_pos] = c]
          /\ cursor_pos' = cursor_pos + 1
       \/ /\ cursor_pos >= Size
          /\ vga' = [Scrolled EXCEPT ![Size - Width] = c]
          /\ cursor_pos' = Size - Width + 1
    /\ hw_cursor' = cursor_pos'

(* ck_vga_newline: the screen scrolls only when something is written. *)
NextLine == (cursor_pos \div Width + 1) * Width

NewLine ==
    /\ cursor_pos' = NextLine
    /\ hw_cursor' = NextLine
    /\ UNCHANGED vga

(* ck_shell_draw_status: nothing within one tick of the last time. *)
LaterTick == ticks > last_ticks
NewTick == ticks # last_ticks

StatusOver(cells) ==
    [c \in Cells |-> IF c < Width /\ NewTick THEN StatusCell ELSE cells[c]]
StatusTick == IF NewTick THEN ticks ELSE last_ticks

-----------------------------------------------------------------------------

Prefix(s, n) == SubSeq(s, 1, IF Len(s) < n THEN Len(s) ELSE n)

(* ck_get_first_word and ck_get_args: the first word has n characters, the
   arguments begin at character m. *)
Splits(s, n, m) ==
    /\ \A i \in 1 .. n : s[i] # Blank
    /\ n < Len(s) => s[n + 1] = Blank
    /\ n < m
    /\ \A i \in n + 1 .. m - 1 : s[i] = Blank
    /\ m <= Len(s) => s[m] # Blank

(* ck_history_add *)
HistoryUnshifted(cmd) == [hist EXCEPT ![HistorySize - 1] = Prefix(cmd, HistoryLine)]
HistoryShifted(cmd) ==
    [i \in 0 .. HistorySize - 1 |->
        IF i < HistorySize - 1 THEN hist[i + 1] ELSE Prefix(cmd, HistoryLine)]

HistoryAdd(cmd) ==
    /\ executed' = Append(executed, cmd)
    /\ IF history_count < HistorySize
       THEN /\ hist' = [hist EXCEPT ![history_count] = Prefix(cmd, HistoryLine)]
            /\ history_count' = history_count + 1
       ELSE /\ hist' = HistoryShifted(cmd)
            /\ UNCHANGED history_count

(* ck_shell_execute: what the command does to the screen, with text for the
   fixed text that it prints, up to the prompt that ck_shell_run writes after
   it.  taskmon ends with a banner and a prompt of its own. *)
Kind(name) ==
    IF name = << >> THEN "empty" ELSE IF name \in DOMAIN Commands THEN Commands[name] ELSE "text"

Executes(name, args, text, banner, ops) ==
    \/ Kind(name) = "empty"   /\ ops = Prompt
    \/ Kind(name) = "text"    /\ ops = text \o Prompt
    \/ Kind(name) = "echo"    /\ ops = (IF args = << >> THEN text ELSE Append(args, LineFeed)) \o Prompt
    \/ Kind(name) = "history" /\ ops = text \o <<ListEntries>> \o Prompt
    \/ Kind(name) = "taskmon" /\ ops = text \o <<RunMonitor, Restart>> \o banner \o Prompt \o Prompt
    \/ Kind(name) = "clear"   /\ ops = <<ClearScreen>> \o text \o Prompt
    \/ Kind(name) = "reboot"  /\ ops = text \o <<Halt>> \o Prompt

-----------------------------------------------------------------------------

(* ck_shell_run up to its loop: the screen is cleared, the status drawn
   unless no tick has passed, and the banner waits to be written. *)
ShellInit ==
    /\ ticks \in 0 .. Word - 1
    /\ last_ticks = ticks
    /\ vga = [c \in Cells |-> IF c < Width /\ ticks # 0 THEN StatusCell ELSE Blank]
    /\ cursor_pos = 2 * Width
    /\ hw_cursor = 2 * Width
    /\ line = << >>
    /\ hist = [i \in 0 .. HistorySize - 1 |-> << >>]
    /\ history_count = 0
    /\ pc = "write"
    /\ \E banner \in Texts : out = banner \o Prompt
    /\ listed = 0
    /\ executed = << >>
    /\ typed = 0

(* The timer interrupt.  Bound: fewer than Word ticks from one drawing of
   the status line to the next. *)
Tick ==
    /\ pc # "halted"
    /\ (ticks + 1) % Word # last_ticks
    /\ ticks' = (ticks + 1) % Word
    /\ UNCHANGED <<screen, line, commandLog, last_ticks, pc, out, listed, typed>>

(* The loop: the tasks, which leave all of this alone, then the status. *)
DrawStatus ==
    /\ pc = "status"
    /\ vga' = StatusOver(vga)
    /\ last_ticks' = StatusTick
    /\ pc' = "read"
    /\ UNCHANGED <<cursor_pos, hw_cursor, line, commandLog, ticks, out, listed, typed>>

(* No key, or one without effect: a character that is neither printable nor
   one of the two above, a character when the line is full, a backspace when
   it is empty.  Only keys with an effect count as typed. *)
ReadNothing ==
    /\ pc = "read"
    /\ pc' = "status"
    /\ UNCHANGED <<screen, line, commandLog, ticks, last_ticks, out, listed, typed>>

Type ==
    /\ pc = "read"
    /\ typed < MaxTyped
    /\ typed' = typed + 1
    /\ UNCHANGED <<ticks, last_ticks, listed>>

Enter ==
    /\ Type
    /\ NewLine
    /\ IF line = << >> THEN UNCHANGED commandLog ELSE HistoryAdd(line)
    /\ \E text, banner \in Texts, n \in 0 .. Len(line), m \in 1 .. Len(line) + 1 :
          /\ Splits(line, n, m)
          /\ Executes(Prefix(Prefix(line, n), NameMax),
                      Prefix(SubSeq(line, m, Len(line)), ArgsMax), text, banner, out')
    /\ line' = << >>
    /\ pc' = "write"

EraseAlways == TRUE
CanErase == line # << >>

Erase ==
    /\ Type
    /\ CanErase
    /\ line' = Prefix(line, Len(line) - 1)
    /\ vga' = [vga EXCEPT ![cursor_pos - 1] = Blank]
    /\ cursor_pos' = cursor_pos - 1
    /\ hw_cursor' = cursor_pos - 1
    /\ pc' = "status"
    /\ UNCHANGED <<commandLog, out>>

FullOneLate == Len(line) > LineMax
LineFull == Len(line) >= LineMax

Insert(c) ==
    /\ Type
    /\ ~ LineFull
    /\ line' = Append(line, c)
    /\ WriteChar(c)
    /\ pc' = "status"
    /\ UNCHANGED <<commandLog, out>>

ReadChar(c) ==
    \/ c = LineFeed /\ Enter
    \/ c = Backspace /\ Erase
    \/ c \in ShellChars /\ Insert(c)

-----------------------------------------------------------------------------

(* The operations on the screen, one per step; then back to the loop. *)
RestStuck == IF Head(out) = LineFeed THEN Tail(out) ELSE out
Rest == Tail(out)

Proceed(rest) ==
    /\ out' = rest
    /\ pc' = IF Head(out) = RunMonitor THEN "monitor"
             ELSE IF Head(out) = Halt THEN "halted"
             ELSE IF rest = << >> THEN "status" ELSE "write"

(* An entry of the history: its number, a letter here, and the command. *)
Entry(i) == <<">">> \o hist[i] \o <<LineFeed>>

DoListEntries ==
    /\ \/ listed < history_count /\ listed' = listed + 1 /\ Proceed(Entry(listed) \o out)
       \/ listed >= history_count /\ listed' = 0 /\ Proceed(Rest)
    /\ UNCHANGED <<screen, last_ticks>>

(* clear leaves the controller's cursor to the text that follows. *)
DoClear ==
    /\ vga' = ClearedScreen
    /\ cursor_pos' = Width
    /\ hw_cursor' = 0
    /\ UNCHANGED last_ticks

DoRestart ==
    /\ vga' = StatusOver(ClearedScreen)
    /\ last_ticks' = StatusTick
    /\ cursor_pos' = 2 * Width
    /\ hw_cursor' = 2 * Width

DoOther ==
    /\ Proceed(Rest)
    /\ UNCHANGED listed
    /\ \/ Head(out) = LineFeed /\ NewLine /\ UNCHANGED last_ticks
       \/ Head(out) \notin Operations /\ WriteChar(Head(out)) /\ UNCHANGED last_ticks
       \/ Head(out) = ClearScreen /\ DoClear
       \/ Head(out) = Restart /\ DoRestart
       \/ Head(out) \in {RunMonitor, Halt} /\ UNCHANGED <<screen, last_ticks>>

Write ==
    /\ pc = "write"
    /\ IF Head(out) = ListEntries THEN DoListEntries ELSE DoOther
    /\ UNCHANGED <<line, commandLog, ticks, typed>>

(* The monitor returns when it is told to quit. *)
MonitorQuit ==
    /\ pc = "monitor"
    /\ pc' = "write"
    /\ vga' = [c \in Cells |-> MonitorCell]
    /\ UNCHANGED <<cursor_pos, hw_cursor, line, commandLog, ticks, last_ticks, out, listed, typed>>

Loop == DrawStatus \/ ReadNothing \/ Write

ShellNext ==
    \/ Tick
    \/ Loop
    \/ \E c \in ShellChars \cup {LineFeed, Backspace} : ReadChar(c)
    \/ MonitorQuit

(* The loop never waits for a key, and the timer keeps ticking until the
   processor is halted.  Nobody has to type, or to quit the monitor. *)
ShellSpec == ShellInit /\ [][ShellNext]_shellVars /\ WF_shellVars(Loop) /\ WF_shellVars(Tick)

-----------------------------------------------------------------------------

(* Types; in particular the input never outgrows its buffer. *)
ShellTypeOK ==
    /\ vga \in [Cells -> ShellChars \cup {StatusCell, MonitorCell}]
    /\ cursor_pos \in Nat /\ hw_cursor \in Nat
    /\ line \in Seq(ShellChars) /\ Len(line) <= LineMax
    /\ hist \in [0 .. HistorySize - 1 -> Seq(ShellChars)]
    /\ history_count \in 0 .. HistorySize
    /\ {ticks, last_ticks} \subseteq 0 .. Word - 1
    /\ pc \in {"status", "read", "write", "monitor", "halted"}
    /\ out \in Seq(ShellChars \cup Operations)
    /\ listed \in 0 .. HistorySize

Editing == pc \in {"status", "read"}

(* The cells before the cursor show the prompt and the line. *)
LineOnScreen ==
    LET shown == Prompt \o line
        start == cursor_pos - Len(shown)
    IN  Editing => /\ Width <= start /\ cursor_pos <= Size
                   /\ \A k \in 1 .. Len(shown) : vga[start + k - 1] = shown[k]

(* The controller's cursor is at the cell where the next character goes. *)
CursorInPlace == Editing => hw_cursor = cursor_pos

(* Whenever the shell reads a key, the cells before the cursor show the
   prompt and the line being edited, below the status line, and the visible
   cursor is behind it: across wrapped lines, scrolling, erasing, redrawn
   status lines and the commands before. *)
LineShown == LineOnScreen /\ CursorInPlace

(* From the cursor on the screen is empty, so that no character is ever
   written over another one; only the monitor draws there, and the screen is
   cleared when it returns. *)
EmptyAhead ==
    \/ pc \in {"monitor", "write"} /\ out # << >> /\ Head(out) = Restart
    \/ Width <= cursor_pos /\ \A c \in Cells : cursor_pos <= c => vga[c] = Blank

(* The history holds the last commands entered, in order, each cut to the
   size of an entry. *)
HistoryIsRecent ==
    /\ history_count = IF Len(executed) < HistorySize THEN Len(executed) ELSE HistorySize
    /\ \A i \in 0 .. history_count - 1 :
          hist[i] = Prefix(executed[Len(executed) - history_count + i + 1], HistoryLine)

(* Every command gives the shell back: the next key is read, unless the
   monitor runs or reboot has halted the processor. *)
CommandsEnd == pc = "write" ~> pc \in {"read", "monitor", "halted"}

(* The status line comes back after a scroll, clear or the monitor took it
   away, also when the tick counter wraps. *)
StatusReturns ==
    Editing ~> pc \notin {"status", "read"} \/ \A c \in 0 .. Width - 1 : vga[c] = StatusCell
============================================================================
