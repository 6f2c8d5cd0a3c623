---------------------------- MODULE ShellProofs ----------------------------
(***************************************************************************)
(* The safety invariants of the shell, proved for every size of the screen *)
(* and of the buffers, every command table and every text; and a measure   *)
(* of a command's output that each of its steps makes smaller.             *)
(***************************************************************************)
EXTENDS Shell, TLAPS

(* The monitor is always followed by the restart that clears its screen. *)
MonitorFollowed(s) ==
    \A k \in 1 .. Len(s) : s[k] = RunMonitor => k < Len(s) /\ s[k + 1] = Restart

(* Operations that end with the prompt. *)
Prompted(ops) ==
    /\ ops \in Seq(ShellChars \cup Operations)
    /\ MonitorFollowed(ops)
    /\ Len(ops) >= 2
    /\ ops[Len(ops) - 1] = ">" /\ ops[Len(ops)] = Blank

(* What is still to be written ends with the prompt, whose first character
   is on the screen already when only the second is left. *)
Pending ==
    /\ pc \in {"status", "read"} => out = << >>
    /\ pc \in {"write", "monitor", "halted"} => line = << >>
    /\ pc \in {"write", "monitor"} =>
          /\ out # << >>
          /\ MonitorFollowed(out)
          /\ Len(out) >= 2 => out[Len(out) - 1] = ">" /\ out[Len(out)] = Blank
          /\ Len(out) = 1 => /\ out[1] = Blank
                             /\ Width < cursor_pos /\ cursor_pos <= Size
                             /\ vga[cursor_pos - 1] = ">"
    /\ pc = "monitor" => out[1] = Restart

ShellInv ==
    /\ ShellTypeOK
    /\ executed \in Seq(Seq(ShellChars))
    /\ Pending
    /\ LineOnScreen
    /\ EmptyAhead
    /\ CursorInPlace
    /\ HistoryIsRecent

-----------------------------------------------------------------------------

(* The screen has room for the status line, a free line, and the prompt
   with the longest line (the sizes in shell.c). *)
LEMMA SizeFacts ==
    /\ Width \in Nat /\ Width > 0
    /\ Size \in Nat /\ Size >= 4 * Width
    /\ LineMax \in Nat /\ LineMax > 0 /\ LineMax + 2 <= Size - 2 * Width
    /\ HistorySize \in Nat /\ HistorySize > 0
    /\ Word \in Nat /\ Word > 0
    /\ NameMax \in Nat /\ ArgsMax \in Nat /\ HistoryLine \in Nat
<1>1. Width \in Nat \ {0} /\ Height \in Nat \ {0} /\ LineMax \in Nat \ {0}
      /\ HistorySize \in Nat \ {0} /\ Word \in Nat \ {0}
      /\ NameMax \in Nat /\ ArgsMax \in Nat /\ HistoryLine \in Nat /\ Height > 3
  BY ShellAssumption
<1>2. LineMax + 2 <= (Height - 2) * Width
  BY ShellAssumption DEF Prompt
<1>3. \A h, w \in Nat : h > 3 => h * w \in Nat /\ h * w >= 4 * w /\ (h - 2) * w = h * w - 2 * w
  OBVIOUS
<1> QED
  BY <1>1, <1>2, <1>3 DEF Size

(* No character is an operation of the screen. *)
LEMMA CharFacts ==
    /\ ">" \in ShellChars /\ Blank \in ShellChars
    /\ ShellChars \cap Operations = {}
    /\ ShellChars \cup Operations # {}
  BY ShellAssumption, Zenon DEF ShellChars, Operations, Blank, LineFeed, ClearScreen, RunMonitor,
     Restart, ListEntries, Halt

(* Cutting a string to its buffer leaves a string, and not a longer one. *)
LEMMA PrefixType ==
    ASSUME NEW S, NEW s \in Seq(S), NEW n \in Nat
    PROVE  /\ Prefix(s, n) \in Seq(S)
           /\ Len(Prefix(s, n)) = IF Len(s) < n THEN Len(s) ELSE n
           /\ \A i \in 1 .. Len(Prefix(s, n)) : Prefix(s, n)[i] = s[i]
<1> DEFINE m == IF Len(s) < n THEN Len(s) ELSE n
<1>1. m \in 0 .. Len(s)
  OBVIOUS
<1>2. \A i \in 1 .. m : s[i] \in S
  BY <1>1
<1>3. SubSeq(s, 1, m) \in Seq(S) /\ Len(SubSeq(s, 1, m)) = m
      /\ \A i \in 1 .. m : SubSeq(s, 1, m)[i] = s[i]
  BY <1>1, <1>2
<1> QED
  BY <1>3 DEF Prefix

(* The next line of the screen is a later position (ck_vga_newline). *)
LEMMA NextLineLater ==
    ASSUME cursor_pos \in Nat
    PROVE  NextLine \in Nat /\ cursor_pos < NextLine
<1>1. \A c, w \in Nat : w > 0 => (c \div w + 1) * w \in Nat /\ c < (c \div w + 1) * w
  OBVIOUS
<1> QED
  BY <1>1, SizeFacts DEF NextLine

(* The monitor stays followed by the restart in what is put together from
   parts (ck_shell_execute), and in what remains of it. *)
LEMMA FollowedConcat ==
    ASSUME NEW S, NEW s \in Seq(S), NEW t \in Seq(S), MonitorFollowed(s), MonitorFollowed(t)
    PROVE  MonitorFollowed(s \o t)
<1> SUFFICES ASSUME NEW k \in 1 .. Len(s \o t), (s \o t)[k] = RunMonitor
             PROVE  k < Len(s \o t) /\ (s \o t)[k + 1] = Restart
  BY DEF MonitorFollowed
<1>1. CASE k <= Len(s)
  <2>1. s[k] = RunMonitor
    BY <1>1
  <2>2. k < Len(s) /\ s[k + 1] = Restart
    BY <1>1, <2>1 DEF MonitorFollowed
  <2> QED
    BY <2>2
<1>2. CASE k > Len(s)
  <2> DEFINE j == k - Len(s)
  <2>1. j \in 1 .. Len(t) /\ t[j] = RunMonitor
    BY <1>2
  <2>2. j < Len(t) /\ t[j + 1] = Restart
    BY <2>1 DEF MonitorFollowed
  <2> QED
    BY <1>2, <2>2
<1> QED
  BY <1>1, <1>2

LEMMA FollowedTail ==
    ASSUME NEW S, NEW s \in Seq(S), s # << >>, MonitorFollowed(s)
    PROVE  MonitorFollowed(Tail(s))
  BY DEF MonitorFollowed

LEMMA FollowedPlain ==
    ASSUME NEW S, NEW s \in Seq(S), RunMonitor \notin S
    PROVE  MonitorFollowed(s)
  BY DEF MonitorFollowed

LEMMA PromptedConcat ==
    ASSUME NEW body \in Seq(ShellChars \cup Operations), MonitorFollowed(body)
    PROVE  Prompted(body \o Prompt)
<1>1. Prompt \in Seq(ShellChars) /\ RunMonitor \notin ShellChars
  BY CharFacts DEF Prompt, Operations
<1>2. MonitorFollowed(Prompt) /\ Prompt \in Seq(ShellChars \cup Operations)
  BY <1>1, FollowedPlain
<1>3. MonitorFollowed(body \o Prompt) /\ body \o Prompt \in Seq(ShellChars \cup Operations)
  BY <1>2, FollowedConcat
<1>4. /\ Len(body \o Prompt) = Len(body) + 2
      /\ (body \o Prompt)[Len(body) + 1] = ">" /\ (body \o Prompt)[Len(body) + 2] = Blank
  BY CharFacts DEF Prompt
<1> QED
  BY <1>3, <1>4 DEF Prompted

(* What a command does is a sequence of operations that ends with the prompt
   and in which the monitor is followed by the restart (ck_shell_execute). *)
LEMMA ExecutesType ==
    ASSUME NEW name, NEW args \in Seq(ShellChars), NEW text \in Texts,
           NEW banner \in Texts, NEW ops, Executes(name, args, text, banner, ops)
    PROVE  Prompted(ops)
<1> DEFINE plain == (ShellChars \cup Operations) \ {RunMonitor}
<1> DEFINE all == ShellChars \cup Operations
<1>1. /\ ShellChars \subseteq plain /\ {LineFeed, ClearScreen, ListEntries, Halt, Restart} \subseteq plain
      /\ RunMonitor \in all /\ Restart \in all
  BY CharFacts DEF Operations, LineFeed, ClearScreen, RunMonitor, Restart, ListEntries, Halt
<1>2. text \in Seq(plain) /\ banner \in Seq(plain) /\ args \in Seq(plain)
  <2>1. text \in Seq(ShellChars \cup {LineFeed}) /\ banner \in Seq(ShellChars \cup {LineFeed})
    BY ShellAssumption, Zenon
  <2> QED
    BY <1>1, <2>1
<1>3. \A s \in Seq(plain) : s \in Seq(all) /\ MonitorFollowed(s)
  BY FollowedPlain
<1>4. /\ << >> \in Seq(plain) /\ Append(args, LineFeed) \in Seq(plain)
      /\ text \o <<ListEntries>> \in Seq(plain) /\ text \o <<Halt>> \in Seq(plain)
      /\ <<ClearScreen>> \o text \in Seq(plain) /\ Prompt \in Seq(plain)
      /\ << >> \o Prompt = Prompt
  BY <1>1, <1>2, CharFacts DEF Prompt
<1>5. /\ text \o <<RunMonitor, Restart>> \o banner \o Prompt \in Seq(all)
      /\ MonitorFollowed(text \o <<RunMonitor, Restart>> \o banner \o Prompt)
  <2> HIDE DEF plain, all
  <2>0. \A s, t \in Seq(all) : MonitorFollowed(s) /\ MonitorFollowed(t)
           => s \o t \in Seq(all) /\ MonitorFollowed(s \o t)
    BY FollowedConcat
  <2>1. <<RunMonitor, Restart>> \in Seq(all) /\ MonitorFollowed(<<RunMonitor, Restart>>)
    BY <1>1 DEF MonitorFollowed, RunMonitor, Restart
  <2>2. /\ text \o <<RunMonitor, Restart>> \in Seq(all)
        /\ MonitorFollowed(text \o <<RunMonitor, Restart>>)
    BY <1>2, <1>3, <2>0, <2>1, Zenon
  <2>3. /\ text \o <<RunMonitor, Restart>> \o banner \in Seq(all)
        /\ MonitorFollowed(text \o <<RunMonitor, Restart>> \o banner)
    BY <1>2, <1>3, <2>0, <2>2, Zenon
  <2> QED
    BY <1>3, <1>4, <2>0, <2>3, Zenon
<1>6. \E body \in {<< >>, text, Append(args, LineFeed), text \o <<ListEntries>>,
                    text \o <<RunMonitor, Restart>> \o banner \o Prompt,
                    <<ClearScreen>> \o text, text \o <<Halt>>} : ops = body \o Prompt
  BY <1>4, Zenon DEF Executes
<1> HIDE DEF plain
<1>7. PICK body \in Seq(all) : MonitorFollowed(body) /\ ops = body \o Prompt
  BY <1>2, <1>3, <1>4, <1>5, <1>6, Zenon
<1> QED
  BY <1>7, PromptedConcat

(* Writing a character (ck_vga_write_char): it is the last one before the
   cursor, what was before the cursor is still before it, a row higher if
   the screen was full, and the screen stays empty from the cursor on. *)
LEMMA WriteCharEffect ==
    ASSUME NEW V, vga \in [Cells -> V], cursor_pos \in Nat, Width <= cursor_pos,
           \A i \in Cells : cursor_pos <= i => vga[i] = Blank,
           Blank \in V, NEW c \in V, WriteChar(c)
    PROVE  /\ vga' \in [Cells -> V]
           /\ cursor_pos' \in Nat /\ Width < cursor_pos' /\ cursor_pos' <= Size
           /\ hw_cursor' = cursor_pos'
           /\ vga'[cursor_pos' - 1] = c
           /\ \A i \in Cells : cursor_pos' <= i => vga'[i] = Blank
           /\ cursor_pos < Size =>
                 /\ cursor_pos' = cursor_pos + 1
                 /\ \A i \in Cells : i < cursor_pos => vga'[i] = vga[i]
           /\ cursor_pos >= Size =>
                 /\ cursor_pos' = Size - Width + 1
                 /\ \A i \in Cells : i < Size - Width => vga'[i] = vga[i + Width]
<1> USE SizeFacts
<1>1. CASE cursor_pos < Size
  <2>1. /\ vga' = [vga EXCEPT ![cursor_pos] = c]
        /\ cursor_pos' = cursor_pos + 1 /\ hw_cursor' = cursor_pos + 1
    BY <1>1 DEF WriteChar
  <2>2. cursor_pos \in Cells
    BY <1>1 DEF Cells
  <2> QED
    BY <1>1, <2>1, <2>2 DEF Cells
<1>2. CASE cursor_pos >= Size
  <2>1. /\ vga' = [Scrolled EXCEPT ![Size - Width] = c]
        /\ cursor_pos' = Size - Width + 1 /\ hw_cursor' = Size - Width + 1
    BY <1>2 DEF WriteChar
  <2>2. /\ Scrolled \in [Cells -> V]
        /\ \A i \in Cells : i < Size - Width => Scrolled[i] = vga[i + Width]
        /\ \A i \in Cells : i >= Size - Width => Scrolled[i] = Blank
    BY DEF Scrolled, Cells
  <2>3. Size - Width \in Cells
    BY DEF Cells
  <2> HIDE DEF Scrolled
  <2> QED
    BY <1>2, <2>1, <2>2, <2>3 DEF Cells
<1> QED
  BY <1>1, <1>2

-----------------------------------------------------------------------------

LEMMA InitInv == ShellInit => ShellInv
<1> SUFFICES ASSUME ShellInit PROVE ShellInv
  OBVIOUS
<1> USE SizeFacts DEF ShellInit
<1>1. PICK banner \in Texts : out = banner \o Prompt
  OBVIOUS
<1>2. banner \in Seq(ShellChars \cup {LineFeed})
  BY ShellAssumption
<1>3. out \in Seq(ShellChars \cup {LineFeed})
  <2>1. Prompt \in Seq(ShellChars \cup {LineFeed})
    BY CharFacts DEF Prompt
  <2> HIDE DEF ShellInit
  <2> QED
    BY <1>1, <1>2, <2>1
<1>4. ShellTypeOK
  <2>1. vga \in [Cells -> ShellChars \cup {StatusCell, MonitorCell}]
    BY CharFacts
  <2>2. out \in Seq(ShellChars \cup Operations)
    BY <1>3 DEF Operations
  <2>3. hist \in [0 .. HistorySize - 1 -> Seq(ShellChars)]
    OBVIOUS
  <2> QED
    BY <2>1, <2>2, <2>3 DEF ShellTypeOK
<1>5. executed \in Seq(Seq(ShellChars))
  OBVIOUS
<1>6. Pending
  <2>1. RunMonitor \notin ShellChars \cup {LineFeed}
    BY CharFacts DEF Operations, RunMonitor, LineFeed
  <2>2. MonitorFollowed(out)
    BY <1>3, <2>1, FollowedPlain, Zenon
  <2>3. Len(out) >= 2 /\ out # << >> /\ out[Len(out) - 1] = ">" /\ out[Len(out)] = Blank
    BY <1>1, <1>2 DEF Prompt
  <2> QED
    BY <2>2, <2>3 DEF Pending
<1>7. LineOnScreen /\ CursorInPlace
  BY DEF LineOnScreen, CursorInPlace, Editing
<1>8. EmptyAhead
  BY DEF EmptyAhead, Cells
<1>9. HistoryIsRecent
  BY DEF HistoryIsRecent
<1> QED
  BY <1>4, <1>5, <1>6, <1>7, <1>8, <1>9 DEF ShellInv

(* Drawing the status line touches the top row only (ck_shell_draw_status). *)
LEMMA StatusOverEffect ==
    ASSUME NEW V, NEW cells \in [Cells -> V], StatusCell \in V
    PROVE  /\ StatusOver(cells) \in [Cells -> V]
           /\ \A i \in Cells : Width <= i => StatusOver(cells)[i] = cells[i]
  BY SizeFacts DEF StatusOver, Cells

LEMMA TickInv ==
    ASSUME ShellInv, Tick
    PROVE  ShellInv'
<1> USE SizeFacts DEF ShellInv, Tick, screen, commandLog
<1>1. ShellTypeOK'
  <2>1. \A t, w \in Nat : w > 0 => (t + 1) % w \in 0 .. w - 1
    OBVIOUS
  <2>2. ticks' \in 0 .. Word - 1
    BY <2>1 DEF ShellTypeOK
  <2> QED
    BY <2>2 DEF ShellTypeOK
<1>2. Pending' /\ LineOnScreen' /\ EmptyAhead' /\ CursorInPlace' /\ HistoryIsRecent'
  BY Zenon DEF Pending, LineOnScreen, EmptyAhead, CursorInPlace, HistoryIsRecent, Editing, MonitorFollowed,
     Prefix
<1> QED
  BY <1>1, <1>2

LEMMA DrawStatusInv ==
    ASSUME ShellInv, DrawStatus
    PROVE  ShellInv'
<1>1. /\ vga' \in [Cells -> ShellChars \cup {StatusCell, MonitorCell}]
      /\ \A i \in Cells : Width <= i => vga'[i] = vga[i]
  <2>1. /\ vga \in [Cells -> ShellChars \cup {StatusCell, MonitorCell}]
        /\ StatusCell \in ShellChars \cup {StatusCell, MonitorCell} /\ vga' = StatusOver(vga)
    BY DEF ShellInv, ShellTypeOK, DrawStatus
  <2> QED
    BY <2>1, StatusOverEffect, Zenon
<1> USE SizeFacts DEF ShellInv, DrawStatus, commandLog
<1>2. ShellTypeOK'
  BY <1>1 DEF ShellTypeOK, StatusTick
<1>3. Pending'
  BY DEF Pending
<1>4. LineOnScreen'
  <2>1. /\ Width <= cursor_pos - Len(Prompt \o line) /\ cursor_pos <= Size
        /\ \A k \in 1 .. Len(Prompt \o line) :
              vga[cursor_pos - Len(Prompt \o line) + k - 1] = (Prompt \o line)[k]
    BY DEF LineOnScreen, Editing
  <2>2. Prompt \o line \in Seq(ShellChars) /\ cursor_pos \in Nat
    BY CharFacts DEF Prompt, ShellTypeOK
  <2> DEFINE n == Len(Prompt \o line)
  <2>3. n \in Nat
    BY <2>2
  <2> HIDE DEF n
  <2>4. \A k \in 1 .. n : cursor_pos - n + k - 1 \in Cells /\ Width <= cursor_pos - n + k - 1
    BY <2>1, <2>2, <2>3 DEF Cells, n
  <2>5. \A k \in 1 .. n : vga'[cursor_pos - n + k - 1] = (Prompt \o line)[k]
    BY <1>1, <2>1, <2>4, Zenon DEF n
  <2> QED
    BY <2>1, <2>5 DEF LineOnScreen, n
<1>5. EmptyAhead'
  BY <1>1 DEF EmptyAhead, ShellTypeOK, Cells
<1>6. CursorInPlace' /\ HistoryIsRecent'
  BY Zenon DEF CursorInPlace, Editing, HistoryIsRecent, Prefix
<1> QED
  BY <1>2, <1>3, <1>4, <1>5, <1>6

LEMMA ReadNothingInv ==
    ASSUME ShellInv, ReadNothing
    PROVE  ShellInv'
<1> USE DEF ShellInv, ReadNothing, screen, commandLog
<1>1. ShellTypeOK' /\ Pending'
  BY DEF ShellTypeOK, Pending
<1>2. LineOnScreen'
  BY DEF LineOnScreen, Editing
<1>3. EmptyAhead' /\ CursorInPlace' /\ HistoryIsRecent'
  BY DEF EmptyAhead, CursorInPlace, Editing, HistoryIsRecent, Prefix
<1> QED
  BY <1>1, <1>2, <1>3

(* The history stays the last commands entered (ck_history_add). *)
LEMMA HistoryAddInv ==
    ASSUME ShellTypeOK, executed \in Seq(Seq(ShellChars)), HistoryIsRecent, HistoryAdd(line)
    PROVE  /\ hist' \in [0 .. HistorySize - 1 -> Seq(ShellChars)]
           /\ history_count' \in 0 .. HistorySize
           /\ executed' \in Seq(Seq(ShellChars))
           /\ HistoryIsRecent'
<1>0. /\ hist \in [0 .. HistorySize - 1 -> Seq(ShellChars)] /\ line \in Seq(ShellChars)
      /\ history_count \in 0 .. HistorySize /\ HistorySize \in Nat /\ HistorySize > 0
  BY SizeFacts DEF ShellTypeOK
<1> DEFINE N == Len(executed)
<1>n. N \in Nat
  OBVIOUS
<1> DEFINE cut(s) == Prefix(s, HistoryLine)
<1>1. cut(line) \in Seq(ShellChars)
  BY <1>0, SizeFacts, PrefixType
<1>2. /\ executed' \in Seq(Seq(ShellChars)) /\ Len(executed') = N + 1
      /\ \A j \in 1 .. N : executed'[j] = executed[j]
      /\ executed'[N + 1] = line
  BY <1>0 DEF HistoryAdd
<1>3. /\ history_count = IF N < HistorySize THEN N ELSE HistorySize
      /\ \A i \in 0 .. history_count - 1 : hist[i] = cut(executed[N - history_count + i + 1])
  BY DEF HistoryIsRecent
<1> HIDE DEF N, cut
<1> DEFINE Count == history_count' = IF N + 1 < HistorySize THEN N + 1 ELSE HistorySize
<1> DEFINE Types == hist' \in [0 .. HistorySize - 1 -> Seq(ShellChars)] /\ history_count' \in 0 .. HistorySize
<1> DEFINE Recent == \A i \in 0 .. history_count' - 1 :
                        hist'[i] = cut(executed'[(N + 1) - history_count' + i + 1])
<1>4. ASSUME history_count < HistorySize PROVE Count /\ Types /\ Recent
  <2>1. hist' = [hist EXCEPT ![history_count] = cut(line)] /\ history_count' = history_count + 1
    BY <1>4 DEF HistoryAdd, cut
  <2>2. history_count = N
    BY <1>n, <1>0, <1>3, <1>4
  <2>3. hist' \in [0 .. HistorySize - 1 -> Seq(ShellChars)]
    BY <1>0, <1>1, <1>4, <2>1
  <2>4. \A i \in 0 .. history_count - 1 : hist'[i] = cut(executed'[i + 1])
    <3> SUFFICES ASSUME NEW i \in 0 .. history_count - 1
                 PROVE  hist'[i] = cut(executed'[i + 1])
      OBVIOUS
    <3>1. hist'[i] = hist[i] /\ i + 1 \in 1 .. N
      BY <1>0, <1>n, <1>4, <2>1, <2>2
    <3>2. hist[i] = cut(executed[N - history_count + i + 1]) /\ N - history_count + i + 1 = i + 1
      BY <1>0, <1>n, <1>3, <2>2
    <3> QED
      BY <1>2, <3>1, <3>2
  <2>5. hist'[history_count] = cut(executed'[history_count + 1])
    BY <1>0, <1>2, <1>4, <2>1, <2>2
  <2>6. \A i \in 0 .. history_count : i \in 0 .. history_count - 1 \/ i = history_count
    BY <1>0
  <2>7. \A i \in 0 .. history_count' - 1 : hist'[i] = cut(executed'[i + 1])
    BY <1>0, <2>1, <2>4, <2>5, <2>6
  <2>8. (N + 1) - history_count' = 0
    BY <1>n, <2>1, <2>2
  <2>9. Count /\ Types
    BY <1>0, <1>n, <1>4, <2>1, <2>2, <2>3
  <2> HIDE DEF Count, Types
  <2> QED
    BY <2>7, <2>8, <2>9
<1>5. ASSUME history_count = HistorySize PROVE Count /\ Types /\ Recent
  <2>1. hist' = HistoryShifted(line) /\ history_count' = history_count
    BY <1>0, <1>5 DEF HistoryAdd
  <2>2. /\ hist' \in [0 .. HistorySize - 1 -> Seq(ShellChars)]
        /\ \A i \in 0 .. HistorySize - 1 : i < HistorySize - 1 => hist'[i] = hist[i + 1]
        /\ hist'[HistorySize - 1] = cut(line)
    BY <1>0, <1>1, <2>1 DEF HistoryShifted, cut
  <2>3. N >= HistorySize
    BY <1>0, <1>n, <1>3, <1>5
  <2>4. \A i \in 0 .. HistorySize - 1 : hist'[i] = cut(executed'[(N + 1) - HistorySize + i + 1])
    <3> SUFFICES ASSUME NEW i \in 0 .. HistorySize - 1
                 PROVE  hist'[i] = cut(executed'[(N + 1) - HistorySize + i + 1])
      OBVIOUS
    <3>1. CASE i = HistorySize - 1
      BY <1>0, <1>n, <1>2, <2>2, <3>1
    <3>2. CASE i < HistorySize - 1
      <4>1. i + 1 \in 0 .. history_count - 1 /\ hist'[i] = hist[i + 1]
        BY <1>0, <1>5, <2>2, <3>2
      <4>2. hist[i + 1] = cut(executed[N - HistorySize + (i + 1) + 1])
        BY <1>3, <1>5, <4>1
      <4>3. /\ N - HistorySize + (i + 1) + 1 \in 1 .. N
            /\ N - HistorySize + (i + 1) + 1 = (N + 1) - HistorySize + i + 1
        BY <1>0, <1>n, <2>3, <3>2
      <4>4. executed'[N - HistorySize + (i + 1) + 1] = executed[N - HistorySize + (i + 1) + 1]
        BY <1>2, <4>3
      <4> QED
        BY <4>1, <4>2, <4>3, <4>4
    <3> QED
      BY <1>0, <3>1, <3>2
  <2>5. Count /\ Types
    BY <1>0, <1>n, <1>5, <2>1, <2>2, <2>3
  <2>6. history_count' = HistorySize
    BY <1>5, <2>1
  <2> HIDE DEF Count, Types
  <2> QED
    BY <2>4, <2>5, <2>6
<1> HIDE DEF Count, Types, Recent
<1>6. Count /\ Types /\ Recent
  BY <1>0, <1>4, <1>5
<1>7. Len(executed') = N + 1
  BY <1>2
<1>8. HistoryIsRecent'
  <2>1. history_count' = IF Len(executed') < HistorySize THEN Len(executed') ELSE HistorySize
    BY <1>6, <1>7 DEF Count
  <2>2. \A i \in 0 .. history_count' - 1 :
           hist'[i] = Prefix(executed'[Len(executed') - history_count' + i + 1], HistoryLine)
    <3> SUFFICES ASSUME NEW i \in 0 .. history_count' - 1
                 PROVE  hist'[i] = cut(executed'[Len(executed') - history_count' + i + 1])
      BY DEF cut
    <3>1. hist'[i] = cut(executed'[(N + 1) - history_count' + i + 1])
      BY <1>6 DEF Recent
    <3>2. (N + 1) - history_count' + i + 1 = Len(executed') - history_count' + i + 1
      BY <1>7, Zenon
    <3> QED
      BY <3>1, <3>2, Zenon
  <2> QED
    BY <2>1, <2>2 DEF HistoryIsRecent
<1> QED
  BY <1>2, <1>6, <1>8 DEF Types

LEMMA EnterInv ==
    ASSUME ShellInv, Enter
    PROVE  ShellInv'
<1>0. /\ ShellTypeOK /\ executed \in Seq(Seq(ShellChars)) /\ HistoryIsRecent
      /\ EmptyAhead /\ line \in Seq(ShellChars)
  BY DEF ShellInv, ShellTypeOK
<1>1. /\ pc = "read" /\ pc' = "write" /\ line' = << >>
      /\ vga' = vga /\ cursor_pos' = NextLine /\ hw_cursor' = NextLine
      /\ ticks' = ticks /\ last_ticks' = last_ticks /\ listed' = listed
  BY DEF Enter, Type, NewLine
<1>2. cursor_pos' \in Nat /\ cursor_pos < cursor_pos'
  BY <1>0, <1>1, NextLineLater DEF ShellTypeOK
<1>3. /\ hist' \in [0 .. HistorySize - 1 -> Seq(ShellChars)]
      /\ history_count' \in 0 .. HistorySize
      /\ executed' \in Seq(Seq(ShellChars))
      /\ HistoryIsRecent'
  <2>1. CASE line = << >>
    BY <1>0, <2>1, Zenon DEF Enter, commandLog, ShellTypeOK, HistoryIsRecent, Prefix
  <2>2. CASE line # << >>
    BY <1>0, <2>2, HistoryAddInv DEF Enter
  <2> QED
    BY <2>1, <2>2
<1>4. Prompted(out')
  <2>1. PICK text \in Texts, banner \in Texts, n \in 0 .. Len(line), m \in 1 .. Len(line) + 1 :
           Executes(Prefix(Prefix(line, n), NameMax),
                    Prefix(SubSeq(line, m, Len(line)), ArgsMax), text, banner, out')
    BY DEF Enter
  <2>2. line \in Seq(ShellChars) /\ ArgsMax \in Nat
    BY <1>0, SizeFacts
  <2>3. SubSeq(line, m, Len(line)) \in Seq(ShellChars)
    BY <2>2
  <2>4. Prefix(SubSeq(line, m, Len(line)), ArgsMax) \in Seq(ShellChars)
    BY <2>2, <2>3, PrefixType, Zenon
  <2> QED
    BY <2>1, <2>4, ExecutesType
<1>5. out' # << >>
  BY <1>4 DEF Prompted
<1>6. line' \in Seq(ShellChars) /\ Len(line') <= LineMax
  BY <1>1, SizeFacts
<1>7. ShellTypeOK'
  <2>1. out' \in Seq(ShellChars \cup Operations)
    BY <1>4 DEF Prompted
  <2> QED
    BY <1>0, <1>1, <1>2, <1>3, <1>6, <2>1 DEF ShellTypeOK
<1>8. Pending'
  BY <1>1, <1>4, <1>5 DEF Pending, Prompted
<1>9. EmptyAhead'
  BY <1>0, <1>1, <1>2, SizeFacts DEF EmptyAhead, ShellTypeOK, Cells
<1>10. LineOnScreen' /\ CursorInPlace'
  BY <1>1 DEF LineOnScreen, CursorInPlace, Editing
<1> QED
  BY <1>3, <1>7, <1>8, <1>9, <1>10 DEF ShellInv

(* What LineOnScreen says while a key is read, cell by cell. *)
LEMMA ShownCells ==
    ASSUME ShellTypeOK, LineOnScreen, Editing
    PROVE  /\ Width + 2 + Len(line) <= cursor_pos /\ cursor_pos <= Size
           /\ vga[cursor_pos - Len(line) - 2] = ">" /\ vga[cursor_pos - Len(line) - 1] = Blank
           /\ \A k \in 1 .. Len(line) : vga[cursor_pos - Len(line) + k - 1] = line[k]
<1>1. /\ line \in Seq(ShellChars) /\ cursor_pos \in Nat /\ Len(line) \in Nat
      /\ Width \in Nat /\ Size \in Nat
  BY SizeFacts DEF ShellTypeOK
<1>2. /\ Len(Prompt \o line) = Len(line) + 2 /\ (Prompt \o line)[1] = ">" /\ (Prompt \o line)[2] = Blank
      /\ \A k \in 1 .. Len(line) : (Prompt \o line)[k + 2] = line[k]
  BY <1>1 DEF Prompt
<1>3. /\ Width <= cursor_pos - (Len(line) + 2) /\ cursor_pos <= Size
      /\ \A j \in 1 .. Len(line) + 2 : vga[cursor_pos - (Len(line) + 2) + j - 1] = (Prompt \o line)[j]
  BY <1>2 DEF LineOnScreen
<1>4. ASSUME NEW k \in 1 .. Len(line)
      PROVE  vga[cursor_pos - Len(line) + k - 1] = line[k]
  <2>1. /\ k + 2 \in 1 .. Len(line) + 2
        /\ cursor_pos - (Len(line) + 2) + (k + 2) - 1 = cursor_pos - Len(line) + k - 1
    BY <1>1
  <2> QED
    BY <1>2, <1>3, <2>1, Zenon
<1>5. /\ 1 \in 1 .. Len(line) + 2 /\ 2 \in 1 .. Len(line) + 2
      /\ cursor_pos - (Len(line) + 2) + 1 - 1 = cursor_pos - Len(line) - 2
      /\ cursor_pos - (Len(line) + 2) + 2 - 1 = cursor_pos - Len(line) - 1
  BY <1>1
<1>6. vga[cursor_pos - Len(line) - 2] = ">" /\ vga[cursor_pos - Len(line) - 1] = Blank
  BY <1>2, <1>3, <1>5
<1> QED
  BY <1>1, <1>3, <1>4, <1>6

ShownAt(cells, pos, text) ==
    LET shown == Prompt \o text
        start == pos - Len(shown)
    IN  /\ Width <= start /\ pos <= Size
        /\ \A k \in 1 .. Len(shown) : cells[start + k - 1] = shown[k]

LEMMA CellsShown ==
    ASSUME NEW cells, NEW text \in Seq(ShellChars), NEW pos \in Nat,
           Width + 2 + Len(text) <= pos, pos <= Size,
           cells[pos - Len(text) - 2] = ">", cells[pos - Len(text) - 1] = Blank,
           \A k \in 1 .. Len(text) : cells[pos - Len(text) + k - 1] = text[k]
    PROVE  ShownAt(cells, pos, text)
<1>1. Len(text) \in Nat /\ Width \in Nat /\ Size \in Nat
  BY SizeFacts
<1>2. /\ Len(Prompt \o text) = Len(text) + 2 /\ (Prompt \o text)[1] = ">" /\ (Prompt \o text)[2] = Blank
      /\ \A k \in 1 .. Len(text) : (Prompt \o text)[k + 2] = text[k]
  BY DEF Prompt
<1>3. ASSUME NEW j \in 1 .. Len(text) + 2
      PROVE  cells[pos - (Len(text) + 2) + j - 1] = (Prompt \o text)[j]
  <2>1. CASE j = 1
    BY <1>1, <1>2, <2>1
  <2>2. CASE j = 2
    BY <1>1, <1>2, <2>2
  <2>3. CASE j > 2
    <3>1. /\ j - 2 \in 1 .. Len(text) /\ (j - 2) + 2 = j
          /\ pos - Len(text) + (j - 2) - 1 = pos - (Len(text) + 2) + j - 1
      BY <1>1, <2>3
    <3>2. cells[pos - Len(text) + (j - 2) - 1] = text[j - 2]
      BY <3>1
    <3>3. (Prompt \o text)[(j - 2) + 2] = text[j - 2]
      BY <1>2, <3>1
    <3> QED
      BY <3>1, <3>2, <3>3, Zenon
  <2>4. j = 1 \/ j = 2 \/ j > 2
    BY <1>1
  <2> QED
    BY <2>1, <2>2, <2>3, <2>4, Zenon
<1> QED
  BY <1>1, <1>2, <1>3 DEF ShownAt

LEMMA EraseInv ==
    ASSUME ShellInv, Erase
    PROVE  ShellInv'
<1>0. /\ ShellTypeOK /\ LineOnScreen /\ EmptyAhead /\ HistoryIsRecent /\ Pending
      /\ executed \in Seq(Seq(ShellChars))
  BY DEF ShellInv
<1>1. /\ pc = "read" /\ pc' = "status" /\ line # << >>
      /\ line' = Prefix(line, Len(line) - 1)
      /\ vga' = [vga EXCEPT ![cursor_pos - 1] = Blank]
      /\ cursor_pos' = cursor_pos - 1 /\ hw_cursor' = cursor_pos - 1
      /\ UNCHANGED <<ticks, last_ticks, listed, out, hist, history_count, executed>>
  BY DEF Erase, Type, CanErase, commandLog
<1>2. /\ line \in Seq(ShellChars) /\ Len(line) \in Nat \ {0} /\ cursor_pos \in Nat
      /\ vga \in [Cells -> ShellChars \cup {StatusCell, MonitorCell}]
  BY <1>0, <1>1 DEF ShellTypeOK
<1>3. /\ Width + 2 + Len(line) <= cursor_pos /\ cursor_pos <= Size
      /\ vga[cursor_pos - Len(line) - 2] = ">" /\ vga[cursor_pos - Len(line) - 1] = Blank
      /\ \A k \in 1 .. Len(line) : vga[cursor_pos - Len(line) + k - 1] = line[k]
  BY <1>0, <1>1, ShownCells DEF Editing
<1>4. /\ line' \in Seq(ShellChars) /\ Len(line') = Len(line) - 1
      /\ \A k \in 1 .. Len(line') : line'[k] = line[k]
  <2>1. Len(line) - 1 \in Nat /\ Len(line) - 1 < Len(line)
    BY <1>2
  <2> QED
    BY <1>1, <1>2, <2>1, PrefixType
<1>5. /\ vga' \in [Cells -> ShellChars \cup {StatusCell, MonitorCell}]
      /\ vga'[cursor_pos - 1] = Blank
      /\ \A i \in Cells : i # cursor_pos - 1 => vga'[i] = vga[i]
  <2>1. cursor_pos - 1 \in Cells
    BY <1>2, <1>3, SizeFacts DEF Cells
  <2> QED
    BY <1>1, <1>2, <2>1, CharFacts
<1>6. cursor_pos' - Len(line') = cursor_pos - Len(line)
  BY <1>1, <1>2, <1>4
<1>7. /\ Width + 2 + Len(line') <= cursor_pos' /\ cursor_pos' <= Size /\ cursor_pos' \in Nat
  BY <1>1, <1>2, <1>3, <1>4, SizeFacts
<1>8. LineOnScreen'
  <2> DEFINE s == cursor_pos - Len(line)
  <2>1. /\ s \in Nat /\ Width + 2 <= s /\ s + Len(line) <= Size /\ cursor_pos - 1 = s + Len(line) - 1
    BY <1>2, <1>3, SizeFacts
  <2> HIDE DEF s
  <2>2. /\ s - 2 \in Cells /\ s - 2 # cursor_pos - 1 /\ s - 1 \in Cells /\ s - 1 # cursor_pos - 1
        /\ \A k \in 1 .. Len(line) - 1 : s + k - 1 \in Cells /\ s + k - 1 # cursor_pos - 1
    BY <1>2, <2>1, SizeFacts DEF Cells
  <2>3. vga'[s - 2] = ">" /\ vga'[s - 1] = Blank
    BY <1>3, <1>5, <2>2 DEF s
  <2>4. ASSUME NEW k \in 1 .. Len(line')
        PROVE  vga'[s + k - 1] = line'[k]
    <3>1. k \in 1 .. Len(line) - 1 /\ k \in 1 .. Len(line)
      BY <1>2, <1>4
    <3>2. vga'[s + k - 1] = vga[s + k - 1]
      BY <1>5, <2>2, <3>1
    <3>3. vga[s + k - 1] = line[k]
      BY <1>3, <3>1 DEF s
    <3> QED
      BY <1>4, <3>2, <3>3
  <2>5. s = cursor_pos' - Len(line')
    BY <1>6 DEF s
  <2>6. ShownAt(vga', cursor_pos', line')
    BY <1>4, <1>7, <2>3, <2>4, <2>5, CellsShown, Zenon
  <2> QED
    BY <2>6 DEF LineOnScreen, ShownAt
<1>9. EmptyAhead'
  <2>1. \A i \in Cells : cursor_pos <= i => vga[i] = Blank
    BY <1>0, <1>1 DEF EmptyAhead
  <2>2. \A i \in Cells : cursor_pos - 1 <= i => vga'[i] = Blank
    BY <1>2, <1>5, <2>1 DEF Cells
  <2> QED
    BY <1>1, <1>2, <1>3, <2>2, SizeFacts DEF EmptyAhead
<1>10. ShellTypeOK'
  <2>1. Len(line') <= LineMax
    BY <1>0, <1>2, <1>4, SizeFacts DEF ShellTypeOK
  <2> QED
    BY <1>0, <1>1, <1>4, <1>5, <1>7, <2>1 DEF ShellTypeOK
<1>11. Pending' /\ CursorInPlace'
  BY <1>0, <1>1 DEF Pending, CursorInPlace
<1>12. HistoryIsRecent'
  BY <1>0, <1>1, Zenon DEF HistoryIsRecent, Prefix
<1> QED
  BY <1>0, <1>1, <1>8, <1>9, <1>10, <1>11, <1>12 DEF ShellInv

LEMMA InsertInv ==
    ASSUME ShellInv, NEW c \in ShellChars, Insert(c)
    PROVE  ShellInv'
<1>0. /\ ShellTypeOK /\ LineOnScreen /\ EmptyAhead /\ HistoryIsRecent /\ Pending
      /\ executed \in Seq(Seq(ShellChars))
  BY DEF ShellInv
<1>1. /\ pc = "read" /\ pc' = "status" /\ WriteChar(c)
      /\ line' = Append(line, c) /\ ~ (Len(line) >= LineMax)
      /\ UNCHANGED <<ticks, last_ticks, listed, out, hist, history_count, executed>>
  BY DEF Insert, Type, LineFull, commandLog
<1>2. /\ line \in Seq(ShellChars) /\ Len(line) \in Nat /\ cursor_pos \in Nat
      /\ vga \in [Cells -> ShellChars \cup {StatusCell, MonitorCell}]
  BY <1>0 DEF ShellTypeOK
<1>3. /\ Width + 2 + Len(line) <= cursor_pos /\ cursor_pos <= Size
      /\ vga[cursor_pos - Len(line) - 2] = ">" /\ vga[cursor_pos - Len(line) - 1] = Blank
      /\ \A k \in 1 .. Len(line) : vga[cursor_pos - Len(line) + k - 1] = line[k]
  BY <1>0, <1>1, ShownCells DEF Editing
<1>4. /\ line' \in Seq(ShellChars) /\ Len(line') = Len(line) + 1 /\ line'[Len(line) + 1] = c
      /\ \A k \in 1 .. Len(line) : line'[k] = line[k]
  BY <1>1, <1>2
<1>5. /\ vga' \in [Cells -> ShellChars \cup {StatusCell, MonitorCell}]
      /\ cursor_pos' \in Nat /\ Width < cursor_pos' /\ cursor_pos' <= Size
      /\ hw_cursor' = cursor_pos'
      /\ vga'[cursor_pos' - 1] = c
      /\ \A i \in Cells : cursor_pos' <= i => vga'[i] = Blank
      /\ cursor_pos < Size =>
            /\ cursor_pos' = cursor_pos + 1
            /\ \A i \in Cells : i < cursor_pos => vga'[i] = vga[i]
      /\ cursor_pos >= Size =>
            /\ cursor_pos' = Size - Width + 1
            /\ \A i \in Cells : i < Size - Width => vga'[i] = vga[i + Width]
  <2>1. /\ Width <= cursor_pos /\ \A i \in Cells : cursor_pos <= i => vga[i] = Blank
    BY <1>0, <1>1 DEF EmptyAhead
  <2> QED
    BY <1>1, <1>2, <2>1, CharFacts, WriteCharEffect, Zenon
<1>6. LineOnScreen'
  <2> DEFINE s == cursor_pos - Len(line)
  <2> DEFINE d == IF cursor_pos < Size THEN 0 ELSE Width
  <2> DEFINE t == s - d
  <2>1. /\ s \in Nat /\ Width + 2 <= s /\ s + Len(line) <= Size /\ cursor_pos = s + Len(line)
        /\ d \in {0, Width} /\ t \in Nat /\ Width + 2 <= t /\ t + Len(line) < Size
        /\ cursor_pos' = t + Len(line) + 1
    BY <1>1, <1>2, <1>3, <1>5, SizeFacts
  <2> HIDE DEF s
  <2>2. ASSUME NEW i \in Int, s - 2 <= i, i < cursor_pos
        PROVE  vga'[i - d] = vga[i]
    <3>1. CASE cursor_pos < Size
      <4>1. i \in Cells /\ i - d = i
        BY <1>2, <2>1, <2>2, <3>1, SizeFacts DEF Cells
      <4> QED
        BY <1>5, <2>2, <3>1, <4>1
    <3>2. CASE cursor_pos >= Size
      <4>1. i - d \in Cells /\ i - d < Size - Width /\ (i - d) + Width = i
        BY <1>2, <1>3, <2>1, <2>2, <3>2, SizeFacts DEF Cells
      <4> QED
        BY <1>5, <3>2, <4>1
    <3> QED
      BY <1>2, <3>1, <3>2, SizeFacts
  <2> HIDE DEF d
  <2>3. vga'[t - 2] = ">" /\ vga'[t - 1] = Blank
    <3>1. /\ s - 2 \in Int /\ s - 2 <= s - 2 /\ s - 2 < cursor_pos /\ (s - 2) - d = t - 2
          /\ s - 1 \in Int /\ s - 2 <= s - 1 /\ s - 1 < cursor_pos /\ (s - 1) - d = t - 1
      BY <1>2, <2>1, SizeFacts
    <3>2. vga'[(s - 2) - d] = vga[s - 2]
      BY <2>2, <3>1, Zenon
    <3>3. vga'[(s - 1) - d] = vga[s - 1]
      BY <2>2, <3>1, Zenon
    <3> QED
      BY <1>3, <3>1, <3>2, <3>3 DEF s
  <2>4. ASSUME NEW k \in 1 .. Len(line')
        PROVE  vga'[t + k - 1] = line'[k]
    <3>1. CASE k = Len(line) + 1
      <4>1. t + k - 1 = cursor_pos' - 1
        BY <1>2, <2>1, <3>1
      <4> QED
        BY <1>4, <1>5, <3>1, <4>1
    <3>2. CASE k \in 1 .. Len(line)
      <4>1. /\ s + k - 1 \in Int /\ s - 2 <= s + k - 1 /\ s + k - 1 < cursor_pos
            /\ (s + k - 1) - d = t + k - 1
        BY <1>2, <2>1, <3>2, SizeFacts
      <4>2. vga'[(s + k - 1) - d] = vga[s + k - 1]
        BY <2>2, <4>1
      <4>3. vga[s + k - 1] = line[k]
        BY <1>3, <3>2 DEF s
      <4> QED
        BY <1>4, <3>2, <4>1, <4>2, <4>3
    <3> QED
      BY <1>2, <1>4, <3>1, <3>2
  <2>5. /\ t = cursor_pos' - Len(line') /\ Width + 2 + Len(line') <= cursor_pos'
    BY <1>2, <1>4, <2>1, SizeFacts
  <2> HIDE DEF t
  <2>6. ShownAt(vga', cursor_pos', line')
    BY <1>4, <1>5, <2>3, <2>4, <2>5, CellsShown, Zenon
  <2> QED
    BY <2>6 DEF LineOnScreen, ShownAt
<1>7. EmptyAhead'
  BY <1>5, SizeFacts DEF EmptyAhead
<1>8. ShellTypeOK'
  <2>1. Len(line') <= LineMax
    BY <1>1, <1>2, <1>4, SizeFacts
  <2> QED
    BY <1>0, <1>1, <1>4, <1>5, <2>1 DEF ShellTypeOK
<1>9. Pending' /\ CursorInPlace'
  BY <1>0, <1>1, <1>5 DEF Pending, CursorInPlace
<1>10. HistoryIsRecent'
  BY <1>0, <1>1, Zenon DEF HistoryIsRecent, Prefix
<1> QED
  BY <1>0, <1>1, <1>6, <1>7, <1>8, <1>9, <1>10 DEF ShellInv

(* A step of Write: the operation is Head(out), never one of the last two
   unless it is a character of the prompt. *)
LEMMA OutFacts ==
    ASSUME ShellTypeOK, Pending, pc = "write"
    PROVE  /\ out \in Seq(ShellChars \cup Operations) /\ Len(out) \in Nat \ {0}
           /\ Head(out) = out[1] /\ Head(out) \in ShellChars \cup Operations
           /\ Tail(out) \in Seq(ShellChars \cup Operations) /\ Len(Tail(out)) = Len(out) - 1
           /\ \A k \in 1 .. Len(out) - 1 : Tail(out)[k] = out[k + 1]
           /\ MonitorFollowed(out) /\ MonitorFollowed(Tail(out))
           /\ Head(out) \in Operations => Len(out) > 2
           /\ Tail(out) = << >> <=> Len(out) = 1
<1>1. /\ out \in Seq(ShellChars \cup Operations) /\ out # << >> /\ MonitorFollowed(out)
      /\ Len(out) >= 2 => out[Len(out) - 1] = ">" /\ out[Len(out)] = Blank
      /\ Len(out) = 1 => out[1] = Blank
  BY DEF ShellTypeOK, Pending
<1>2. Len(out) \in Nat \ {0} /\ Head(out) = out[1] /\ Head(out) \in ShellChars \cup Operations
  BY <1>1
<1>3. /\ Tail(out) \in Seq(ShellChars \cup Operations) /\ Len(Tail(out)) = Len(out) - 1
      /\ \A k \in 1 .. Len(out) - 1 : Tail(out)[k] = out[k + 1]
  BY <1>1
<1>4. MonitorFollowed(Tail(out))
  BY <1>1, FollowedTail, Zenon
<1>5. ASSUME Head(out) \in Operations PROVE Len(out) > 2
  <2>1. ">" \notin Operations /\ Blank \notin Operations
    BY CharFacts
  <2> DEFINE n == Len(out)
  <2>2. n \in Nat /\ n # 0
    BY <1>2
  <2>3. n # 1
    BY <1>1, <1>2, <1>5, <2>1
  <2>4. n = 2 => out[1] = ">"
    BY <1>1
  <2>5. n # 2
    BY <1>2, <1>5, <2>1, <2>4
  <2> HIDE DEF n
  <2>6. n > 2
    BY <2>2, <2>3, <2>5
  <2> QED
    BY <2>6 DEF n
<1>6. Tail(out) = << >> <=> Len(out) = 1
  BY <1>2, <1>3
<1> QED
  BY <1>1, <1>2, <1>3, <1>4, <1>5, <1>6

(* The rest of Pending once the first operation is done, when it was not
   one of the last two. *)
LEMMA TailPending ==
    ASSUME ShellTypeOK, Pending, pc = "write", Len(out) > 2
    PROVE  /\ Tail(out) # << >> /\ Len(Tail(out)) >= 2
           /\ Tail(out)[Len(Tail(out)) - 1] = ">" /\ Tail(out)[Len(Tail(out))] = Blank
           /\ MonitorFollowed(Tail(out)) /\ Tail(out) \in Seq(ShellChars \cup Operations)
<1>1. Len(out) \in Nat /\ Len(Tail(out)) = Len(out) - 1
  BY OutFacts
<1>2. out[Len(out) - 1] = ">" /\ out[Len(out)] = Blank
  BY <1>1 DEF Pending
<1>3. /\ Len(out) - 2 \in 1 .. Len(out) - 1 /\ (Len(out) - 2) + 1 = Len(out) - 1
      /\ Len(out) - 1 \in 1 .. Len(out) - 1 /\ (Len(out) - 1) + 1 = Len(out)
      /\ (Len(out) - 1) - 1 = Len(out) - 2
  BY <1>1
<1>4. Tail(out)[Len(out) - 2] = ">" /\ Tail(out)[Len(out) - 1] = Blank
  BY <1>2, <1>3, OutFacts
<1> QED
  BY <1>1, <1>3, <1>4, OutFacts

(* The operations that leave the end of what is to be written alone. *)
LEMMA WriteInvLong ==
    ASSUME ShellInv, pc = "write", Head(out) \in Operations \ {RunMonitor, Halt},
           UNCHANGED <<line, hist, history_count, executed, ticks>>,
           out' = Tail(out), pc' = "write", listed' \in 0 .. HistorySize,
           last_ticks' \in 0 .. Word - 1,
           vga' \in [Cells -> ShellChars \cup {StatusCell, MonitorCell}],
           cursor_pos' \in Nat, hw_cursor' \in Nat, EmptyAhead'
    PROVE  ShellInv'
<1>1. ShellTypeOK /\ Pending /\ HistoryIsRecent /\ executed \in Seq(Seq(ShellChars))
  BY DEF ShellInv
<1>2. /\ out' # << >> /\ Len(out') >= 2 /\ out'[Len(out') - 1] = ">" /\ out'[Len(out')] = Blank
      /\ MonitorFollowed(out') /\ out' \in Seq(ShellChars \cup Operations)
  BY <1>1, OutFacts, TailPending
<1>3. ShellTypeOK'
  BY <1>1, <1>2, Zenon DEF ShellTypeOK
<1>4. Pending'
  <2>1. Len(out') # 1
    BY <1>2
  <2>2. line' = << >>
    BY <1>1 DEF Pending
  <2> QED
    BY <1>2, <2>1, <2>2, Zenon DEF Pending
<1>5. LineOnScreen' /\ CursorInPlace'
  BY DEF LineOnScreen, CursorInPlace, Editing
<1>6. HistoryIsRecent'
  BY <1>1, Zenon DEF HistoryIsRecent, Prefix
<1> QED
  BY <1>1, <1>3, <1>4, <1>5, <1>6 DEF ShellInv

(* The loop of the command history puts an entry before the rest. *)
LEMMA ListEntryInv ==
    ASSUME ShellInv, pc = "write", Head(out) = ListEntries, listed < history_count,
           listed' = listed + 1, Proceed(Entry(listed) \o out),
           UNCHANGED <<vga, cursor_pos, hw_cursor, last_ticks, line, hist, history_count, executed, ticks>>
    PROVE  ShellInv'
<1>1. /\ ShellTypeOK /\ Pending /\ EmptyAhead /\ HistoryIsRecent
      /\ executed \in Seq(Seq(ShellChars))
  BY DEF ShellInv
<1>2. /\ out \in Seq(ShellChars \cup Operations) /\ Len(out) \in Nat /\ Len(out) > 2
      /\ MonitorFollowed(out) /\ out[Len(out) - 1] = ">" /\ out[Len(out)] = Blank
  <2>1. /\ out \in Seq(ShellChars \cup Operations) /\ Len(out) \in Nat /\ Len(out) > 2
        /\ MonitorFollowed(out)
    BY <1>1, OutFacts DEF Operations
  <2> QED
    BY <1>1, <2>1 DEF Pending
<1> DEFINE e == Entry(listed)
<1>3. e \in Seq(ShellChars \cup {LineFeed}) /\ Len(e) \in Nat /\ Len(e) > 0
  <2>1. hist[listed] \in Seq(ShellChars)
    BY <1>1, SizeFacts DEF ShellTypeOK
  <2> QED
    BY <2>1, CharFacts DEF Entry
<1>4. e \in Seq(ShellChars \cup Operations) /\ MonitorFollowed(e)
  <2>1. RunMonitor \notin ShellChars \cup {LineFeed} /\ LineFeed \in Operations
    BY CharFacts, Zenon DEF Operations, RunMonitor, LineFeed
  <2> HIDE DEF e
  <2> QED
    BY <1>3, <2>1, FollowedPlain
<1> HIDE DEF e
<1>5. /\ e \o out \in Seq(ShellChars \cup Operations) /\ Len(e \o out) = Len(e) + Len(out)
      /\ \A k \in 1 .. Len(out) : (e \o out)[Len(e) + k] = out[k]
  BY <1>2, <1>4
<1>6. MonitorFollowed(e \o out)
  BY <1>2, <1>4, FollowedConcat
<1>7. out' = e \o out /\ pc' = "write"
  <2>1. Head(out) # RunMonitor /\ Head(out) # Halt
    BY DEF ListEntries, RunMonitor, Halt
  <2>2. e \o out # << >>
    BY <1>2, <1>3, <1>5
  <2> QED
    BY <2>1, <2>2 DEF Proceed, e
<1>8. /\ out' # << >> /\ Len(out') # 1
      /\ out'[Len(out') - 1] = ">" /\ out'[Len(out')] = Blank
  <2>1. /\ Len(out) - 1 \in 1 .. Len(out) /\ Len(out) \in 1 .. Len(out)
        /\ Len(e) + (Len(out) - 1) = (Len(e) + Len(out)) - 1
        /\ Len(e) + Len(out) # 1 /\ Len(e) + Len(out) # 0
    BY <1>2, <1>3
  <2> QED
    BY <1>2, <1>5, <1>7, <2>1
<1>9. ShellTypeOK'
  <2>1. listed' \in 0 .. HistorySize
    BY <1>1, SizeFacts DEF ShellTypeOK
  <2> QED
    BY <1>1, <1>5, <1>7, <2>1, Zenon DEF ShellTypeOK
<1>10. Pending'
  <2>1. line' = << >>
    BY <1>1 DEF Pending
  <2> QED
    BY <1>6, <1>7, <1>8, <2>1, Zenon DEF Pending
<1>11. EmptyAhead'
  BY <1>1, Zenon DEF EmptyAhead, ListEntries, Restart
<1>12. LineOnScreen' /\ CursorInPlace'
  BY <1>7 DEF LineOnScreen, CursorInPlace, Editing
<1>13. HistoryIsRecent'
  BY <1>1, Zenon DEF HistoryIsRecent, Prefix
<1> QED
  BY <1>1, <1>9, <1>10, <1>11, <1>12, <1>13 DEF ShellInv

(* A character: in the end the two of the prompt. *)
LEMMA WriteCharInv ==
    ASSUME ShellInv, pc = "write", Head(out) \notin Operations, WriteChar(Head(out)),
           Proceed(Tail(out)),
           UNCHANGED <<listed, last_ticks, line, hist, history_count, executed, ticks>>
    PROVE  ShellInv'
<1>1. /\ ShellTypeOK /\ Pending /\ EmptyAhead /\ HistoryIsRecent
      /\ executed \in Seq(Seq(ShellChars))
  BY DEF ShellInv
<1>2. Head(out) # Restart /\ Head(out) # RunMonitor /\ Head(out) # Halt
  BY DEF Operations
<1>3. /\ Width <= cursor_pos /\ cursor_pos \in Nat /\ \A i \in Cells : cursor_pos <= i => vga[i] = Blank
      /\ vga \in [Cells -> ShellChars \cup {StatusCell, MonitorCell}]
  BY <1>1, <1>2 DEF EmptyAhead, ShellTypeOK
<1>4. Head(out) \in ShellChars /\ Head(out) \in ShellChars \cup {StatusCell, MonitorCell}
      /\ Blank \in ShellChars \cup {StatusCell, MonitorCell}
  BY <1>1, OutFacts, CharFacts
<1>5. /\ vga' \in [Cells -> ShellChars \cup {StatusCell, MonitorCell}]
      /\ cursor_pos' \in Nat /\ Width < cursor_pos' /\ cursor_pos' <= Size
      /\ hw_cursor' = cursor_pos'
      /\ vga'[cursor_pos' - 1] = Head(out)
      /\ \A i \in Cells : cursor_pos' <= i => vga'[i] = Blank
      /\ cursor_pos < Size =>
            /\ cursor_pos' = cursor_pos + 1
            /\ \A i \in Cells : i < cursor_pos => vga'[i] = vga[i]
      /\ cursor_pos >= Size =>
            /\ cursor_pos' = Size - Width + 1
            /\ \A i \in Cells : i < Size - Width => vga'[i] = vga[i + Width]
  BY <1>3, <1>4, WriteCharEffect, Zenon
<1>6. out' = Tail(out) /\ pc' = IF Tail(out) = << >> THEN "status" ELSE "write"
  BY <1>2 DEF Proceed
<1>7. ShellTypeOK'
  <2>1. out' \in Seq(ShellChars \cup Operations)
    BY <1>1, <1>6, OutFacts
  <2>2. pc' \in {"status", "write"} /\ hw_cursor' \in Nat
    BY <1>5, <1>6
  <2> QED
    BY <1>1, <1>5, <2>1, <2>2 DEF ShellTypeOK
<1>8. EmptyAhead'
  BY <1>5, SizeFacts DEF EmptyAhead
<1>9. CursorInPlace'
  BY <1>5 DEF CursorInPlace
<1>10. HistoryIsRecent'
  BY <1>1, Zenon DEF HistoryIsRecent, Prefix
<1>11. line' = << >>
  BY <1>1 DEF Pending
<1>12. Pending' /\ LineOnScreen'
  <2>1. CASE Len(out) = 1
    <3>1. out' = << >> /\ pc' = "status"
      BY <1>1, <1>6, <2>1, OutFacts
    <3>2. /\ Head(out) = Blank /\ Width < cursor_pos /\ cursor_pos <= Size
          /\ vga[cursor_pos - 1] = ">"
      BY <1>1, <2>1, OutFacts DEF Pending
    <3>3. /\ Width + 2 + Len(line') <= cursor_pos' /\ vga'[cursor_pos' - 2] = ">"
          /\ Len(line') = 0
      <4>1. CASE cursor_pos < Size
        BY <1>3, <1>5, <1>11, <3>2, <4>1, SizeFacts DEF Cells
      <4>2. CASE cursor_pos >= Size
        <5>1. /\ cursor_pos' - 2 = Size - Width - 1 /\ cursor_pos' - 2 \in Cells
              /\ cursor_pos' - 2 < Size - Width /\ (cursor_pos' - 2) + Width = cursor_pos - 1
          BY <1>3, <1>5, <3>2, <4>2, SizeFacts DEF Cells
        <5>2. vga'[cursor_pos' - 2] = vga[(cursor_pos' - 2) + Width]
          BY <1>5, <4>2, <5>1
        <5> QED
          BY <1>5, <1>11, <3>2, <4>2, <5>1, <5>2, SizeFacts
      <4> QED
        BY <1>3, <4>1, <4>2, SizeFacts
    <3>4. /\ line' \in Seq(ShellChars)
          /\ vga'[cursor_pos' - Len(line') - 2] = ">" /\ vga'[cursor_pos' - Len(line') - 1] = Blank
          /\ \A k \in 1 .. Len(line') : vga'[cursor_pos' - Len(line') + k - 1] = line'[k]
      BY <1>5, <1>11, <3>2, <3>3
    <3>5. ShownAt(vga', cursor_pos', line')
      BY <1>5, <3>3, <3>4, CellsShown, Zenon
    <3> QED
      BY <3>1, <3>5 DEF Pending, LineOnScreen, ShownAt
  <2>2. CASE Len(out) = 2
    <3>1. Tail(out) # << >> /\ Len(Tail(out)) = 1 /\ Tail(out)[1] = out[2]
      BY <1>1, <2>2, OutFacts
    <3>2. out[1] = ">" /\ out[2] = Blank /\ Head(out) = out[1]
      <4>1. Head(out) = out[1]
        BY <1>1, OutFacts, Zenon
      <4> QED
        BY <1>1, <2>2, <4>1 DEF Pending
    <3>3. pc' = "write" /\ out' # << >> /\ Len(out') = 1 /\ out'[1] = Blank /\ MonitorFollowed(out')
      BY <1>1, <1>6, <3>1, <3>2, OutFacts
    <3>4. vga'[cursor_pos' - 1] = ">"
      BY <1>5, <3>2
    <3>5. Pending'
      BY <1>5, <1>11, <3>3, <3>4 DEF Pending
    <3> QED
      BY <3>3, <3>5 DEF LineOnScreen, Editing
  <2>3. CASE Len(out) > 2
    <3>1. /\ out' # << >> /\ Len(out') >= 2 /\ out'[Len(out') - 1] = ">" /\ out'[Len(out')] = Blank
          /\ MonitorFollowed(out') /\ out' \in Seq(ShellChars \cup Operations)
      BY <1>1, <1>6, <2>3, TailPending
    <3>2. pc' = "write" /\ Len(out') # 1
      BY <1>6, <3>1
    <3>3. Pending'
      BY <1>11, <3>1, <3>2, Zenon DEF Pending
    <3> QED
      BY <3>2, <3>3 DEF LineOnScreen, Editing
  <2>4. Len(out) \in Nat \ {0}
    BY <1>1, OutFacts
  <2>5. Len(out) = 1 \/ Len(out) = 2 \/ Len(out) > 2
    <3>1. \A n \in Nat \ {0} : n = 1 \/ n = 2 \/ n > 2
      OBVIOUS
    <3> QED
      BY <2>4, <3>1, Zenon
  <2> QED
    BY <2>1, <2>2, <2>3, <2>5, Zenon
<1> QED
  BY <1>1, <1>7, <1>8, <1>9, <1>10, <1>12 DEF ShellInv

LEMMA WriteInv ==
    ASSUME ShellInv, Write
    PROVE  ShellInv'
<1>1. /\ ShellTypeOK /\ Pending /\ EmptyAhead /\ HistoryIsRecent
      /\ executed \in Seq(Seq(ShellChars))
  BY DEF ShellInv
<1>2. pc = "write" /\ UNCHANGED <<line, hist, history_count, executed, ticks>>
  BY DEF Write, commandLog
<1>3. /\ Head(out) \in Operations => Tail(out) # << >>
      /\ Head(out) \in ShellChars \cup Operations
      /\ Tail(out) \in Seq(ShellChars \cup Operations)
  <2>1. /\ Head(out) \in Operations => Len(out) > 2
        /\ Head(out) \in ShellChars \cup Operations
        /\ Tail(out) \in Seq(ShellChars \cup Operations)
    BY <1>1, <1>2, OutFacts
  <2>2. Len(out) > 2 => Tail(out) # << >>
    BY <1>1, <1>2, TailPending
  <2> QED
    BY <2>1, <2>2
<1>4. ASSUME Head(out) \in Operations \ {RunMonitor, Halt}, Proceed(Rest)
      PROVE  out' = Tail(out) /\ pc' = "write"
  BY <1>3, <1>4 DEF Proceed, Rest
<1>5. CASE Head(out) = ListEntries
  <2>1. DoListEntries
    BY <1>5 DEF Write
  <2>2. UNCHANGED <<vga, cursor_pos, hw_cursor, last_ticks>>
    BY <2>1 DEF DoListEntries, screen
  <2>3. CASE listed < history_count /\ listed' = listed + 1 /\ Proceed(Entry(listed) \o out)
    BY <1>2, <1>5, <2>2, <2>3, ListEntryInv, Zenon
  <2>4. CASE listed >= history_count /\ listed' = 0 /\ Proceed(Rest)
    <3>1. Head(out) \in Operations \ {RunMonitor, Halt} /\ Head(out) # Restart
      BY <1>5 DEF Operations, ListEntries, RunMonitor, Halt, Restart
    <3>2. /\ vga' \in [Cells -> ShellChars \cup {StatusCell, MonitorCell}]
          /\ cursor_pos' \in Nat /\ hw_cursor' \in Nat
          /\ last_ticks' \in 0 .. Word - 1 /\ listed' \in 0 .. HistorySize
      BY <1>1, <2>2, <2>4, SizeFacts DEF ShellTypeOK
    <3>3. EmptyAhead'
      BY <1>1, <2>2, <3>1, Zenon DEF EmptyAhead
    <3>4. out' = Tail(out) /\ pc' = "write"
      BY <1>4, <2>4, <3>1, Zenon
    <3> QED
      BY <1>2, <3>1, <3>2, <3>3, <3>4, WriteInvLong, Zenon
  <2> QED
    BY <2>1, <2>3, <2>4, Zenon DEF DoListEntries
<1>6. CASE Head(out) # ListEntries
  <2>1. DoOther
    BY <1>6 DEF Write
  <2>2. Proceed(Rest) /\ listed' = listed /\ listed' \in 0 .. HistorySize
    BY <1>1, <2>1 DEF DoOther, ShellTypeOK
  <2>3. CASE Head(out) = LineFeed /\ NewLine /\ UNCHANGED last_ticks
    <3>1. Head(out) \in Operations \ {RunMonitor, Halt} /\ Head(out) # Restart
      BY <2>3, Zenon DEF Operations, LineFeed, RunMonitor, Halt, Restart
    <3>2. /\ Width <= cursor_pos /\ \A i \in Cells : cursor_pos <= i => vga[i] = Blank
      BY <1>1, <3>1 DEF EmptyAhead
    <3>3. /\ cursor_pos \in Nat /\ cursor_pos' \in Nat /\ cursor_pos < cursor_pos' /\ hw_cursor' \in Nat
          /\ vga' = vga
      BY <1>1, <2>3, NextLineLater DEF NewLine, ShellTypeOK
    <3>4. EmptyAhead'
      BY <3>2, <3>3, SizeFacts DEF EmptyAhead, Cells
    <3>5. /\ vga' \in [Cells -> ShellChars \cup {StatusCell, MonitorCell}]
          /\ last_ticks' \in 0 .. Word - 1
      BY <1>1, <2>3, <3>3 DEF ShellTypeOK
    <3>6. out' = Tail(out) /\ pc' = "write"
      BY <1>4, <2>2, <3>1, Zenon
    <3> QED
      BY <1>2, <2>2, <3>1, <3>3, <3>4, <3>5, <3>6, WriteInvLong, Zenon
  <2>4. CASE Head(out) \notin Operations /\ WriteChar(Head(out)) /\ UNCHANGED last_ticks
    BY <1>2, <2>2, <2>4, WriteCharInv DEF Rest
  <2>5. CASE Head(out) = ClearScreen /\ DoClear
    <3>1. Head(out) \in Operations \ {RunMonitor, Halt}
      BY <2>5, Zenon DEF Operations, ClearScreen, RunMonitor, Halt
    <3>2. /\ vga' \in [Cells -> ShellChars \cup {StatusCell, MonitorCell}]
          /\ \A i \in Cells : vga'[i] = Blank
          /\ cursor_pos' = Width /\ cursor_pos' \in Nat /\ hw_cursor' \in Nat
          /\ last_ticks' \in 0 .. Word - 1
      BY <1>1, <2>5, CharFacts, SizeFacts DEF DoClear, ClearedScreen, ShellTypeOK
    <3>3. EmptyAhead'
      BY <3>2, SizeFacts DEF EmptyAhead
    <3>4. out' = Tail(out) /\ pc' = "write"
      BY <1>4, <2>2, <3>1, Zenon
    <3> QED
      BY <1>2, <2>2, <3>1, <3>2, <3>3, <3>4, WriteInvLong, Zenon
  <2>6. CASE Head(out) = Restart /\ DoRestart
    <3>1. Head(out) \in Operations \ {RunMonitor, Halt}
      BY <2>6, Zenon DEF Operations, Restart, RunMonitor, Halt
    <3>2. ClearedScreen \in [Cells -> ShellChars \cup {StatusCell, MonitorCell}]
      BY CharFacts DEF ClearedScreen
    <3>3. /\ vga' \in [Cells -> ShellChars \cup {StatusCell, MonitorCell}]
          /\ \A i \in Cells : Width <= i => vga'[i] = ClearedScreen[i]
      BY <2>6, <3>2, StatusOverEffect, Zenon DEF DoRestart
    <3>4. /\ cursor_pos' = 2 * Width /\ cursor_pos' \in Nat /\ hw_cursor' \in Nat
          /\ last_ticks' \in 0 .. Word - 1
      BY <1>1, <2>6, SizeFacts DEF DoRestart, StatusTick, ShellTypeOK
    <3>5. EmptyAhead'
      BY <3>3, <3>4, SizeFacts DEF EmptyAhead, ClearedScreen, Cells
    <3>6. out' = Tail(out) /\ pc' = "write"
      BY <1>4, <2>2, <3>1, Zenon
    <3> QED
      BY <1>2, <2>2, <3>1, <3>3, <3>4, <3>5, <3>6, WriteInvLong, Zenon
  <2>7. CASE Head(out) = RunMonitor /\ UNCHANGED <<screen, last_ticks>>
    <3>1. out' = Tail(out) /\ pc' = "monitor" /\ UNCHANGED <<vga, cursor_pos, hw_cursor, last_ticks>>
      BY <2>2, <2>7 DEF Proceed, Rest, screen
    <3>2. Head(out) = out[1] /\ 1 \in 1 .. Len(out) /\ Len(out) > 2
      <4>1. Head(out) = out[1] /\ (RunMonitor \in Operations => Len(out) > 2)
        BY <1>1, <1>2, <2>7, OutFacts, Zenon
      <4> QED
        BY <4>1 DEF Operations
    <3>3. Tail(out)[1] = Restart /\ Head(Tail(out)) = Restart
      BY <1>1, <1>2, <2>7, <3>2, OutFacts DEF MonitorFollowed
    <3>4. /\ out' # << >> /\ Len(out') >= 2 /\ out'[Len(out') - 1] = ">" /\ out'[Len(out')] = Blank
          /\ MonitorFollowed(out') /\ out' \in Seq(ShellChars \cup Operations)
      BY <1>1, <1>2, <3>1, <3>2, TailPending
    <3>5. ShellTypeOK'
      BY <1>1, <1>2, <2>2, <3>1, <3>4, Zenon DEF ShellTypeOK
    <3>6. Pending'
      <4>1. Len(out') # 1
        BY <3>4
      <4>2. line' = << >>
        BY <1>1, <1>2 DEF Pending
      <4> QED
        BY <3>1, <3>3, <3>4, <4>1, <4>2, Zenon DEF Pending
    <3>7. EmptyAhead' /\ LineOnScreen' /\ CursorInPlace'
      BY <3>1, <3>3, <3>4, Zenon DEF EmptyAhead, LineOnScreen, CursorInPlace, Editing
    <3>8. HistoryIsRecent'
      BY <1>1, <1>2, Zenon DEF HistoryIsRecent, Prefix
    <3> QED
      BY <1>1, <1>2, <3>5, <3>6, <3>7, <3>8 DEF ShellInv
  <2>8. CASE Head(out) = Halt /\ UNCHANGED <<screen, last_ticks>>
    <3>1. out' = Tail(out) /\ pc' = "halted" /\ UNCHANGED <<vga, cursor_pos, hw_cursor, last_ticks>>
      BY <2>2, <2>8 DEF Proceed, Rest, screen, Halt, RunMonitor
    <3>2. ShellTypeOK'
      BY <1>1, <1>2, <1>3, <2>2, <3>1, Zenon DEF ShellTypeOK
    <3>3. Pending'
      BY <1>1, <1>2, <3>1, Zenon DEF Pending
    <3>4. EmptyAhead'
      BY <1>1, <2>8, <3>1, Zenon DEF EmptyAhead, Halt, Restart
    <3>5. LineOnScreen' /\ CursorInPlace'
      BY <3>1, Zenon DEF LineOnScreen, CursorInPlace, Editing
    <3>6. HistoryIsRecent'
      BY <1>1, <1>2, Zenon DEF HistoryIsRecent, Prefix
    <3> QED
      BY <1>1, <1>2, <3>2, <3>3, <3>4, <3>5, <3>6 DEF ShellInv
  <2> QED
    BY <2>1, <2>3, <2>4, <2>5, <2>6, <2>7, <2>8, Zenon DEF DoOther
<1> QED
  BY <1>5, <1>6

LEMMA MonitorQuitInv ==
    ASSUME ShellInv, MonitorQuit
    PROVE  ShellInv'
<1>1. /\ ShellTypeOK /\ Pending /\ HistoryIsRecent
      /\ executed \in Seq(Seq(ShellChars))
  BY DEF ShellInv
<1>2. /\ pc = "monitor" /\ pc' = "write" /\ vga' = [c \in Cells |-> MonitorCell]
      /\ UNCHANGED <<cursor_pos, hw_cursor, line, hist, history_count, executed, ticks, last_ticks, out, listed>>
  BY DEF MonitorQuit, commandLog
<1>3. vga' \in [Cells -> ShellChars \cup {StatusCell, MonitorCell}]
  BY <1>2
<1>4. ShellTypeOK'
  BY <1>1, <1>2, <1>3, Zenon DEF ShellTypeOK
<1>5. out # << >> /\ out[1] = Restart /\ Head(out) = Restart /\ Len(out) # 1
  <2>1. out # << >> /\ out[1] = Restart /\ (Len(out) = 1 => out[1] = Blank)
    BY <1>1, <1>2 DEF Pending
  <2>2. Restart # Blank
    BY DEF Restart, Blank
  <2> QED
    BY <1>1, <2>1, <2>2 DEF ShellTypeOK
<1>6. Pending'
  BY <1>1, <1>2, <1>5, Zenon DEF Pending
<1>7. EmptyAhead' /\ LineOnScreen' /\ CursorInPlace'
  BY <1>2, <1>5, Zenon DEF EmptyAhead, LineOnScreen, CursorInPlace, Editing
<1>8. HistoryIsRecent'
  BY <1>1, <1>2, Zenon DEF HistoryIsRecent, Prefix
<1> QED
  BY <1>1, <1>2, <1>4, <1>6, <1>7, <1>8 DEF ShellInv

-----------------------------------------------------------------------------

(* The inductive invariant holds throughout (ck_shell_run with all that it
   calls). *)
LEMMA ShellAlways == ShellSpec => []ShellInv
<1>1. ShellInv /\ [ShellNext]_shellVars => ShellInv'
  <2> SUFFICES ASSUME ShellInv, [ShellNext]_shellVars PROVE ShellInv'
    OBVIOUS
  <2>1. CASE Tick
    BY <2>1, TickInv
  <2>2. CASE DrawStatus
    BY <2>2, DrawStatusInv
  <2>3. CASE ReadNothing
    BY <2>3, ReadNothingInv
  <2>4. CASE Write
    BY <2>4, WriteInv
  <2>5. ASSUME NEW c \in ShellChars \cup {LineFeed, Backspace}, ReadChar(c)
        PROVE  ShellInv'
    BY <2>5, EnterInv, EraseInv, InsertInv DEF ReadChar
  <2>6. CASE MonitorQuit
    BY <2>6, MonitorQuitInv
  <2>7. CASE UNCHANGED shellVars
    BY <2>7, Zenon DEF ShellInv, ShellTypeOK, Pending, MonitorFollowed, LineOnScreen, EmptyAhead,
       CursorInPlace, HistoryIsRecent, Editing, Prefix, shellVars, screen, commandLog
  <2> QED
    BY <2>1, <2>2, <2>3, <2>4, <2>5, <2>6, <2>7 DEF ShellNext, Loop
<1> QED
  BY <1>1, InitInv, PTL DEF ShellSpec

(* For every size of the buffers, whatever is typed: the input stays in its
   buffer and the history count within its ring (ck_shell_run,
   ck_history_add). *)
THEOREM ShellStaysInBounds == ShellSpec => []ShellTypeOK
<1>1. ShellInv => ShellTypeOK
  BY DEF ShellInv
<1> QED
  BY <1>1, ShellAlways, PTL

(* For every size of the screen and the buffers: the cells before the cursor
   show the prompt and the line being edited, and the controller's cursor is
   in place, whatever is typed, printed and ticked. *)
THEOREM ShellCorrect == ShellSpec => []LineShown
<1>1. ShellInv => LineShown
  BY DEF ShellInv, LineShown
<1> QED
  BY <1>1, ShellAlways, PTL

(* For every size of the screen: it is empty from the cursor on, through
   wrapping, scrolling and erasing (ck_vga_write_char, ck_shell_run). *)
THEOREM ScreenEmptyAhead == ShellSpec => []EmptyAhead
<1>1. ShellInv => EmptyAhead
  BY DEF ShellInv
<1> QED
  BY <1>1, ShellAlways, PTL

(* For every size of the history ring, after any number of commands: it holds
   the last ones in order (ck_history_add). *)
THEOREM HistoryKeepsLast == ShellSpec => []HistoryIsRecent
<1>1. ShellInv => HistoryIsRecent
  BY DEF ShellInv
<1> QED
  BY <1>1, ShellAlways, PTL

-----------------------------------------------------------------------------

(* What is still to be done on the screen asks for the history's loop. *)
Listing(ops) == \E k \in 1 .. Len(ops) : ops[k] = ListEntries

(* ... at most once. *)
ListsOnce(ops) ==
    \A j, k \in 1 .. Len(ops) : ops[j] = ListEntries /\ ops[k] = ListEntries => j = k

(* The loop of the command history is entered once at most, at entry 0. *)
ListInv ==
    /\ ListsOnce(out)
    /\ ~ Listing(out) => listed = 0
    /\ listed <= history_count

(* A bound on the operations left of a command: those in out, and for each
   entry still to be listed its characters with what is written around them. *)
WorkLeft ==
    Len(out) + (IF Listing(out) THEN (history_count - listed) * (HistoryLine + 3) ELSE 0)

(* While a command writes, only the timer's tick leaves the work as it is. *)
OutputShrinks ==
    [][pc = "write" =>
        /\ WorkLeft \in Nat
        /\ \/ UNCHANGED <<pc, WorkLeft>>
           \/ WorkLeft' \in Nat /\ WorkLeft' < WorkLeft]_shellVars

(* Text and characters never ask for the loop. *)
LEMMA PlainLists ==
    ASSUME NEW S, NEW s \in Seq(S), ListEntries \notin S
    PROVE  ~ Listing(s) /\ ListsOnce(s)
  BY DEF Listing, ListsOnce

(* Text put before what is to be done changes nothing about the loop. *)
LEMMA ListsAfterText ==
    ASSUME NEW S, NEW s \in Seq(S), NEW T, NEW t \in Seq(T), ListEntries \notin S, ListsOnce(t)
    PROVE  ListsOnce(s \o t) /\ (Listing(s \o t) <=> Listing(t))
<1>1. /\ Len(s) \in Nat /\ Len(t) \in Nat /\ Len(s \o t) = Len(s) + Len(t)
      /\ \A k \in 1 .. Len(s) : (s \o t)[k] = s[k] /\ s[k] # ListEntries
      /\ \A k \in 1 .. Len(t) : (s \o t)[Len(s) + k] = t[k]
  OBVIOUS
<1>2. \A k \in 1 .. Len(s \o t) : (s \o t)[k] = ListEntries =>
         k - Len(s) \in 1 .. Len(t) /\ t[k - Len(s)] = ListEntries
  <2> SUFFICES ASSUME NEW k \in 1 .. Len(s \o t), (s \o t)[k] = ListEntries
               PROVE  k - Len(s) \in 1 .. Len(t) /\ t[k - Len(s)] = ListEntries
    OBVIOUS
  <2>1. ~ (k \in 1 .. Len(s))
    BY <1>1
  <2>2. k - Len(s) \in 1 .. Len(t) /\ k = Len(s) + (k - Len(s))
    BY <1>1, <2>1
  <2> QED
    BY <1>1, <2>2
<1>3. ListsOnce(s \o t)
  <2> SUFFICES ASSUME NEW j \in 1 .. Len(s \o t), NEW k \in 1 .. Len(s \o t),
                      (s \o t)[j] = ListEntries, (s \o t)[k] = ListEntries
               PROVE  j = k
    BY DEF ListsOnce
  <2>1. j - Len(s) = k - Len(s)
    BY <1>2 DEF ListsOnce
  <2>2. j \in Int /\ k \in Int
    BY <1>1
  <2> QED
    BY <1>1, <2>1, <2>2
<1>4. ASSUME Listing(t) PROVE Listing(s \o t)
  <2>1. PICK k \in 1 .. Len(t) : t[k] = ListEntries
    BY <1>4 DEF Listing
  <2>2. Len(s) + k \in 1 .. Len(s \o t) /\ (s \o t)[Len(s) + k] = ListEntries
    BY <1>1, <2>1
  <2> QED
    BY <2>2 DEF Listing
<1>5. ASSUME Listing(s \o t) PROVE Listing(t)
  BY <1>2, <1>5 DEF Listing
<1> QED
  BY <1>3, <1>4, <1>5

(* One operation less: the loop is still to come, or it was the one done. *)
LEMMA ListsTail ==
    ASSUME NEW S, NEW s \in Seq(S), s # << >>, ListsOnce(s)
    PROVE  /\ ListsOnce(Tail(s))
           /\ Head(s) = ListEntries => ~ Listing(Tail(s))
           /\ Head(s) # ListEntries => (Listing(Tail(s)) <=> Listing(s))
<1>1. /\ Len(s) \in Nat \ {0} /\ Head(s) = s[1] /\ Len(Tail(s)) = Len(s) - 1
      /\ \A k \in 1 .. Len(s) - 1 : Tail(s)[k] = s[k + 1]
  OBVIOUS
<1>2. \A k \in 1 .. Len(Tail(s)) : k + 1 \in 1 .. Len(s) /\ k + 1 # 1 /\ Tail(s)[k] = s[k + 1]
  BY <1>1
<1>3. ListsOnce(Tail(s))
  <2> SUFFICES ASSUME NEW j \in 1 .. Len(Tail(s)), NEW k \in 1 .. Len(Tail(s)),
                      Tail(s)[j] = ListEntries, Tail(s)[k] = ListEntries
               PROVE  j = k
    BY DEF ListsOnce
  <2>1. j + 1 = k + 1
    BY <1>2 DEF ListsOnce
  <2> QED
    BY <1>1, <2>1
<1>4. ASSUME Head(s) = ListEntries PROVE ~ Listing(Tail(s))
  BY <1>1, <1>2, <1>4 DEF Listing, ListsOnce
<1>5. ASSUME Head(s) # ListEntries, Listing(s) PROVE Listing(Tail(s))
  <2>1. PICK k \in 1 .. Len(s) : s[k] = ListEntries
    BY <1>5 DEF Listing
  <2>2. k - 1 \in 1 .. Len(Tail(s)) /\ (k - 1) + 1 = k
    BY <1>1, <1>5, <2>1
  <2>3. Tail(s)[k - 1] = ListEntries
    BY <1>2, <2>1, <2>2
  <2> QED
    BY <2>2, <2>3 DEF Listing
<1>6. ASSUME Listing(Tail(s)) PROVE Listing(s)
  BY <1>2, <1>6 DEF Listing
<1> QED
  BY <1>3, <1>4, <1>5, <1>6

(* No command enters the loop twice (ck_shell_execute). *)
LEMMA ExecutesLists ==
    ASSUME NEW name, NEW args \in Seq(ShellChars), NEW text \in Texts,
           NEW banner \in Texts, NEW ops, Executes(name, args, text, banner, ops)
    PROVE  ListsOnce(ops)
<1> DEFINE plain == (ShellChars \cup Operations) \ {ListEntries}
<1>1. /\ ShellChars \subseteq plain
      /\ {LineFeed, ClearScreen, RunMonitor, Halt, Restart} \subseteq plain
      /\ ListEntries \notin plain
  BY CharFacts DEF Operations, LineFeed, ClearScreen, RunMonitor, Restart, ListEntries, Halt
<1>2. text \in Seq(plain) /\ banner \in Seq(plain) /\ args \in Seq(plain)
  <2>1. text \in Seq(ShellChars \cup {LineFeed}) /\ banner \in Seq(ShellChars \cup {LineFeed})
    BY ShellAssumption, Zenon
  <2> QED
    BY <1>1, <2>1
<1>3. Prompt \in Seq(plain) /\ ">" \in plain /\ Blank \in plain
  BY <1>1, CharFacts DEF Prompt
<1> HIDE DEF plain
<1>0. \A s, t \in Seq(plain) : s \o t \in Seq(plain)
  OBVIOUS
<1>4. CASE ops = text \o <<ListEntries>> \o Prompt
  <2> DEFINE all == ShellChars \cup Operations
             s == text \o <<ListEntries>>
             n == Len(text)
  <2>1. text \in Seq(all) /\ <<ListEntries>> \in Seq(all) /\ Prompt \in Seq(all)
    BY <1>2, <1>3 DEF plain, Operations
  <2>2. /\ s \in Seq(all) /\ n \in Nat /\ Len(s) = n + 1
        /\ \A k \in 1 .. n : s[k] = text[k]
    BY <2>1
  <2>3. \A k \in 1 .. n : text[k] # ListEntries
    BY <1>1, <1>2
  <2>4. Len(Prompt) = 2 /\ \A k \in 1 .. 2 : Prompt[k] # ListEntries
    BY DEF Prompt, ListEntries, Blank
  <2> HIDE DEF all, s, n
  <2>5. /\ Len(s \o Prompt) = n + 3
        /\ \A k \in 1 .. n + 1 : (s \o Prompt)[k] = s[k]
        /\ \A k \in n + 2 .. n + 3 : (s \o Prompt)[k] = Prompt[k - (n + 1)] /\ k - (n + 1) \in 1 .. 2
    <3>1. /\ Len(s \o Prompt) = Len(s) + Len(Prompt)
          /\ \A k \in 1 .. Len(s) : (s \o Prompt)[k] = s[k]
          /\ \A k \in 1 .. Len(Prompt) : (s \o Prompt)[Len(s) + k] = Prompt[k]
      <4>1. ASSUME NEW u \in Seq(all), NEW v \in Seq(all)
            PROVE  /\ Len(u \o v) = Len(u) + Len(v)
                   /\ \A k \in 1 .. Len(u) : (u \o v)[k] = u[k]
                   /\ \A k \in 1 .. Len(v) : (u \o v)[Len(u) + k] = v[k]
        OBVIOUS
      <4> QED
        BY <2>1, <2>2, <4>1, Zenon
    <3>2. \A k \in n + 2 .. n + 3 : k - (n + 1) \in 1 .. 2 /\ (n + 1) + (k - (n + 1)) = k
      BY <2>2
    <3> DEFINE w == s \o Prompt
    <3>3. /\ Len(w) = n + 3 /\ \A k \in 1 .. n + 1 : w[k] = s[k]
          /\ \A k \in 1 .. 2 : w[(n + 1) + k] = Prompt[k]
      BY <2>2, <2>4, <3>1
    <3> HIDE DEF w
    <3>4. ASSUME NEW k \in n + 2 .. n + 3
          PROVE  w[k] = Prompt[k - (n + 1)] /\ k - (n + 1) \in 1 .. 2
      <4>1. k - (n + 1) \in 1 .. 2 /\ (n + 1) + (k - (n + 1)) = k
        BY <3>2
      <4> QED
        BY <3>3, <4>1
    <3> QED
      BY <3>3, <3>4 DEF w
  <2>6. \A k \in 1 .. Len(s \o Prompt) : (s \o Prompt)[k] = ListEntries => k = n + 1
    <3> SUFFICES ASSUME NEW k \in 1 .. n + 3, (s \o Prompt)[k] = ListEntries
                 PROVE  k = n + 1
      BY <2>5
    <3>1. ~ (k \in 1 .. n)
      BY <2>2, <2>3, <2>5
    <3>2. ~ (k \in n + 2 .. n + 3)
      BY <2>2, <2>4, <2>5
    <3> QED
      BY <2>2, <3>1, <3>2
  <2>7. ListsOnce(s \o Prompt)
    BY <2>6, Zenon DEF ListsOnce
  <2> QED
    BY <1>4, <2>7 DEF s
<1>5. CASE ops \in {Prompt, text \o Prompt, Append(args, LineFeed) \o Prompt,
                    <<ClearScreen>> \o text \o Prompt, text \o <<Halt>> \o Prompt}
  <2>1. /\ Append(args, LineFeed) \in Seq(plain)
        /\ <<ClearScreen>> \o text \in Seq(plain) /\ text \o <<Halt>> \in Seq(plain)
    BY <1>1, <1>2
  <2>2. ops \in Seq(plain)
    BY <1>2, <1>3, <1>5, <2>1, <1>0, Zenon
  <2> QED
    BY <1>1, <2>2, PlainLists
<1>6. CASE ops = text \o <<RunMonitor, Restart>> \o banner \o Prompt \o Prompt
  <2>1. <<RunMonitor, Restart>> \in Seq(plain)
    BY <1>1
  <2>2. text \o <<RunMonitor, Restart>> \in Seq(plain)
    BY <1>2, <2>1, <1>0, Zenon
  <2>3. text \o <<RunMonitor, Restart>> \o banner \in Seq(plain)
    BY <1>2, <2>2, <1>0, Zenon
  <2>4. ops \in Seq(plain)
    BY <1>3, <1>6, <2>3, <1>0, Zenon
  <2> QED
    BY <1>1, <2>4, PlainLists
<1> QED
  BY <1>4, <1>5, <1>6, Zenon DEF Executes

(* The banner asks for no loop. *)
LEMMA ListInit == ShellInit => ListInv
<1> SUFFICES ASSUME ShellInit PROVE ListInv
  OBVIOUS
<1>1. PICK banner \in Texts : out = banner \o Prompt
  BY DEF ShellInit
<1>2. banner \in Seq(ShellChars \cup {LineFeed})
  BY ShellAssumption, Zenon
<1>3. out \in Seq(ShellChars \cup {LineFeed})
  BY <1>1, <1>2, CharFacts DEF Prompt
<1>4. ListEntries \notin ShellChars \cup {LineFeed}
  BY CharFacts, Zenon DEF Operations, ListEntries, LineFeed
<1>5. listed = 0 /\ history_count = 0
  BY DEF ShellInit
<1> QED
  BY <1>3, <1>4, <1>5, PlainLists DEF ListInv

(* A command starts with the loop variable at 0. *)
LEMMA EnterLists ==
    ASSUME ShellInv, ListInv, Enter
    PROVE  ListInv'
<1>1. /\ line \in Seq(ShellChars) /\ history_count \in 0 .. HistorySize
      /\ pc = "read" /\ out = << >> /\ listed' = listed /\ ArgsMax \in Nat
  <2>1. line \in Seq(ShellChars) /\ history_count \in 0 .. HistorySize /\ ArgsMax \in Nat
    BY SizeFacts, Zenon DEF ShellInv, ShellTypeOK
  <2>2. pc = "read" /\ listed' = listed
    BY DEF Enter, Type
  <2>3. out = << >>
    BY <2>2 DEF ShellInv, Pending
  <2> QED
    BY <2>1, <2>2, <2>3, Zenon
<1>2. listed = 0
  BY <1>1 DEF ListInv, Listing
<1>3. history_count' \in Nat
  BY <1>1, SizeFacts DEF Enter, commandLog, HistoryAdd
<1>4. ListsOnce(out')
  <2>1. PICK text \in Texts, banner \in Texts, n \in 0 .. Len(line), m \in 1 .. Len(line) + 1 :
           Executes(Prefix(Prefix(line, n), NameMax),
                    Prefix(SubSeq(line, m, Len(line)), ArgsMax), text, banner, out')
    BY DEF Enter
  <2>2. SubSeq(line, m, Len(line)) \in Seq(ShellChars)
    BY <1>1
  <2>3. Prefix(SubSeq(line, m, Len(line)), ArgsMax) \in Seq(ShellChars)
    BY <1>1, <2>2, PrefixType, Zenon
  <2> QED
    BY <2>1, <2>3, ExecutesLists
<1> QED
  BY <1>1, <1>2, <1>3, <1>4 DEF ListInv

(* The work left is a number. *)
LEMMA WorkType ==
    ASSUME ShellInv, ListInv
    PROVE  WorkLeft \in Nat
<1>1. /\ Len(out) \in Nat /\ history_count \in Nat /\ listed \in Nat /\ listed <= history_count
      /\ HistoryLine \in Nat
  BY SizeFacts DEF ShellInv, ShellTypeOK, ListInv
<1>2. \A h, l, r \in Nat : l <= h => (h - l) * (r + 3) \in Nat
  OBVIOUS
<1>3. (history_count - listed) * (HistoryLine + 3) \in Nat
  BY <1>1, <1>2
<1> QED
  BY <1>1, <1>3 DEF WorkLeft

(* ... also after the step. *)
WorkNumber == WorkLeft \in Nat

LEMMA WorkTypeNext == ShellInv' /\ ListInv' => WorkNumber'
<1>1. ShellInv /\ ListInv => WorkNumber
  BY WorkType DEF WorkNumber
<1> QED
  BY <1>1, PTL

(* An entry of the history fits in what is set aside for it. *)
LEMMA EntryFits ==
    ASSUME ShellInv, listed < history_count
    PROVE  /\ Entry(listed) \in Seq(ShellChars \cup {LineFeed})
           /\ Len(Entry(listed)) <= HistoryLine + 2
<1>1. /\ hist \in [0 .. HistorySize - 1 -> Seq(ShellChars)] /\ history_count \in 0 .. HistorySize
      /\ listed \in 0 .. HistorySize /\ executed \in Seq(Seq(ShellChars)) /\ HistoryIsRecent
      /\ HistorySize \in Nat /\ HistoryLine \in Nat
  BY SizeFacts DEF ShellInv, ShellTypeOK
<1>2. listed \in 0 .. history_count - 1 /\ listed \in 0 .. HistorySize - 1
  BY <1>1
<1> DEFINE n == Len(executed) - history_count + listed + 1
<1>3. n \in 1 .. Len(executed)
  <2>1. Len(executed) \in Nat /\ history_count <= Len(executed)
    BY <1>1 DEF HistoryIsRecent
  <2> QED
    BY <1>1, <1>2, <2>1
<1>4. hist[listed] = Prefix(executed[n], HistoryLine)
  BY <1>1, <1>2 DEF HistoryIsRecent
<1>5. executed[n] \in Seq(ShellChars)
  BY <1>1, <1>3
<1> HIDE DEF n
<1>6. hist[listed] \in Seq(ShellChars) /\ Len(hist[listed]) <= HistoryLine
  BY <1>1, <1>4, <1>5, PrefixType
<1> DEFINE h == hist[listed]
<1> HIDE DEF h
<1>7. /\ <<">">> \o h \o <<LineFeed>> \in Seq(ShellChars \cup {LineFeed})
      /\ Len(<<">">> \o h \o <<LineFeed>>) = Len(h) + 2
  BY <1>6, CharFacts DEF h
<1> QED
  BY <1>1, <1>6, <1>7 DEF Entry, h

(* One operation done, or one entry of the history put before the rest. *)
LEMMA WriteShrinks ==
    ASSUME ShellInv, ListInv, Write
    PROVE  ListInv' /\ WorkLeft' < WorkLeft
<1>1. /\ out \in Seq(ShellChars \cup Operations) /\ out # << >> /\ pc = "write"
      /\ Len(out) \in Nat \ {0} /\ Len(Tail(out)) = Len(out) - 1
      /\ history_count \in Nat /\ listed \in Nat /\ listed <= history_count /\ HistoryLine \in Nat
      /\ ListsOnce(out)
  <2>1. pc = "write" /\ ShellTypeOK /\ Pending
    BY DEF Write, ShellInv
  <2>2. /\ out \in Seq(ShellChars \cup Operations)
        /\ Len(out) \in Nat \ {0} /\ Len(Tail(out)) = Len(out) - 1
    BY <2>1, OutFacts, Zenon
  <2>3. out # << >>
    BY <2>1, Zenon DEF Pending
  <2>4. history_count \in 0 .. HistorySize /\ listed \in 0 .. HistorySize
    BY <2>1, Zenon DEF ShellTypeOK
  <2>5. history_count \in Nat /\ listed \in Nat /\ HistoryLine \in Nat
    BY <2>4, SizeFacts
  <2>6. listed <= history_count /\ ListsOnce(out)
    BY Zenon DEF ListInv
  <2> QED
    BY <2>1, <2>2, <2>3, <2>5, <2>6, Zenon
<1>2. history_count' = history_count
  BY DEF Write, commandLog
<1> DEFINE room == HistoryLine + 3
           left == history_count - listed
<1>3. left \in Nat /\ room \in Nat /\ left * room \in Nat
  <2>1. left \in Nat /\ room \in Nat
    BY <1>1
  <2> HIDE DEF left, room
  <2> QED
    BY <2>1
<1>4. CASE Head(out) = ListEntries /\ listed < history_count
  <2> DEFINE e == Entry(listed)
  <2>1. out' = e \o out /\ listed' = listed + 1
    BY <1>4, <1>1 DEF Write, DoListEntries, Proceed
  <2>2. e \in Seq(ShellChars \cup {LineFeed}) /\ Len(e) <= HistoryLine + 2
    BY <1>4, EntryFits
  <2> HIDE DEF e
  <2>3. ListEntries \notin ShellChars \cup {LineFeed}
    BY CharFacts, Zenon DEF Operations, ListEntries, LineFeed
  <2>4. ListsOnce(out') /\ (Listing(out') <=> Listing(out))
    BY <1>1, <2>1, <2>2, <2>3, ListsAfterText
  <2>5. Listing(out)
    BY <1>1, <1>4 DEF Listing
  <2>6. Len(out') = Len(e) + Len(out) /\ Len(e) \in Nat
    BY <1>1, <2>1, <2>2
  <2>7. ListInv'
    BY <1>1, <1>2, <1>4, <2>1, <2>4, <2>5 DEF ListInv
  <2>8. /\ WorkLeft = Len(out) + left * room
        /\ WorkLeft' = Len(out') + (history_count - (listed + 1)) * room
    BY <1>2, <2>1, <2>4, <2>5 DEF WorkLeft
  <2>9. (history_count - (listed + 1)) * room = left * room - room
    <3>1. history_count - (listed + 1) = left - 1
      BY <1>1
    <3>2. \A a, b \in Nat : (a - 1) * b = a * b - b
      OBVIOUS
    <3> HIDE DEF left, room
    <3> QED
      BY <1>3, <3>1, <3>2
  <2>10. Len(e) < room
    BY <1>1, <2>2, <2>6
  <2>11. WorkLeft' < WorkLeft
    <3> DEFINE x == left * room
    <3>1. WorkLeft = Len(out) + x /\ WorkLeft' = Len(e) + Len(out) + (x - room)
      BY <2>6, <2>8, <2>9
    <3>2. x \in Nat
      BY <1>3
    <3> HIDE DEF x, left, room
    <3> QED
      BY <1>1, <1>3, <2>6, <2>10, <3>1, <3>2
  <2> QED
    BY <2>7, <2>11
<1>5. CASE ~ (Head(out) = ListEntries /\ listed < history_count)
  <2>1. /\ out' = Tail(out)
        /\ Head(out) = ListEntries => listed' = 0
        /\ Head(out) # ListEntries => listed' = listed
    BY <1>1, <1>5 DEF Write, DoListEntries, DoOther, Proceed, Rest
  <2>2. /\ ListsOnce(Tail(out))
        /\ Head(out) = ListEntries => ~ Listing(Tail(out))
        /\ Head(out) # ListEntries => (Listing(Tail(out)) <=> Listing(out))
    BY <1>1, ListsTail
  <2>3. ListInv'
    BY <1>1, <1>2, <2>1, <2>2 DEF ListInv
  <2>4. Head(out) = ListEntries => WorkLeft' = Len(out) - 1
    BY <1>1, <2>1, <2>2 DEF WorkLeft
  <2>5. Head(out) = ListEntries => WorkLeft >= Len(out)
    BY <1>1, <1>3 DEF WorkLeft
  <2>6. Head(out) # ListEntries => WorkLeft' = WorkLeft - 1
    BY <1>1, <1>2, <1>3, <2>1, <2>2 DEF WorkLeft
  <2>7. WorkLeft \in Nat
    BY WorkType
  <2> QED
    BY <1>1, <2>3, <2>4, <2>5, <2>6, <2>7
<1> QED
  BY <1>4, <1>5

(* Only a new command and its output change what is to be done. *)
LEMMA ListStep == ShellInv /\ ListInv /\ [ShellNext]_shellVars => ListInv'
<1> SUFFICES ASSUME ShellInv, ListInv, [ShellNext]_shellVars PROVE ListInv'
  OBVIOUS
<1>1. CASE UNCHANGED <<out, listed, history_count>>
  BY <1>1 DEF ListInv, ListsOnce, Listing
<1>2. CASE Enter
  BY <1>2, EnterLists
<1>3. CASE Write
  BY <1>3, WriteShrinks
<1> QED
  BY <1>1, <1>2, <1>3
  DEF ShellNext, Loop, Tick, DrawStatus, ReadNothing, ReadChar, Erase, Insert, Type, MonitorQuit,
      shellVars, commandLog

(* For every history, line and text: each step of a command's output leaves
   less to be done, a natural number, so that it comes to its end however the
   entries of the history add to it.  This is the safety half of CommandsEnd
   (ck_shell_execute). *)
THEOREM CommandsShrink == ShellSpec => OutputShrinks
<1> DEFINE step == pc = "write" =>
                     /\ WorkLeft \in Nat
                     /\ \/ UNCHANGED <<pc, WorkLeft>>
                        \/ WorkLeft' \in Nat /\ WorkLeft' < WorkLeft
<1>1. ShellInv /\ ShellInv' /\ ListInv /\ ListInv' /\ [ShellNext]_shellVars => [step]_shellVars
  <2> SUFFICES ASSUME ShellInv, ShellInv', ListInv, ListInv', ShellNext, pc = "write"
               PROVE  /\ WorkLeft \in Nat
                      /\ \/ UNCHANGED <<pc, WorkLeft>>
                         \/ WorkLeft' \in Nat /\ WorkLeft' < WorkLeft
    OBVIOUS
  <2>1. WorkLeft \in Nat /\ WorkLeft' \in Nat
    BY WorkType, WorkTypeNext DEF WorkNumber
  <2>2. CASE Tick
    BY <2>1, <2>2 DEF Tick, commandLog, WorkLeft, Listing
  <2>3. CASE Write
    BY <2>1, <2>3, WriteShrinks
  <2> QED
    BY <2>2, <2>3
    DEF ShellNext, Loop, DrawStatus, ReadNothing, ReadChar, Enter, Erase, Insert, Type, MonitorQuit
<1> QED
  BY <1>1, ListInit, ListStep, ShellAlways, PTL DEF ShellSpec, OutputShrinks
============================================================================
