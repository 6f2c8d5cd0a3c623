-------------------------- MODULE KeyboardProofs --------------------------
(***************************************************************************)
(* Proofs about the keyboard driver's ring, for every size of the buffer,  *)
(* every set of keys and any number of presses: the interrupt handler may  *)
(* run between any two steps of the reader.                                *)
(***************************************************************************)
EXTENDS Keyboard, TLAPS

Press == [key : Keys, shift : BOOLEAN, late : BOOLEAN]

(* What the reader knows at each of its places.  The handler moves the head
   only, so the slot at the tail stays filled until the tail moves. *)
ReaderKnows ==
    /\ pc \in {"load", "advance"} => head # tail
    /\ pc = "advance" => scancode = buffer[tail]
    /\ pc = "convert" => scancode = waiting[1].key

(* No press in the buffer has lost the shift state it was typed with, other
   than those typed before a shift key moved. *)
ShiftKept == \A n \in 1 .. Len(waiting) : waiting[n].late \/ waiting[n].shift = shift_pressed

RingInv == waiting \in Seq(Press) /\ RingHoldsRest /\ ReaderKnows

(* The inductive invariant about the buffer. *)
KeyInv == TypeOK /\ RingInv /\ ShiftKept /\ DeliveredAsTyped

Slots == 0 .. BufferSize - 1

-----------------------------------------------------------------------------

(* One turn around the ring. *)
LEMMA Around ==
    ASSUME NEW x \in Int
    PROVE  /\ 0 <= x /\ x < BufferSize => x % BufferSize = x
           /\ BufferSize <= x /\ x < 2 * BufferSize => x % BufferSize = x - BufferSize
           /\ x < 0 /\ -BufferSize <= x => x % BufferSize = x + BufferSize
<1>1. BufferSize \in Nat \ {0}
  BY KeyboardAssumption
<1>2. QED
  BY <1>1

LEMMA NextAround ==
    ASSUME NEW x \in Slots
    PROVE  (x + 1) % BufferSize = IF x + 1 < BufferSize THEN x + 1 ELSE 0
<1>1. BufferSize \in Nat \ {0} /\ x \in Nat /\ x < BufferSize
  BY KeyboardAssumption DEF Slots
<1>2. QED
  BY <1>1, Around

(* Count slots from the tail on is the head, and not before. *)
LEMMA CountToHead ==
    ASSUME head \in Slots, tail \in Slots
    PROVE  /\ Count \in Slots
           /\ Count = 0 <=> head = tail
           /\ (tail + Count) % BufferSize = head
           /\ \A i \in 0 .. Count - 1 : (tail + i) % BufferSize \in Slots \ {head}
<1>1. BufferSize \in Nat \ {0} /\ head \in Nat /\ tail \in Nat
      /\ head < BufferSize /\ tail < BufferSize
  BY KeyboardAssumption DEF Slots
<1>2. Count = IF head >= tail THEN head - tail ELSE head - tail + BufferSize
  BY <1>1, Around DEF Count
<1>3. Count \in Slots /\ (Count = 0 <=> head = tail)
  BY <1>1, <1>2 DEF Slots
<1>4. \A i \in 0 .. BufferSize - 1 : (tail + i) % BufferSize =
          IF tail + i < BufferSize THEN tail + i ELSE tail + i - BufferSize
  BY <1>1, Around
<1>5. (tail + Count) % BufferSize = head
  BY <1>1, <1>2, <1>3, <1>4 DEF Slots
<1>6. ASSUME NEW i \in 0 .. Count - 1
      PROVE  (tail + i) % BufferSize \in Slots \ {head}
  <2>1. i \in 0 .. BufferSize - 1
    BY <1>1, <1>3 DEF Slots
  <2>2. (tail + i) % BufferSize =
            IF tail + i < BufferSize THEN tail + i ELSE tail + i - BufferSize
    BY <1>4, <2>1
  <2>3. QED
    BY <1>1, <1>2, <2>1, <2>2 DEF Slots
<1>7. QED
  BY <1>3, <1>5, <1>6

(* Putting a key in makes the count one larger, taking one out one smaller. *)
LEMMA CountSteps ==
    ASSUME head \in Slots, tail \in Slots, head' \in Slots, tail' \in Slots
    PROVE  /\ ~ Full /\ head' = next_head /\ tail' = tail => Count' = Count + 1
           /\ head # tail /\ head' = head /\ tail' = (tail + 1) % BufferSize
                => Count' = Count - 1
<1>1. BufferSize \in Nat \ {0} /\ head \in Nat /\ tail \in Nat
      /\ head < BufferSize /\ tail < BufferSize
      /\ head' \in Nat /\ tail' \in Nat /\ head' < BufferSize /\ tail' < BufferSize
  BY KeyboardAssumption DEF Slots
<1>2. Count = IF head >= tail THEN head - tail ELSE head - tail + BufferSize
  BY <1>1, Around DEF Count
<1>3. Count' = IF head' >= tail' THEN head' - tail' ELSE head' - tail' + BufferSize
  <2>1. Count' = (head' - tail') % BufferSize
    BY DEF Count
  <2>2. QED
    BY <1>1, <2>1, Around
<1>4. next_head = IF head + 1 < BufferSize THEN head + 1 ELSE 0
  BY <1>1, Around DEF next_head
<1>5. (tail + 1) % BufferSize = IF tail + 1 < BufferSize THEN tail + 1 ELSE 0
  BY <1>1, Around
<1>6. ASSUME ~ Full, head' = next_head, tail' = tail PROVE Count' = Count + 1
  <2>1. head' # tail /\ head' = IF head + 1 < BufferSize THEN head + 1 ELSE 0
    BY <1>4, <1>6 DEF Full
  <2>2. QED
    BY <1>1, <1>2, <1>3, <1>6, <2>1
<1>7. ASSUME head # tail, head' = head, tail' = (tail + 1) % BufferSize
      PROVE  Count' = Count - 1
  <2>1. tail' = IF tail + 1 < BufferSize THEN tail + 1 ELSE 0
    BY <1>5, <1>7
  <2>2. QED
    BY <1>1, <1>2, <1>3, <1>7, <2>1
<1>8. QED
  BY <1>6, <1>7

(* The handler finds the buffer full when one slot is left. *)
LEMMA FullCount ==
    ASSUME head \in Slots, tail \in Slots
    PROVE  Full <=> Count = BufferSize - 1
<1>1. BufferSize \in Nat \ {0} /\ head \in Nat /\ tail \in Nat
      /\ head < BufferSize /\ tail < BufferSize
  BY KeyboardAssumption DEF Slots
<1>2. Count = IF head >= tail THEN head - tail ELSE head - tail + BufferSize
  BY <1>1, Around DEF Count
<1>3. next_head = IF head + 1 < BufferSize THEN head + 1 ELSE 0
  BY NextAround DEF next_head
<1>4. QED
  BY <1>1, <1>2, <1>3 DEF Full

-----------------------------------------------------------------------------

(* Types of the ring, from the type invariant. *)
LEMMA RingTypes ==
    ASSUME TypeOK
    PROVE  /\ head \in Slots /\ tail \in Slots
           /\ buffer \in [Slots -> Keys \cup {NoKey}]
           /\ BufferSize \in Nat \ {0}
BY KeyboardAssumption DEF TypeOK, Slots

Busy == {"load", "advance", "convert"}

(* Steps that leave the ring alone. *)
LEMMA SameRingInv ==
    ASSUME RingInv, UNCHANGED <<buffer, head, tail, waiting>>,
           UNCHANGED <<pc, scancode>> \/ (pc \notin Busy /\ pc' \notin Busy)
    PROVE  RingInv'
<1> USE DEF RingInv, Busy
<1>1. InHand' = InHand /\ Count' = Count
  BY DEF InHand, Count
<1>2. RingHoldsRest'
  BY <1>1 DEF RingHoldsRest
<1>3. waiting' \in Seq(Press) /\ ReaderKnows'
  BY DEF ReaderKnows
<1>4. QED
  BY <1>2, <1>3

(* A shift key moves: only the marks of the presses that wait change. *)
LEMMA AllLateInv ==
    ASSUME TypeOK, RingInv, waiting' = AllLate, UNCHANGED <<buffer, head, tail, pc, scancode>>
    PROVE  /\ RingInv'
           /\ \A n \in 1 .. Len(waiting') : waiting'[n].late
<1> USE DEF RingInv
<1>1. waiting \in Seq(Press) /\ DOMAIN waiting = 1 .. Len(waiting) /\ Len(waiting) \in Nat
  OBVIOUS
<1> DEFINE Marked(n) == [key |-> waiting[n].key, shift |-> FALSE, late |-> TRUE]
<1>2. \A n \in 1 .. Len(waiting) : Marked(n) \in Press
  <2> SUFFICES ASSUME NEW n \in 1 .. Len(waiting) PROVE Marked(n) \in Press
    OBVIOUS
  <2>1. waiting[n] \in Press
    BY <1>1
  <2>2. waiting[n].key \in Keys /\ waiting[n].shift \in BOOLEAN
    BY <2>1, Zenon DEF Press
  <2>3. QED
    BY <2>2, Zenon DEF Press
<1>3. \A n \in 1 .. Len(waiting) : Marked(n).key = waiting[n].key /\ Marked(n).late
  OBVIOUS
<1>4. waiting' = [n \in 1 .. Len(waiting) |-> Marked(n)]
  BY <1>1 DEF AllLate
<1> HIDE DEF Marked
<1>5. waiting' \in Seq(Press) /\ Len(waiting') = Len(waiting)
  BY <1>1, <1>2, <1>4
<1>6. \A n \in 1 .. Len(waiting) : waiting'[n].key = waiting[n].key /\ waiting'[n].late
  BY <1>3, <1>4
<1>7. InHand' = InHand /\ Count' = Count /\ InHand \in 0 .. 1 /\ Count \in Nat
  <2>1. Count \in Nat
    BY RingTypes, CountToHead DEF Slots
  <2>2. QED
    BY <2>1 DEF InHand, Count
<1>8. RingHoldsRest'
  <2>1. Len(waiting') = InHand' + Count'
    BY <1>5, <1>7 DEF RingHoldsRest
  <2>2. ASSUME NEW n \in 0 .. Count - 1
        PROVE  buffer[(tail + n) % BufferSize] = waiting'[InHand + n + 1].key
    <3>1. InHand + n + 1 \in 1 .. Len(waiting)
      BY <1>7 DEF RingHoldsRest
    <3>2. QED
      BY <1>6, <3>1 DEF RingHoldsRest
  <2>3. QED
    BY <1>7, <2>1, <2>2 DEF RingHoldsRest
<1>9. ReaderKnows'
  <2>1. pc = "convert" => 1 \in 1 .. Len(waiting)
    BY <1>7 DEF RingHoldsRest, InHand
  <2>2. QED
    BY <1>6, <2>1 DEF ReaderKnows
<1>10. QED
  BY <1>5, <1>6, <1>8, <1>9

(* The handler fills the slot at the head, which is none of those waiting. *)
LEMMA EnqueueInv ==
    ASSUME TypeOK, RingInv, NEW k \in Keys, NEW p \in Press, p.key = k, ~ Full,
           buffer' = [buffer EXCEPT ![head] = k], head' = next_head, tail' = tail,
           waiting' = Append(waiting, p), UNCHANGED <<pc, scancode>>
    PROVE  /\ RingInv'
           /\ Len(waiting') = Len(waiting) + 1
           /\ waiting'[Len(waiting) + 1] = p
           /\ \A n \in 1 .. Len(waiting) : waiting'[n] = waiting[n]
<1> USE DEF RingInv
<1>1. /\ head \in Slots /\ tail \in Slots /\ buffer \in [Slots -> Keys \cup {NoKey}]
      /\ BufferSize \in Nat \ {0}
  BY RingTypes
<1>2. next_head \in Slots
  BY <1>1 DEF next_head, Slots
<1>3. /\ Count' = Count + 1 /\ Count \in Nat
      /\ InHand' = InHand /\ InHand \in 0 .. 1
  <2>1. Count' = Count + 1
    BY <1>1, <1>2, CountSteps
  <2>2. Count \in Nat
    BY <1>1, CountToHead DEF Slots
  <2>3. QED
    BY <2>1, <2>2 DEF InHand
<1>4. waiting \in Seq(Press) /\ Len(waiting) = InHand + Count
  BY DEF RingHoldsRest
<1>5. /\ waiting' \in Seq(Press) /\ Len(waiting') = Len(waiting) + 1
      /\ waiting'[Len(waiting) + 1] = p
      /\ \A n \in 1 .. Len(waiting) : waiting'[n] = waiting[n]
  BY <1>4
<1>6. ASSUME NEW n \in 0 .. Count' - 1
      PROVE  buffer'[(tail' + n) % BufferSize] = waiting'[InHand' + n + 1].key
  <2>1. CASE n \in 0 .. Count - 1
    <3>1. (tail + n) % BufferSize \in Slots \ {head}
      BY <1>1, <2>1, CountToHead
    <3>2. InHand + n + 1 \in 1 .. Len(waiting)
      BY <1>3, <1>4, <2>1
    <3>3. buffer[(tail + n) % BufferSize] = waiting[InHand + n + 1].key
      BY <2>1 DEF RingHoldsRest
    <3>4. QED
      BY <1>1, <1>3, <1>5, <3>1, <3>2, <3>3
  <2>2. CASE n = Count
    <3>1. (tail' + n) % BufferSize = head
      BY <1>1, <2>2, CountToHead
    <3>2. InHand' + n + 1 = Len(waiting) + 1
      BY <1>3, <1>4, <2>2
    <3>3. waiting'[Len(waiting) + 1].key = k /\ buffer'[head] = k
      BY <1>1, <1>5
    <3>4. QED
      BY <3>1, <3>2, <3>3
  <2>3. n \in 0 .. Count
    BY <1>3
  <2>4. n \in 0 .. Count - 1 \/ n = Count
    <3>1. \A m \in Nat : n \in 0 .. m => n \in 0 .. m - 1 \/ n = m
      OBVIOUS
    <3>2. QED
      BY <1>3, <2>3, <3>1
  <2>5. QED
    BY <2>1, <2>2, <2>4, Zenon
<1>7. RingHoldsRest'
  <2>1. Len(waiting') = InHand' + Count'
    BY <1>3, <1>4, <1>5
  <2>2. QED
    BY <1>6, <2>1, Zenon DEF RingHoldsRest
<1>8. ReaderKnows'
  <2>1. pc' \in {"load", "advance"} => head' # tail'
    BY DEF Full
  <2>2. pc' = "advance" => scancode' = buffer'[tail']
    BY <1>1 DEF ReaderKnows
  <2>3. pc' = "convert" => scancode' = waiting'[1].key
    <3>1. pc = "convert" => 1 \in 1 .. Len(waiting)
      BY <1>3, <1>4 DEF InHand
    <3>2. QED
      BY <1>5, <3>1 DEF ReaderKnows
  <2>4. QED
    BY <2>1, <2>2, <2>3 DEF ReaderKnows
<1>9. QED
  BY <1>5, <1>7, <1>8

(* The reader's test and load: whatever the handler adds, the slot at the
   tail stays what it is until the tail moves. *)
LEMMA CheckAndLoadInv ==
    ASSUME TypeOK, RingInv, ReadCheck \/ ReadLoad
    PROVE  RingInv'
<1> USE DEF RingInv, ReadCheck, ReadLoad, Goto, driver, ring, history
<1>1. /\ UNCHANGED <<buffer, head, tail, waiting>>
      /\ pc # "convert" /\ pc' # "convert"
      /\ pc' \in {"load", "advance"} => head # tail
      /\ pc' = "advance" => scancode' = buffer[tail]
  BY DEF ReaderKnows, NextSlot
<1>2. InHand' = InHand /\ Count' = Count
  BY <1>1 DEF InHand, Count
<1>3. RingHoldsRest' /\ waiting' \in Seq(Press)
  BY <1>1, <1>2 DEF RingHoldsRest
<1>4. ReaderKnows'
  BY <1>1 DEF ReaderKnows
<1>5. QED
  BY <1>3, <1>4

(* Moving the tail takes the first press that waits. *)
LEMMA AdvanceInv ==
    ASSUME TypeOK, RingInv, ReadAdvance
    PROVE  RingInv'
<1> USE DEF RingInv
<1>1. /\ head \in Slots /\ tail \in Slots /\ buffer \in [Slots -> Keys \cup {NoKey}]
      /\ BufferSize \in Nat \ {0}
  BY RingTypes
<1>2. /\ pc = "advance" /\ pc' = "convert" /\ tail' = (tail + 1) % BufferSize
      /\ UNCHANGED <<buffer, head, scancode, waiting>>
  BY DEF ReadAdvance, Goto, history
<1>3. head # tail /\ scancode = buffer[tail]
  BY <1>2 DEF ReaderKnows
<1>4. tail' \in Slots
  BY <1>1, <1>2 DEF Slots
<1>5. /\ Count' = Count - 1 /\ Count \in Nat /\ Count >= 1
      /\ InHand = 0 /\ InHand' = 1
      /\ Len(waiting) = Count
  <2>1. Count' = Count - 1
    BY <1>1, <1>2, <1>3, <1>4, CountSteps
  <2>2. Count \in Nat /\ Count # 0
    BY <1>1, <1>3, CountToHead DEF Slots
  <2>3. InHand = 0 /\ InHand' = 1
    BY <1>2 DEF InHand
  <2>4. QED
    BY <2>1, <2>2, <2>3 DEF RingHoldsRest
<1>6. scancode = waiting[1].key
  <2>1. (tail + 0) % BufferSize = tail
    BY <1>1, Around DEF Slots
  <2>2. 0 \in 0 .. Count - 1 /\ InHand + 0 + 1 = 1
    BY <1>5
  <2>3. buffer[(tail + 0) % BufferSize] = waiting[InHand + 0 + 1].key
    BY <2>2 DEF RingHoldsRest
  <2>4. QED
    BY <1>3, <2>1, <2>2, <2>3
<1>7. ASSUME NEW n \in 0 .. Count' - 1
      PROVE  buffer'[(tail' + n) % BufferSize] = waiting'[InHand' + n + 1].key
  <2>1. n + 1 \in 0 .. Count - 1 /\ n \in Nat /\ n + 1 < BufferSize
    BY <1>1, <1>5, CountToHead DEF Slots
  <2>2. (tail' + n) % BufferSize = (tail + (n + 1)) % BufferSize
    <3>1. tail' = IF tail + 1 < BufferSize THEN tail + 1 ELSE 0
      BY <1>1, <1>2, NextAround, Zenon
    <3>2. CASE tail + 1 < BufferSize
      BY <1>1, <2>1, <3>1, <3>2 DEF Slots
    <3>3. CASE tail + 1 = BufferSize
      <4>1. tail' + n = n /\ tail + (n + 1) = BufferSize + n
        BY <1>1, <2>1, <3>1, <3>3 DEF Slots
      <4>2. (BufferSize + n) % BufferSize = n /\ n % BufferSize = n
        BY <1>1, <2>1, Around
      <4>3. QED
        BY <4>1, <4>2
    <3>4. QED
      BY <1>1, <3>2, <3>3 DEF Slots
  <2>3. buffer[(tail + (n + 1)) % BufferSize] = waiting[InHand + (n + 1) + 1].key
    BY <2>1 DEF RingHoldsRest
  <2>4. InHand' + n + 1 = InHand + (n + 1) + 1
    BY <1>5, <2>1
  <2>5. QED
    BY <1>2, <2>2, <2>3, <2>4
<1>8. RingHoldsRest'
  <2>1. Len(waiting') = InHand' + Count'
    BY <1>2, <1>5
  <2>2. QED
    BY <1>7, <2>1 DEF RingHoldsRest
<1>9. ReaderKnows' /\ waiting' \in Seq(Press)
  BY <1>2, <1>6 DEF ReaderKnows
<1>10. QED
  BY <1>8, <1>9

(* Converting the press that was taken. *)
LEMMA ConvertInv ==
    ASSUME TypeOK, RingInv, ShiftKept, Convert, pc = "convert"
    PROVE  RingInv' /\ ShiftKept' /\ DeliveredAsTyped'
<1> USE DEF RingInv
<1>1. /\ pc' = "idle" /\ waiting' = Tail(waiting) /\ typed' = Head(waiting)
      /\ result' = ck_scancode_to_ascii(scancode, shift_pressed)
      /\ UNCHANGED <<buffer, head, tail, shift_pressed>>
  BY DEF Convert, Return, driver, ring, ShiftUsed
<1>2. Count' = Count /\ InHand = 1 /\ InHand' = 0 /\ Count \in Nat
  <2>1. Count \in Nat
    BY RingTypes, CountToHead DEF Slots
  <2>2. QED
    BY <1>1, <2>1 DEF Count, InHand
<1>3. waiting \in Seq(Press) /\ Len(waiting) = Count + 1 /\ waiting # << >>
  BY <1>2 DEF RingHoldsRest
<1>4. /\ waiting' \in Seq(Press) /\ Len(waiting') = Count
      /\ \A n \in 1 .. Count : waiting'[n] = waiting[n + 1]
      /\ typed' = waiting[1]
  BY <1>1, <1>2, <1>3
<1>5. RingHoldsRest'
  <2>1. Len(waiting') = InHand' + Count'
    BY <1>2, <1>4
  <2>2. ASSUME NEW n \in 0 .. Count - 1
        PROVE  buffer[(tail + n) % BufferSize] = waiting'[n + 1].key
    <3>1. buffer[(tail + n) % BufferSize] = waiting[InHand + n + 1].key
      BY DEF RingHoldsRest
    <3>2. InHand + n + 1 = (n + 1) + 1 /\ n + 1 \in 1 .. Count
      BY <1>2
    <3>3. QED
      BY <1>4, <3>1, <3>2
  <2>3. \A n \in 0 .. Count - 1 : InHand' + n + 1 = n + 1
    BY <1>2
  <2>4. QED
    BY <1>1, <1>2, <2>1, <2>2, <2>3 DEF RingHoldsRest
<1>6. ReaderKnows'
  BY <1>1 DEF ReaderKnows
<1>7. ShiftKept'
  <2>1. \A n \in 1 .. Count : n + 1 \in 1 .. Len(waiting)
    BY <1>2, <1>3
  <2>2. QED
    BY <1>1, <1>4, <2>1 DEF ShiftKept
<1>8. DeliveredAsTyped'
  <2>1. scancode = typed'.key
    BY <1>4 DEF ReaderKnows
  <2>2. typed'.late \/ shift_pressed = typed'.shift
    <3>1. 1 \in 1 .. Len(waiting)
      BY <1>2, <1>3
    <3>2. QED
      BY <1>4, <3>1 DEF ShiftKept
  <2>3. shift_pressed \in BOOLEAN
    BY DEF TypeOK
  <2>4. result' = ck_scancode_to_ascii(typed'.key, shift_pressed)
    BY <1>1, <2>1
  <2>5. QED
    BY <2>2, <2>3, <2>4, Zenon DEF DeliveredAsTyped, ck_scancode_to_ascii, scancode_table
<1>9. QED
  BY <1>4, <1>5, <1>6, <1>7, <1>8

-----------------------------------------------------------------------------

(* The interrupt handlers keep the types, the ring and the marks. *)
LEMMA IrqInv ==
    ASSUME KeyInv, TimerIrq \/ KeyboardIrq
    PROVE  KeyInv'
<1> USE DEF KeyInv, ring, repeatState, reader, history
<1>1. /\ BufferSize \in Nat \ {0} /\ Word \in Nat \ {0}
      /\ head \in Slots /\ tail \in Slots /\ next_head \in Slots
  BY RingTypes, KeyboardAssumption DEF next_head, Slots
<1>2. UNCHANGED <<typed, result>>
  BY DEF TimerIrq, KeyboardIrq, ShiftMake, ShiftBreak, KeyMake, KeyBreak
<1>3. DeliveredAsTyped'
  BY <1>2 DEF DeliveredAsTyped, ck_scancode_to_ascii, scancode_table
<1>4. CASE TimerIrq
  <2>1. TypeOK'
    BY <1>1, <1>4 DEF TimerIrq, TypeOK
  <2>2. RingInv' /\ ShiftKept'
    BY <1>4, SameRingInv DEF TimerIrq, ShiftKept
  <2>3. QED
    BY <1>3, <2>1, <2>2
<1>5. ASSUME NEW s \in Shifts, ShiftMake(s) \/ ShiftBreak(s) PROVE KeyInv'
  <2>1. TypeOK'
    BY <1>5, Zenon DEF ShiftMake, ShiftBreak, AfterRelease, TypeOK
  <2>2. RingInv' /\ ShiftKept'
    BY <1>5, AllLateInv DEF ShiftMake, ShiftBreak, ShiftKept
  <2>3. QED
    BY <1>3, <2>1, <2>2
<1>6. ASSUME NEW k \in Keys, KeyBreak(k) PROVE KeyInv'
  <2>1. TypeOK'
    BY <1>6 DEF KeyBreak, HeldAfterBreak, TypeOK
  <2>2. RingInv' /\ ShiftKept'
    BY <1>6, SameRingInv DEF KeyBreak, ShiftKept
  <2>3. QED
    BY <1>3, <2>1, <2>2
<1>7. ASSUME NEW k \in Keys, KeyMake(k) PROVE KeyInv'
  <2>1. CASE Full
    <3>1. UNCHANGED <<buffer, head, tail, waiting, shift_pressed, pc, scancode, now>>
      BY <1>7, <2>1 DEF KeyMake, Enqueue
    <3>2. TypeOK'
      BY <1>7, <3>1 DEF KeyMake, PressTime, TypeOK
    <3>3. RingInv' /\ ShiftKept'
      BY <3>1, SameRingInv DEF ShiftKept
    <3>4. QED
      BY <1>3, <3>2, <3>3
  <2>2. CASE ~ Full
    <3> DEFINE p == [key |-> k, shift |-> shift_pressed, late |-> FALSE]
    <3>1. /\ buffer' = [buffer EXCEPT ![head] = k] /\ head' = next_head
          /\ waiting' = Append(waiting, p)
          /\ UNCHANGED <<tail, shift_pressed, pc, scancode, now>>
      BY <1>7, <2>2 DEF KeyMake, Enqueue
    <3>2. TypeOK'
      BY <1>1, <1>7, <3>1 DEF KeyMake, PressTime, TypeOK, Slots
    <3>3. p \in Press /\ p.key = k /\ p.shift = shift_pressed
      BY DEF TypeOK, Press
    <3> HIDE DEF p
    <3>4. /\ RingInv' /\ Len(waiting') = Len(waiting) + 1 /\ waiting'[Len(waiting) + 1] = p
          /\ \A n \in 1 .. Len(waiting) : waiting'[n] = waiting[n]
      BY <2>2, <3>1, <3>3, EnqueueInv, Zenon
    <3>5. ShiftKept'
      <4>1. Len(waiting) \in Nat
        BY DEF RingInv
      <4>2. \A n \in 1 .. Len(waiting') : n \in 1 .. Len(waiting) \/ n = Len(waiting) + 1
        BY <3>4, <4>1
      <4>3. QED
        BY <3>1, <3>3, <3>4, <4>2 DEF ShiftKept
    <3>6. QED
      BY <1>3, <3>2, <3>4, <3>5
  <2>3. QED
    BY <2>1, <2>2
<1>8. QED
  BY <1>4, <1>5, <1>6, <1>7 DEF KeyboardIrq

(* Every step of ck_keyboard_read_char keeps the types. *)
LEMMA ReaderTypes ==
    ASSUME TypeOK, ck_keyboard_read_char
    PROVE  TypeOK'
<1> USE DEF driver, ring, repeatState, Goto, Return
<1>1. BufferSize \in Nat \ {0} /\ Word \in Nat \ {0}
  BY KeyboardAssumption
<1>2. CASE ReadCheck \/ ReadLoad
  BY <1>1, <1>2 DEF ReadCheck, ReadLoad, NextSlot, TypeOK
<1>3. CASE ReadAdvance
  BY <1>1, <1>3 DEF ReadAdvance, TypeOK
<1>4. CASE CheckHeld \/ ReadClock
  BY <1>1, <1>4 DEF CheckHeld, ReadClock, TypeOK
<1>5. CASE CheckElapsed \/ CheckInterval
  BY <1>1, <1>5 DEF CheckElapsed, CheckInterval, TypeOK
<1>6. CASE StampRepeat
  BY <1>1, <1>6 DEF StampRepeat, TypeOK
<1>7. CASE LoadHeld
  BY <1>1, <1>7 DEF LoadHeld, TypeOK
<1>8. CASE Convert
  BY <1>1, <1>8 DEF Convert, TypeOK
<1>9. QED
  BY <1>2, <1>3, <1>4, <1>5, <1>6, <1>7, <1>8 DEF ck_keyboard_read_char

(* A press just converted is on show between calls only; so the steps inside
   a call, and the end of a call that took no press, have none to report. *)
BetweenCalls == pc # "idle" => typed = NoPress

(* Every step of ck_keyboard_read_char keeps the ring and what it delivers. *)
LEMMA ReaderRing ==
    ASSUME KeyInv, BetweenCalls, ck_keyboard_read_char
    PROVE  RingInv' /\ ShiftKept' /\ DeliveredAsTyped' /\ BetweenCalls'
<1> USE DEF KeyInv, driver, ring, repeatState, history, Goto, Return, Busy
<1>1. CASE Convert /\ pc = "convert"
  <2>1. RingInv' /\ ShiftKept' /\ DeliveredAsTyped'
    BY <1>1, ConvertInv
  <2>2. BetweenCalls'
    BY <1>1 DEF Convert, BetweenCalls
  <2>3. QED
    BY <2>1, <2>2
<1>2. ASSUME ~ (Convert /\ pc = "convert")
      PROVE  typed' = NoPress /\ UNCHANGED <<waiting, shift_pressed>>
  BY <1>2 DEF ck_keyboard_read_char, ReadCheck, ReadLoad, ReadAdvance, CheckHeld, ReadClock,
              CheckElapsed, CheckInterval, StampRepeat, LoadHeld, Convert, BetweenCalls
<1>3. ASSUME ~ (Convert /\ pc = "convert")
      PROVE  ShiftKept' /\ DeliveredAsTyped' /\ BetweenCalls'
  <2>1. typed' = NoPress /\ UNCHANGED <<waiting, shift_pressed>>
    BY <1>2, <1>3
  <2>2. NoPress.key = NoKey
    BY DEF NoPress
  <2>3. QED
    BY <2>1, <2>2 DEF ShiftKept, DeliveredAsTyped, BetweenCalls
<1>4. CASE ReadCheck \/ ReadLoad
  <2>1. ~ (Convert /\ pc = "convert")
    BY <1>4 DEF ReadCheck, ReadLoad
  <2>2. QED
    BY <1>3, <1>4, <2>1, CheckAndLoadInv
<1>5. CASE ReadAdvance
  <2>1. ~ (Convert /\ pc = "convert")
    BY <1>5 DEF ReadAdvance
  <2>2. QED
    BY <1>3, <1>5, <2>1, AdvanceInv
<1>6. ASSUME \/ CheckHeld \/ ReadClock \/ CheckElapsed \/ CheckInterval
             \/ StampRepeat \/ LoadHeld \/ (Convert /\ pc # "convert")
      PROVE  RingInv' /\ ShiftKept' /\ DeliveredAsTyped' /\ BetweenCalls'
  <2>1. /\ UNCHANGED <<buffer, head, tail, waiting>>
        /\ pc \notin Busy /\ pc' \notin Busy
    BY <1>6 DEF CheckHeld, ReadClock, CheckElapsed, CheckInterval, StampRepeat, LoadHeld, Convert
  <2>2. pc # "convert"
    BY <2>1
  <2>3. QED
    BY <1>3, <2>1, <2>2, SameRingInv
<1>7. QED
  BY <1>1, <1>4, <1>5, <1>6 DEF ck_keyboard_read_char

LEMMA KeyInitInv == Init => KeyInv /\ BetweenCalls
<1> SUFFICES ASSUME Init PROVE KeyInv /\ BetweenCalls
  OBVIOUS
<1> USE DEF Init
<1>1. BufferSize \in Nat \ {0} /\ Word \in Nat \ {0}
  BY KeyboardAssumption
<1>2. TypeOK
  <2>1. buffer \in [0 .. BufferSize - 1 -> Keys \cup {NoKey}]
    OBVIOUS
  <2>2. 0 \in 0 .. BufferSize - 1 /\ 0 \in 0 .. Word - 1
    BY <1>1
  <2>3. QED
    BY <2>1, <2>2, Zenon DEF TypeOK
<1>3. Count = 0 /\ InHand = 0
  BY <1>1, Around DEF Count, InHand
<1>4. RingInv /\ ShiftKept
  BY <1>3 DEF RingInv, RingHoldsRest, ReaderKnows, ShiftKept
<1>5. DeliveredAsTyped /\ BetweenCalls
  BY DEF DeliveredAsTyped, BetweenCalls, NoPress
<1>6. QED
  BY <1>2, <1>4, <1>5 DEF KeyInv

-----------------------------------------------------------------------------

(* The inductive invariant about held keys.  Until the initial delay is over
   the clock shows the age of the last press; a reading of the clock that no
   press of a later tick has overtaken shows no more than that, and a press
   of the same tick is found out by the second comparison. *)
HeldInv ==
    /\ last \in Keys \cup {NoKey}
    /\ raced \in BOOLEAN
    /\ age \in 0 .. InitialDelay
    /\ HeldKeyExact
    /\ age < InitialDelay => (timer_ticks - held_key_time) % Word = age
    /\ pc = "elapsed" => raced \/ age = InitialDelay \/ (now - held_key_time) % Word <= age
    /\ pc = "since" => raced \/ age = InitialDelay \/ (now - last_repeat_time) % Word = 0
    /\ pc \in {"stamp", "repeat"} => raced \/ age = InitialDelay
    /\ RepeatAfterDelayUnlessRaced

(* The inductive invariant about the shift flag. *)
ShiftInv ==
    /\ ShiftFollowsKeys
    /\ ~ overlap => \A s, t \in Shifts \cap down : s = t

(* One tick later the counter, wrapped or not, shows one tick more. *)
LEMMA TickShown ==
    ASSUME NEW t \in 0 .. Word - 1, NEW h \in 0 .. Word - 1, NEW a \in 0 .. Word - 2,
           (t - h) % Word = a
    PROVE  (((t + 1) % Word) - h) % Word = a + 1
<1>1. Word \in Nat \ {0}
  BY KeyboardAssumption
<1>2. \A x \in Int : /\ 0 <= x /\ x < Word => x % Word = x
                     /\ x < 0 /\ -Word <= x => x % Word = x + Word
  BY <1>1
<1>3. (t + 1) % Word = IF t + 1 < Word THEN t + 1 ELSE 0
  BY <1>1
<1>4. a = IF t >= h THEN t - h ELSE t - h + Word
  BY <1>1, <1>2
<1>5. CASE t + 1 < Word
  BY <1>1, <1>2, <1>3, <1>4, <1>5
<1>6. CASE t + 1 = Word
  <2>1. ((t + 1) % Word) - h = -h /\ a = Word - 1 - h
    BY <1>1, <1>3, <1>4, <1>6
  <2>2. h # 0
    BY <1>1, <2>1
  <2>3. QED
    BY <1>1, <1>2, <2>1, <2>2
<1>7. QED
  BY <1>1, <1>5, <1>6

LEMMA HeldInitInv == Init => HeldInv
<1>1. InitialDelay \in Nat \ {0} /\ Word \in Nat \ {0} /\ 0 % Word = 0
  BY KeyboardAssumption
<1> SUFFICES ASSUME Init PROVE HeldInv
  OBVIOUS
<1>2. HeldKeyExact
  BY DEF Init, HeldKeyExact
<1>3. age \in 0 .. InitialDelay /\ (timer_ticks - held_key_time) % Word = age
  BY <1>1 DEF Init
<1>4. last \in Keys \cup {NoKey} /\ raced \in BOOLEAN /\ pc = "idle"
  BY Zenon DEF Init
<1>5. QED
  BY <1>2, <1>3, <1>4, Zenon DEF HeldInv, RepeatAfterDelayUnlessRaced

(* The timer: the age and the clock advance together. *)
LEMMA TimerHeldInv ==
    ASSUME TypeOK, HeldInv, TimerIrq
    PROVE  HeldInv'
<1> USE DEF HeldInv
<1>1. /\ InitialDelay \in Nat \ {0} /\ Word \in Nat \ {0} /\ InitialDelay < Word
      /\ timer_ticks \in 0 .. Word - 1 /\ held_key_time \in 0 .. Word - 1
      /\ now \in 0 .. Word - 1
  BY KeyboardAssumption DEF TypeOK
<1>2. /\ timer_ticks' = (timer_ticks + 1) % Word
      /\ age' = IF age < InitialDelay THEN age + 1 ELSE age
      /\ UNCHANGED <<shift_pressed, held_key, held_key_time, last_repeat_time, pc, now, down,
                     last, raced, repeated>>
  BY DEF TimerIrq, repeatState, reader, thisCall
<1>3. HeldKeyExact' /\ RepeatAfterDelayUnlessRaced'
  BY <1>2 DEF HeldKeyExact, RepeatAfterDelayUnlessRaced
<1>4. age' \in 0 .. InitialDelay /\ age' >= age
  BY <1>1, <1>2
<1>5. age' < InitialDelay => (timer_ticks' - held_key_time') % Word = age'
  <2>1. SUFFICES ASSUME age' < InitialDelay
                 PROVE  (timer_ticks' - held_key_time') % Word = age'
    OBVIOUS
  <2>2. age < InitialDelay /\ age' = age + 1 /\ age \in 0 .. Word - 2
    BY <1>1, <1>2, <2>1
  <2>3. QED
    BY <1>1, <1>2, <2>2, TickShown
<1>6. (now - held_key_time) % Word \in Int
  BY <1>1
<1>7. pc' = "elapsed" => raced' \/ age' = InitialDelay \/ (now' - held_key_time') % Word <= age'
  BY <1>1, <1>2, <1>4, <1>6
<1>8. /\ pc' = "since" => raced' \/ age' = InitialDelay \/ (now' - last_repeat_time') % Word = 0
      /\ pc' \in {"stamp", "repeat"} => raced' \/ age' = InitialDelay
  BY <1>1, <1>2
<1>9. QED
  BY <1>2, <1>3, <1>4, <1>5, <1>7, <1>8

(* A press restarts the delay; whether read_char can mistake it for one held
   long enough depends on where read_char is. *)
LEMMA PressHeldInv ==
    ASSUME TypeOK, HeldInv, NEW k \in Keys, KeyMake(k)
    PROVE  HeldInv'
<1> USE DEF HeldInv
<1>1. /\ InitialDelay \in Nat \ {0} /\ Word \in Nat \ {0} /\ 0 % Word = 0
      /\ timer_ticks \in 0 .. Word - 1
  BY KeyboardAssumption DEF TypeOK
<1>2. HeldKeyExact'
  BY DEF KeyMake, HeldKeyExact
<1>3. /\ last' = k /\ age' = 0 /\ raced' = (raced \/ Races)
      /\ held_key_time' = timer_ticks /\ last_repeat_time' = timer_ticks
      /\ UNCHANGED <<timer_ticks, pc, now, repeated>>
  BY DEF KeyMake, PressTime, reader
<1>4. raced' \in BOOLEAN /\ (raced => raced') /\ (Races => raced')
  BY <1>3, Zenon
<1>5. age' \in 0 .. InitialDelay /\ (timer_ticks' - held_key_time') % Word = age'
  BY <1>1, <1>3
<1>6. /\ pc' \in {"stamp", "repeat"} => Races
      /\ pc' \in {"elapsed", "since"} => Races \/ now' = timer_ticks
  BY <1>3 DEF Races
<1>7. /\ now' = timer_ticks => (now' - held_key_time') % Word <= age'
      /\ now' = timer_ticks => (now' - last_repeat_time') % Word = 0
  BY <1>1, <1>3
<1>8. RepeatAfterDelayUnlessRaced'
  BY <1>3, <1>4, Zenon DEF RepeatAfterDelayUnlessRaced
<1>9. /\ pc' = "elapsed" => raced' \/ (now' - held_key_time') % Word <= age'
      /\ pc' = "since" => raced' \/ (now' - last_repeat_time') % Word = 0
      /\ pc' \in {"stamp", "repeat"} => raced'
  BY <1>4, <1>6, <1>7, Zenon
<1>10. QED
  BY <1>2, <1>3, <1>4, <1>5, <1>8, <1>9, Zenon

(* The keyboard: whichever keys go up or down. *)
LEMMA KeysHeldInv ==
    ASSUME TypeOK, HeldInv, KeyboardIrq
    PROVE  HeldInv'
<1> USE DEF HeldInv, repeatState, reader, thisCall, history, RepeatAfterDelayUnlessRaced
<1>1. NoKey \notin Keys /\ NoKey \notin Shifts /\ Shifts \cap Keys = {}
  BY KeyboardAssumption DEF NoKey
<1>2. ASSUME NEW s \in Shifts, ShiftMake(s) \/ ShiftBreak(s) PROVE HeldInv'
  <2>1. last # s
    BY <1>1
  <2>2. HeldKeyExact'
    BY <1>2, <2>1 DEF ShiftMake, ShiftBreak, HeldKeyExact
  <2>3. UNCHANGED <<timer_ticks, held_key_time, last_repeat_time, pc, now, last, age, raced, repeated>>
    BY <1>2 DEF ShiftMake, ShiftBreak
  <2>4. QED
    BY <2>2, <2>3
<1>3. ASSUME NEW k \in Keys, KeyBreak(k) PROVE HeldInv'
  <2>1. HeldKeyExact'
    BY <1>1, <1>3 DEF KeyBreak, HeldAfterBreak, HeldKeyExact
  <2>2. UNCHANGED <<timer_ticks, held_key_time, last_repeat_time, pc, now, last, age, raced, repeated>>
    BY <1>3 DEF KeyBreak
  <2>3. QED
    BY <2>1, <2>2
<1>4. QED
  BY <1>2, <1>3, PressHeldInv DEF KeyboardIrq

(* The reader: it goes on from its tests only if the delay was over. *)
LEMMA ReaderHeldInv ==
    ASSUME TypeOK, HeldInv, ck_keyboard_read_char
    PROVE  HeldInv'
<1> USE DEF HeldInv, driver, repeatState, thisCall, history, Goto, Return
<1>1. /\ InitialDelay \in Nat \ {0} /\ Word \in Nat \ {0} /\ Interval \in Nat \ {0}
      /\ timer_ticks \in 0 .. Word - 1 /\ held_key_time \in 0 .. Word - 1
      /\ now \in 0 .. Word - 1
  BY KeyboardAssumption DEF TypeOK
<1>2. UNCHANGED <<shift_pressed, held_key, held_key_time, timer_ticks, down, last, age>>
  BY DEF ck_keyboard_read_char, ReadCheck, ReadLoad, ReadAdvance, CheckHeld, ReadClock,
         CheckElapsed, CheckInterval, StampRepeat, LoadHeld, Convert
<1>3. HeldKeyExact'
  BY <1>2 DEF HeldKeyExact
<1>4. (timer_ticks - held_key_time) % Word \in Int /\ (now - held_key_time) % Word \in Int
  BY <1>1
<1>5. raced' \in BOOLEAN /\ (pc' # "idle" => UNCHANGED raced)
  <2>1. UNCHANGED raced \/ (raced' = FALSE /\ pc' = "idle")
    BY Zenon DEF ck_keyboard_read_char, ReadCheck, ReadLoad, ReadAdvance, CheckHeld, ReadClock,
           CheckElapsed, CheckInterval, StampRepeat, LoadHeld, Convert
  <2>2. QED
    BY <2>1, Zenon
<1>6. CASE ReadClock
  <2>1. pc' = "elapsed" /\ now' = timer_ticks
    BY <1>6 DEF ReadClock
  <2>2. age = InitialDelay \/ (timer_ticks - held_key_time) % Word <= age
    BY <1>1
  <2>3. (now' - held_key_time') % Word = (timer_ticks - held_key_time) % Word
    BY <1>2, <2>1
  <2>4. pc' \notin {"since", "stamp", "repeat", "convertRepeat"}
    BY <2>1
  <2>5. QED
    BY <1>2, <1>3, <1>5, <2>2, <2>3, <2>4, Zenon DEF RepeatAfterDelayUnlessRaced
<1>7. CASE CheckElapsed
  <2>1. pc = "elapsed" /\ (pc' = "idle" \/ (pc' = "since" /\ DelayOver))
    BY <1>7, Zenon DEF CheckElapsed
  <2>2. DelayOver => (now - held_key_time) % Word >= InitialDelay
    BY DEF DelayOver
  <2>3. pc' = "since" => raced \/ age = InitialDelay
    BY <1>1, <1>4, <2>1, <2>2
  <2>4. QED
    BY <1>2, <1>3, <1>5, <2>1, <2>3 DEF RepeatAfterDelayUnlessRaced
<1>8. CASE CheckInterval
  <2>1. pc = "since" /\ (pc' = "idle" \/ (pc' = "stamp" /\ IntervalOver))
    BY <1>8, Zenon DEF CheckInterval
  <2>2. IntervalOver => (now - last_repeat_time) % Word # 0
    BY <1>1 DEF IntervalOver
  <2>3. pc' = "stamp" => raced \/ age = InitialDelay
    BY <2>1, <2>2
  <2>4. QED
    BY <1>2, <1>3, <1>5, <2>1, <2>3 DEF RepeatAfterDelayUnlessRaced
<1>9. CASE StampRepeat
  <2>1. pc = "stamp" /\ pc' = "repeat"
    BY <1>9 DEF StampRepeat
  <2>2. QED
    BY <1>2, <1>3, <1>5, <2>1 DEF RepeatAfterDelayUnlessRaced
<1>10. CASE LoadHeld
  <2>1. pc = "repeat" /\ (pc' = "idle" \/ (pc' = "convertRepeat" /\ repeated' = age))
    BY <1>10, Zenon DEF LoadHeld
  <2>2. QED
    BY <1>2, <1>3, <1>5, <2>1 DEF RepeatAfterDelayUnlessRaced
<1>11. ASSUME ~ ReadClock, ~ CheckElapsed, ~ CheckInterval, ~ StampRepeat, ~ LoadHeld
       PROVE  HeldInv'
  <2>1. pc' \notin {"elapsed", "since", "stamp", "repeat", "convertRepeat"}
    BY <1>11 DEF ck_keyboard_read_char, ReadCheck, ReadLoad, ReadAdvance, CheckHeld, Convert
  <2>2. QED
    BY <1>2, <1>3, <1>5, <2>1 DEF RepeatAfterDelayUnlessRaced
<1>12. QED
  BY <1>6, <1>7, <1>8, <1>9, <1>10, <1>11

(* The shift flag: while no two shift keys have been down together the key
   released is the only one down. *)
LEMMA ShiftStep ==
    ASSUME TypeOK, ShiftInv, [Next]_vars
    PROVE  ShiftInv'
<1> USE DEF ShiftInv, ShiftFollowsKeys
<1>1. ASSUME NEW s \in Shifts, ShiftMake(s) PROVE ShiftInv'
  <2>1. /\ down' = down \cup {s} /\ shift_pressed' = TRUE
        /\ overlap' = (overlap \/ OtherShift(s))
    BY <1>1 DEF ShiftMake
  <2>2. ~ overlap' => Shifts \cap down \subseteq {s}
    BY <2>1 DEF OtherShift
  <2>3. QED
    BY <2>1, <2>2
<1>2. ASSUME NEW s \in Shifts, ShiftBreak(s) PROVE ShiftInv'
  <2>1. /\ s \in down /\ down' = down \ {s} /\ shift_pressed' = FALSE
        /\ overlap' = (overlap /\ OtherShift(s))
    BY <1>2 DEF ShiftBreak, AfterRelease
  <2>2. ~ overlap' => Shifts \cap down' = {}
    <3>1. CASE OtherShift(s)
      BY <2>1, <3>1 DEF OtherShift
    <3>2. CASE ~ OtherShift(s)
      BY <2>1, <3>2 DEF OtherShift
    <3>3. QED
      BY <3>1, <3>2
  <2>3. QED
    BY <2>1, <2>2
<1>3. ASSUME NEW k \in Keys, KeyMake(k) \/ KeyBreak(k) PROVE ShiftInv'
  <2>1. Shifts \cap down' = Shifts \cap down /\ UNCHANGED <<shift_pressed, overlap>>
    BY <1>3, KeyboardAssumption DEF KeyMake, KeyBreak, history
  <2>2. QED
    BY <2>1
<1>4. CASE TimerIrq \/ ck_keyboard_read_char \/ UNCHANGED vars
  <2>1. UNCHANGED <<shift_pressed, down, overlap>>
    BY <1>4 DEF TimerIrq, ck_keyboard_read_char, ReadCheck, ReadLoad, ReadAdvance, CheckHeld,
         ReadClock, CheckElapsed, CheckInterval, StampRepeat, LoadHeld, Convert, driver,
         history, vars
  <2>2. QED
    BY <2>1
<1>5. QED
  BY <1>1, <1>2, <1>3, <1>4 DEF Next, KeyboardIrq

-----------------------------------------------------------------------------

KeyboardInv == KeyInv /\ BetweenCalls /\ HeldInv /\ ShiftInv

LEMMA KeyboardStep ==
    ASSUME KeyboardInv, [Next]_vars
    PROVE  KeyboardInv'
<1> USE DEF KeyboardInv
<1>0. ShiftInv'
  BY ShiftStep DEF KeyInv
<1>1. CASE TimerIrq \/ KeyboardIrq
  <2>1. BetweenCalls'
    BY <1>1 DEF BetweenCalls, TimerIrq, KeyboardIrq, ShiftMake, ShiftBreak, KeyMake, KeyBreak,
                reader, history
  <2>2. HeldInv'
    BY <1>1, TimerHeldInv, KeysHeldInv DEF KeyInv
  <2>3. QED
    BY <1>0, <1>1, <2>1, <2>2, IrqInv
<1>2. CASE ck_keyboard_read_char
  BY <1>0, <1>2, ReaderTypes, ReaderRing, ReaderHeldInv DEF KeyInv
<1>3. CASE UNCHANGED vars
  <2> USE <1>3 DEF KeyInv, vars, ring, repeatState, reader, thisCall, history
  <2>1. TypeOK' /\ BetweenCalls'
    BY DEF TypeOK, BetweenCalls
  <2>2. RingInv'
    BY SameRingInv
  <2>3. ShiftKept' /\ DeliveredAsTyped'
    BY DEF ShiftKept, DeliveredAsTyped, ck_scancode_to_ascii, scancode_table
  <2>4. HeldInv'
    BY DEF HeldInv, HeldKeyExact, RepeatAfterDelayUnlessRaced
  <2>5. QED
    BY <1>0, <2>1, <2>2, <2>3, <2>4
<1>4. QED
  BY <1>1, <1>2, <1>3 DEF Next

(* The inductive invariant holds throughout. *)
LEMMA KeyboardInit == Init => KeyboardInv
<1>1. Init => ShiftInv
  BY DEF Init, ShiftInv, ShiftFollowsKeys
<1>2. QED
  BY <1>1, KeyInitInv, HeldInitInv DEF KeyboardInv

LEMMA KeyboardAlways == Spec => []KeyboardInv
<1> QED
  BY KeyboardInit, KeyboardStep, PTL DEF Spec

(* For every size of the buffer and any number of presses: the handler never
   overwrites a scancode that read_key has still to read, and the buffer holds
   the accepted presses not yet taken, in order (ck_keyboard_irq_handler,
   ck_keyboard_read_key). *)
THEOREM KeyboardCorrect == Spec => [](TypeOK /\ RingHoldsRest)
<1>1. KeyboardInv => TypeOK /\ RingHoldsRest
  BY DEF KeyboardInv, KeyInv, RingInv
<1> QED
  BY <1>1, KeyboardAlways, PTL

(* For every size of the buffer and any number of presses: each accepted
   press is converted once, in order, and in the case it was typed in unless a
   shift key moved meanwhile (ck_keyboard_read_char). *)
THEOREM PressesDelivered == Spec => []DeliveredAsTyped
<1>1. KeyboardInv => DeliveredAsTyped
  BY DEF KeyboardInv, KeyInv, RingInv
<1> QED
  BY <1>1, KeyboardAlways, PTL

(* The key read_char would repeat is the last one pressed, while it is down,
   in every order of presses and releases (ck_keyboard_irq_handler). *)
THEOREM HeldKeyFollowed == Spec => []HeldKeyExact
<1>1. KeyboardInv => HeldKeyExact
  BY DEF KeyboardInv, HeldInv
<1> QED
  BY <1>1, KeyboardAlways, PTL

(* In every order of presses and releases of the shift keys: the flag is off
   when none is down, and off while one is down only if two have been down
   together (ck_keyboard_irq_handler). *)
THEOREM ShiftFollowed == Spec => []ShiftFollowsKeys
<1>1. KeyboardInv => ShiftFollowsKeys
  BY DEF KeyboardInv, ShiftInv
<1> QED
  BY <1>1, KeyboardAlways, PTL

(* For every initial delay, interval and wrap of the tick counter: the key
   that read_char loads to repeat it was down for the initial delay, unless a
   press came after a tick that followed the reading of the clock and before
   the comparisons, or between the comparisons and the second reading of the
   held key (ck_keyboard_read_char). *)
THEOREM KeyRepeatCorrect == Spec => []RepeatAfterDelayUnlessRaced
<1>1. KeyboardInv => RepeatAfterDelayUnlessRaced
  BY DEF KeyboardInv, HeldInv, RepeatAfterDelayUnlessRaced
<1> QED
  BY <1>1, KeyboardAlways, PTL

-----------------------------------------------------------------------------

(* The buffer and read_key as the abstract queue sees them. *)
Contents == [n \in 1 .. Count |-> buffer[(tail + n - 1) % BufferSize]]
Got == IF pc = "convert" THEN scancode ELSE NoKey

LEMMA SameSequence ==
    ASSUME NEW S, NEW s \in Seq(S), NEW t \in Seq(S), Len(s) = Len(t),
           \A n \in 1 .. Len(s) : s[n] = t[n]
    PROVE  s = t
OBVIOUS

LEMMA TakeFirst ==
    ASSUME NEW S, NEW s \in Seq(S), NEW t \in Seq(S), Len(s) = Len(t) + 1,
           \A n \in 1 .. Len(t) : t[n] = s[n + 1]
    PROVE  s # << >> /\ Head(s) = s[1] /\ t = Tail(s)
<1>1. Len(t) \in Nat /\ Len(s) # 0
  OBVIOUS
<1>2. s # << >> /\ Head(s) = s[1]
  BY <1>1
<1>3. Tail(s) \in Seq(S) /\ Len(Tail(s)) = Len(t)
  BY <1>1, <1>2
<1>4. \A n \in 1 .. Len(t) : Tail(s)[n] = s[n + 1]
  BY <1>1, <1>2
<1>5. QED
  BY <1>2, <1>3, <1>4, SameSequence

ContentsWait ==
    /\ Contents \in Seq(Keys) /\ Len(Contents) = Count /\ Count \in Nat
    /\ \A n \in 1 .. Count : Contents[n] = waiting[InHand + n].key

LEMMA ContentsType == TypeOK /\ RingInv => ContentsWait
<1> SUFFICES ASSUME TypeOK, RingInv PROVE ContentsWait
  OBVIOUS
<1>1. Count \in Nat /\ InHand \in 0 .. 1
  BY RingTypes, CountToHead DEF Slots, InHand
<1>2. waiting \in Seq(Press) /\ Len(waiting) = InHand + Count
  BY DEF RingInv, RingHoldsRest
<1>3. ASSUME NEW n \in 1 .. Count
      PROVE  buffer[(tail + n - 1) % BufferSize] = waiting[InHand + n].key
  <2>1. n - 1 \in 0 .. Count - 1 /\ InHand + (n - 1) + 1 = InHand + n
    BY <1>1
  <2>2. tail + (n - 1) = tail + n - 1
    BY <1>1, RingTypes DEF Slots
  <2>3. buffer[(tail + (n - 1)) % BufferSize] = waiting[InHand + (n - 1) + 1].key
    BY <2>1 DEF RingInv, RingHoldsRest
  <2>4. QED
    BY <2>1, <2>2, <2>3
<1>4. ASSUME NEW n \in 1 .. Count PROVE waiting[InHand + n].key \in Keys
  <2>1. waiting[InHand + n] \in Press
    BY <1>1, <1>2
  <2>2. QED
    BY <2>1 DEF Press
<1>5. Contents \in [1 .. Count -> Keys]
  BY <1>3, <1>4 DEF Contents
<1>6. \A n \in 1 .. Count : Contents[n] = waiting[InHand + n].key
  BY <1>3 DEF Contents
<1>7. QED
  BY <1>1, <1>5, <1>6 DEF ContentsWait

LEMMA ContentsTypeNext == TypeOK' /\ RingInv' => ContentsWait'
BY ContentsType, PTL

(* A press accepted goes to the end of the queue. *)
LEMMA EnqueueAppends ==
    ASSUME TypeOK, RingInv, TypeOK', RingInv', NEW k \in Keys, NEW p \in Press, p.key = k,
           Count' = Count + 1, InHand' = InHand, Len(waiting') = Len(waiting) + 1,
           waiting'[Len(waiting) + 1] = p,
           \A n \in 1 .. Len(waiting) : waiting'[n] = waiting[n]
    PROVE  Contents' = Append(Contents, k)
<1>1. /\ Contents \in Seq(Keys) /\ Len(Contents) = Count /\ Count \in Nat
      /\ \A n \in 1 .. Count : Contents[n] = waiting[InHand + n].key
  BY ContentsType, Zenon DEF ContentsWait
<1>2. /\ Contents' \in Seq(Keys) /\ Len(Contents') = Count'
      /\ \A n \in 1 .. Count' : Contents'[n] = waiting'[InHand' + n].key
  BY ContentsTypeNext, Zenon DEF ContentsWait
<1>3. Len(waiting) = InHand + Count /\ InHand \in 0 .. 1
  BY DEF RingInv, RingHoldsRest, InHand
<1>4. ASSUME NEW n \in 1 .. Count + 1 PROVE Contents'[n] = Append(Contents, k)[n]
  <2>1. CASE n \in 1 .. Count
    <3>1. InHand + n \in 1 .. Len(waiting)
      BY <1>1, <1>3, <2>1
    <3>2. Contents'[n] = Contents[n]
      BY <1>1, <1>2, <2>1, <3>1
    <3>3. QED
      BY <1>1, <2>1, <3>2
  <2>2. CASE n = Count + 1
    <3>1. InHand' + n = Len(waiting) + 1
      BY <1>1, <1>3, <2>2
    <3>2. Contents'[n] = k
      BY <1>2, <3>1
    <3>3. QED
      BY <1>1, <2>2, <3>2
  <2>3. QED
    BY <1>1, <2>1, <2>2
<1>5. Append(Contents, k) \in Seq(Keys) /\ Len(Append(Contents, k)) = Count + 1
  BY <1>1
<1>6. QED
  BY <1>2, <1>4, <1>5, SameSequence

(* Moving the tail takes the first press out of the queue. *)
LEMMA AdvanceTakes ==
    ASSUME TypeOK, RingInv, ReadAdvance, TypeOK', RingInv'
    PROVE  /\ Contents # << >> /\ Got = NoKey
           /\ Got' = Head(Contents) /\ Contents' = Tail(Contents)
<1>1. /\ Contents \in Seq(Keys) /\ Len(Contents) = Count /\ Count \in Nat
      /\ \A n \in 1 .. Count : Contents[n] = waiting[InHand + n].key
  BY ContentsType, Zenon DEF ContentsWait
<1>2. /\ Contents' \in Seq(Keys) /\ Len(Contents') = Count' /\ Count' \in Nat
      /\ \A n \in 1 .. Count' : Contents'[n] = waiting'[InHand' + n].key
  BY ContentsTypeNext, Zenon DEF ContentsWait
<1>3. pc = "advance" /\ pc' = "convert" /\ UNCHANGED waiting
  BY DEF ReadAdvance, Goto, history
<1>4. /\ Len(waiting) = Count /\ Len(waiting') = 1 + Count' /\ InHand = 0 /\ InHand' = 1
      /\ scancode' = waiting[1].key
  BY <1>1, <1>2, <1>3 DEF RingInv, RingHoldsRest, InHand, ReaderKnows
<1>5. Count = Count' + 1 /\ Count' \in Nat
  BY <1>2, <1>3, <1>4
<1>6. 1 \in 1 .. Count
  <2>1. \A c \in Nat : 1 \in 1 .. c + 1
    OBVIOUS
  <2>2. QED
    BY <1>5, <2>1, Zenon
<1>7. Contents[1] = waiting[1].key
  <2>1. 1 \in 1 .. Count /\ InHand + 1 = 1
    <3>1. 0 + 1 = 1
      OBVIOUS
    <3>2. QED
      BY <1>4, <1>6, <3>1, Zenon
  <2>2. Contents[1] = waiting[InHand + 1].key
    BY <1>1, <2>1, Zenon
  <2>3. QED
    BY <2>1, <2>2
<1>8. ASSUME NEW n \in 1 .. Count' PROVE Contents'[n] = Contents[n + 1]
  <2>1. n + 1 \in 1 .. Count
    <3>1. \A c \in Nat : n \in 1 .. c => n + 1 \in 1 .. c + 1
      OBVIOUS
    <3>2. QED
      BY <1>5, <3>1, Zenon
  <2>2. InHand' + n = InHand + (n + 1)
    BY <1>4
  <2>3. Contents'[n] = waiting'[InHand' + n].key
    BY <1>2, Zenon
  <2>4. Contents[n + 1] = waiting[InHand + (n + 1)].key
    BY <1>1, <2>1, Zenon
  <2>5. QED
    BY <1>3, <2>2, <2>3, <2>4
<1>9. Len(Contents) = Len(Contents') + 1
  BY <1>1, <1>2, <1>5
<1>10. \A n \in 1 .. Len(Contents') : Contents'[n] = Contents[n + 1]
  BY <1>2, <1>8
<1>11. Contents # << >> /\ Head(Contents) = Contents[1] /\ Contents' = Tail(Contents)
  BY <1>1, <1>2, <1>9, <1>10, TakeFirst, Zenon
<1>12. QED
  BY <1>3, <1>4, <1>7, <1>11 DEF Got

(* Steps that leave the buffer alone and take nothing. *)
LEMMA SameContents ==
    ASSUME UNCHANGED <<buffer, head, tail>>
    PROVE  UNCHANGED Contents
BY DEF Contents, Count

(* Every step of the driver is a step of the bounded queue, or none. *)
LEMMA QueueStep ==
    ASSUME KeyboardInv, KeyboardInv', [Next]_vars
    PROVE  [Queue!QueueNext]_(Queue!queueVars)
<1> USE DEF KeyboardInv, KeyInv, ring, repeatState, reader, history, driver, Goto, Return
<1>1. SUFFICES \/ UNCHANGED <<Contents, Got, presses>>
               \/ \E k \in Keys : /\ Len(Contents) < BufferSize - 1
                                  /\ Contents' = Append(Contents, k)
                                  /\ presses' = presses + 1 /\ UNCHANGED Got
               \/ Len(Contents) = BufferSize - 1 /\ presses' = presses + 1
                    /\ UNCHANGED <<Contents, Got>>
               \/ Contents # << >> /\ Got = NoKey /\ Got' = Head(Contents)
                    /\ Contents' = Tail(Contents) /\ UNCHANGED presses
               \/ Got # NoKey /\ Got' = NoKey /\ UNCHANGED <<Contents, presses>>
  BY Zenon DEF Queue!QueueNext, Queue!queueVars, Queue!Accept, Queue!Drop, Queue!Take,
         Queue!Consume, Contents, Got
<1>2. CASE TimerIrq
  BY <1>2, SameContents DEF TimerIrq, Got
<1>3. ASSUME NEW s \in Shifts, ShiftMake(s) \/ ShiftBreak(s)
      PROVE  UNCHANGED <<Contents, Got, presses>>
  BY <1>3, SameContents DEF ShiftMake, ShiftBreak, Got
<1>4. ASSUME NEW k \in Keys, KeyBreak(k) PROVE UNCHANGED <<Contents, Got, presses>>
  BY <1>4, SameContents DEF KeyBreak, Got
<1>5. ContentsWait /\ head \in Slots /\ tail \in Slots /\ BufferSize \in Nat \ {0}
  BY ContentsType, RingTypes
<1>6. ASSUME NEW k \in Keys, KeyMake(k)
      PROVE  /\ presses' = presses + 1 /\ UNCHANGED Got
             /\ \/ Len(Contents) < BufferSize - 1 /\ Contents' = Append(Contents, k)
                \/ Len(Contents) = BufferSize - 1 /\ UNCHANGED Contents
  <2>1. presses' = presses + 1 /\ UNCHANGED Got
    BY <1>6 DEF KeyMake, Got
  <2>2. Full <=> Count = BufferSize - 1
    BY <1>5, FullCount
  <2>3. Len(Contents) = Count /\ Count \in 0 .. BufferSize - 1
    BY <1>5, CountToHead DEF ContentsWait, Slots
  <2>4. CASE Full
    <3>1. UNCHANGED <<buffer, head, tail>>
      BY <1>6, <2>4 DEF KeyMake, Enqueue
    <3>2. QED
      BY <2>1, <2>2, <2>3, <2>4, <3>1, SameContents
  <2>5. CASE ~ Full
    <3> DEFINE p == [key |-> k, shift |-> shift_pressed, late |-> FALSE]
    <3>1. /\ buffer' = [buffer EXCEPT ![head] = k] /\ head' = next_head
          /\ waiting' = Append(waiting, p) /\ UNCHANGED <<tail, pc, scancode>>
      BY <1>6, <2>5 DEF KeyMake, Enqueue
    <3>2. p \in Press /\ p.key = k
      BY DEF TypeOK, Press
    <3> HIDE DEF p
    <3>3. /\ Len(waiting') = Len(waiting) + 1 /\ waiting'[Len(waiting) + 1] = p
          /\ \A n \in 1 .. Len(waiting) : waiting'[n] = waiting[n]
      BY <2>5, <3>1, <3>2, EnqueueInv, Zenon
    <3>4. Count' = Count + 1
      <4>1. head' \in Slots /\ tail' \in Slots
        BY DEF TypeOK, Slots
      <4>2. QED
        BY <1>5, <2>5, <3>1, <4>1, CountSteps
    <3>5. InHand' = InHand
      BY <3>1 DEF InHand
    <3>6. Contents' = Append(Contents, k)
      BY <3>2, <3>3, <3>4, <3>5, EnqueueAppends, Zenon
    <3>7. Len(Contents) < BufferSize - 1
      BY <1>5, <2>2, <2>3, <2>5
    <3>8. QED
      BY <2>1, <3>6, <3>7
  <2>6. QED
    BY <2>4, <2>5
<1>7. CASE ReadAdvance
  <2>1. UNCHANGED presses
    BY <1>7 DEF ReadAdvance
  <2>2. QED
    BY <1>7, <2>1, AdvanceTakes, Zenon
<1>8. CASE Convert /\ pc = "convert"
  <2>1. Got' = NoKey /\ UNCHANGED <<Contents, presses>>
    BY <1>8, SameContents DEF Convert, Got
  <2>2. Got \in Keys
    <3>1. waiting \in Seq(Press) /\ scancode = waiting[1].key /\ Len(waiting) = 1 + Count
      BY <1>8 DEF RingInv, RingHoldsRest, ReaderKnows, InHand
    <3>2. waiting[1] \in Press
      BY <1>5, <3>1 DEF ContentsWait
    <3>3. QED
      BY <1>8, <3>1, <3>2 DEF Got, Press
  <2>3. NoKey \notin Keys
    BY KeyboardAssumption DEF NoKey
  <2>4. QED
    BY <2>1, <2>2, <2>3, Zenon
<1>9. ASSUME \/ ReadCheck \/ ReadLoad \/ CheckHeld \/ ReadClock \/ CheckElapsed
             \/ CheckInterval \/ StampRepeat \/ LoadHeld \/ (Convert /\ pc # "convert")
      PROVE  UNCHANGED <<Contents, Got, presses>>
  <2>1. UNCHANGED <<buffer, head, tail, presses>> /\ pc # "convert" /\ pc' # "convert"
    BY <1>9 DEF ReadCheck, ReadLoad, CheckHeld, ReadClock, CheckElapsed, CheckInterval,
                StampRepeat, LoadHeld, Convert
  <2>2. QED
    BY <2>1, SameContents DEF Got
<1>10. CASE UNCHANGED vars
  BY <1>10, SameContents DEF vars, Got
<1>11. QED
  BY <1>2, <1>3, <1>4, <1>6, <1>7, <1>8, <1>9, <1>10, Zenon
     DEF Next, KeyboardIrq, ck_keyboard_read_char

(* For every size of the buffer, the ring with its interrupt handler and its
   step-by-step reader is a bounded queue: nothing is lost but what arrives
   when it is full, nothing is taken twice or out of order. *)
THEOREM KeyboardImplements ==
    Spec => Queue!QueueInit /\ [][Queue!QueueNext]_(Queue!queueVars)
<1>1. Init => KeyboardInv
  BY KeyboardInit
<1>2. KeyboardInv /\ [Next]_vars => KeyboardInv'
  BY KeyboardStep
<1>3. Init => Queue!QueueInit
  <2> SUFFICES ASSUME Init PROVE Queue!QueueInit
    OBVIOUS
  <2>1. Count = 0
    <3>1. BufferSize \in Nat \ {0}
      BY KeyboardAssumption
    <3>2. QED
      BY <3>1, Around DEF Init, Count
  <2>2. Contents = << >>
    BY <2>1 DEF Contents
  <2>3. QED
    BY <2>2 DEF Init, Contents, Queue!QueueInit
<1>4. KeyboardInv /\ KeyboardInv' /\ [Next]_vars => [Queue!QueueNext]_(Queue!queueVars)
  BY QueueStep
<1>5. QED
  BY <1>1, <1>2, <1>3, <1>4, PTL DEF Spec
============================================================================
