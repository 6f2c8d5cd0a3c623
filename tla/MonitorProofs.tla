--------------------------- MODULE MonitorProofs ---------------------------
(***************************************************************************)
(* The monitor: the spacing of its frames for every frame time and every   *)
(* wrap of the tick counter, the shares it shows for any number of tasks   *)
(* and any amounts of work, and that a quit is not lost.                   *)
(***************************************************************************)
EXTENDS Monitor, SumProofs

(* While the frame time is not over, the wrapped difference of the clock is
   the true number of ticks since the last frame. *)
Timing ==
    /\ ticks \in 0 .. TickWord - 1
    /\ last_draw \in 0 .. TickWord - 1
    /\ since \in 0 .. FrameMs
    /\ since < FrameMs => (ticks - last_draw) % TickWord = since
    /\ pc = "shell" => since = FrameMs

LEMMA ClockFacts == TickWord \in Nat \ {0} /\ FrameMs \in Nat /\ FrameMs < TickWord
  BY MonitorAssumption

(* One tick later the wrapped difference is one more, or zero. *)
LEMMA DifferenceStep ==
  ASSUME NEW t \in 0 .. TickWord - 1, NEW d \in 0 .. TickWord - 1,
         ((t - d) % TickWord) + 1 < TickWord
  PROVE  (((t + 1) % TickWord) - d) % TickWord = ((t - d) % TickWord) + 1
<1> USE ClockFacts
<1>1. CASE t >= d
  <2>1. (t - d) % TickWord = t - d
    BY <1>1
  <2>2. CASE t + 1 < TickWord
    <3>1. (t + 1) % TickWord = t + 1
      BY <2>2
    <3>2. (t + 1 - d) % TickWord = t + 1 - d
      BY <1>1, <2>2
    <3> QED
      BY <2>1, <3>1, <3>2
  <2>3. CASE t + 1 = TickWord
    <3>1. (t + 1) % TickWord = 0
      BY <2>3
    <3>2. d > 0 /\ (0 - d) % TickWord = TickWord - d
      BY <2>1, <2>3
    <3> QED
      BY <2>1, <2>3, <3>1, <3>2
  <2> QED
    BY <2>2, <2>3
<1>2. CASE t < d
  <2>1. (t - d) % TickWord = t - d + TickWord
    BY <1>2
  <2>2. (t + 1) % TickWord = t + 1
    BY <1>2
  <2>3. (t + 1 - d) % TickWord = t + 1 - d + TickWord
    BY <1>2, <2>1
  <2> QED
    BY <2>1, <2>2, <2>3
<1> QED
  BY <1>1, <1>2

LEMMA TimingInit == MonInit => Timing
  BY ClockFacts DEF MonInit, Timing

LEMMA TimingStep == Timing /\ [MonNext]_monVars => Timing'
<1> SUFFICES ASSUME Timing, [MonNext]_monVars PROVE Timing'
  OBVIOUS
<1> USE ClockFacts
<1>1. CASE Tick
  <2>1. ticks' \in 0 .. TickWord - 1 /\ last_draw' = last_draw /\ since' \in 0 .. FrameMs
    BY <1>1 DEF Tick, Timing
  <2>2. ASSUME since' < FrameMs
        PROVE  (ticks' - last_draw') % TickWord = since'
    <3>1. CASE pc = "shell"
      BY <1>1, <2>2, <3>1 DEF Tick, Timing
    <3>2. CASE pc # "shell"
      <4>1. since' = since + 1 /\ since < FrameMs
        BY <1>1, <2>2, <3>2 DEF Tick, Timing
      <4>2. (ticks - last_draw) % TickWord = since
        BY <4>1 DEF Timing
      <4>3. (((ticks + 1) % TickWord) - last_draw) % TickWord = ((ticks - last_draw) % TickWord) + 1
        BY <4>1, <4>2, <2>2, DifferenceStep DEF Timing
      <4> QED
        BY <4>1, <4>2, <4>3, <1>1 DEF Tick
    <3> QED
      BY <3>1, <3>2
  <2>3. pc' = "shell" => since' = FrameMs
    BY <1>1 DEF Tick, Timing
  <2> QED
    BY <2>1, <2>2, <2>3, Zenon DEF Timing
<1>2. CASE Round
  <2>1. (ticks - ticks) % TickWord = 0
    BY DEF Timing
  <2> QED
    BY <1>2, <2>1 DEF Round, Timing
<1>3. CASE FreshLocals /\ UNCHANGED ticks
  BY <1>3 DEF FreshLocals, Timing
<1>4. CASE UNCHANGED clock /\ (pc' = "shell" => pc = "shell")
  BY <1>4 DEF clock, Timing
<1>5. CASE Throttled
  BY <1>5 DEF Throttled, Timing
<1> QED
  BY <1>1, <1>2, <1>3, <1>4, <1>5
  DEF MonNext, Loop, ShellRound, Start, DrainKey, DrainEnd, Quit, Draw, Key, monVars

(* Two frames of one use of the monitor are never closer than the frame
   time, whatever the tick counter's width and however it wraps
   (visualizer.c, the throttle of ck_visualizer_run_monitor). *)
THEOREM FramesSpaced == MonSpec => FramesApart
<1>1. Timing /\ [MonNext]_monVars => [Round => since >= FrameMs]_monVars
  <2> SUFFICES ASSUME Timing, Round PROVE since >= FrameMs
    OBVIOUS
  <2>1. ~ ((ticks - last_draw) % TickWord < FrameMs)
    BY DEF Round, TooEarly
  <2> QED
    BY <2>1, ClockFacts DEF Timing
<1> QED
  BY <1>1, TimingInit, TimingStep, PTL DEF MonSpec, FramesApart

-----------------------------------------------------------------------------

(* When each task has a row of its own, a row's counter and its value at the
   last frame differ by the work of its task since then, modulo the word. *)
WorkBalance ==
    RowsOwn => \A t \in Tasks : Balanced(counter[t], prev_counters[t], work[t], Word)

(* The inductive invariant behind the shares. *)
CountInv ==
    /\ Len(funcs) \in 0 .. Functions
    /\ funcs \in [1 .. Len(funcs) -> Ids]
    /\ counter \in [Ids -> Nat]
    /\ prev_counters \in [Ids -> Nat]
    /\ work \in [Tasks -> Nat]
    /\ WorkBalance

(* Every task and every row it counts in is a function's index. *)
LEMMA TaskFacts ==
    ASSUME CountInv
    PROVE  /\ Word \in Nat \ {0} /\ Functions \in Nat
           /\ Tasks \subseteq Ids /\ IsFiniteSet(Tasks) /\ IsFiniteSet(Ids)
           /\ \A t \in Tasks : Func(t) \in Ids
<1>1. Word \in Nat \ {0} /\ Functions \in Nat
  BY MonitorAssumption
<1>2. Len(funcs) \in Nat /\ Len(funcs) <= Functions
  BY <1>1 DEF CountInv
<1>3. Tasks \subseteq Ids
  BY <1>1, <1>2 DEF Tasks, Ids
<1>4. IsFiniteSet(Ids)
  BY <1>1, FS_Interval DEF Ids
<1>5. IsFiniteSet(Tasks)
  BY <1>3, <1>4, FS_Subset
<1>6. \A t \in Tasks : t + 1 \in 1 .. Len(funcs)
  BY <1>2 DEF Tasks
<1>7. \A t \in Tasks : Func(t) \in Ids
  BY <1>6 DEF CountInv, Func
<1> QED
  BY <1>1, <1>3, <1>4, <1>5, <1>7

(* No work yet. *)
LEMMA CountInit == MonInit => CountInv
<1> SUFFICES ASSUME MonInit PROVE CountInv
  OBVIOUS
<1>1. PICK n \in 0 .. Functions : funcs \in [1 .. n -> Ids]
  BY DEF MonInit
<1>2. n \in Nat /\ Functions \in Nat /\ Word \in Nat \ {0}
  BY MonitorAssumption
<1>3. funcs \in Seq(Ids) /\ Len(funcs) = n
  BY <1>1, <1>2
<1>4. Tasks \subseteq Ids
  BY <1>2, <1>3 DEF Tasks, Ids
<1>5. /\ counter \in [Ids -> Nat] /\ prev_counters \in [Ids -> Nat] /\ work \in [Tasks -> Nat]
      /\ \A t \in Tasks : counter[t] = 0 /\ prev_counters[t] = 0 /\ work[t] = 0
  BY <1>4 DEF MonInit
<1>6. Balanced(0, 0, 0, Word)
  BY <1>2 DEF Balanced
<1>7. WorkBalance
  BY <1>5, <1>6 DEF WorkBalance
<1> QED
  BY <1>1, <1>3, <1>5, <1>7 DEF CountInv

(* A round of the tasks: with a row for each task, a row's counter advances
   by the work of its task alone. *)
LEMMA RunTasksCounts ==
    ASSUME CountInv, RunTasks, UNCHANGED funcs
    PROVE  CountInv'
<1>1. /\ Word \in Nat \ {0} /\ Tasks \subseteq Ids /\ IsFiniteSet(Tasks)
      /\ Works \subseteq Nat
  BY TaskFacts, MonitorAssumption
<1>2. PICK w \in [Tasks -> Works] :
          /\ work' = [t \in Tasks |-> work[t] + w[t]]
          /\ counter' = [f \in Ids |->
                (counter[f] + SumFunctionOnSet(w, {t \in Tasks : Func(t) = f})) % Word]
  BY DEF RunTasks
<1>3. prev_counters' = prev_counters /\ Tasks' = Tasks /\ (RowsOwn' <=> RowsOwn)
  BY DEF RunTasks, Tasks, RowsOwn, Func
<1>4. \A t \in Tasks : w[t] \in Nat /\ work[t] \in Nat
  BY <1>1, <1>2 DEF CountInv
<1>5. ASSUME NEW f \in Ids PROVE counter'[f] \in Nat
  <2> DEFINE S == {t \in Tasks : Func(t) = f}
  <2>1. IsFiniteSet(S)
    BY <1>1, FS_Subset
  <2>2. SumFunctionOnSet(w, S) \in Nat
    BY <1>4, <2>1, SumNat
  <2>3. counter[f] \in Nat /\ counter'[f] = (counter[f] + SumFunctionOnSet(w, S)) % Word
    BY <1>2, <1>5 DEF CountInv
  <2> HIDE DEF S
  <2> QED
    BY <1>1, <2>2, <2>3
<1>6. counter' \in [Ids -> Nat] /\ work' \in [Tasks -> Nat]
  BY <1>2, <1>4, <1>5
<1>7. ASSUME RowsOwn, NEW t \in Tasks
      PROVE  Balanced(counter'[t], prev_counters[t], work'[t], Word)
  <2>1. {u \in Tasks : Func(u) = t} = {t}
    BY <1>7 DEF RowsOwn
  <2>2. SumFunctionOnSet(w, {t}) = w[t]
    BY <1>4, SumSingle
  <2>3. counter'[t] = (counter[t] + w[t]) % Word /\ work'[t] = work[t] + w[t]
    BY <1>1, <1>2, <2>1, <2>2
  <2>4. Balanced(counter[t], prev_counters[t], work[t], Word)
    BY <1>7 DEF CountInv, WorkBalance
  <2>5. counter[t] \in Int /\ prev_counters[t] \in Int /\ work[t] \in Int /\ w[t] \in Int
    BY <1>1, <1>4 DEF CountInv
  <2> QED
    BY <1>1, <2>3, <2>4, <2>5, BalanceUp
<1>8. WorkBalance'
  BY <1>3, <1>7 DEF WorkBalance
<1> QED
  BY <1>3, <1>6, <1>8 DEF CountInv, Ids

(* A frame starts the count of every row anew. *)
LEMMA DrawCounts ==
    ASSUME CountInv, Draw
    PROVE  CountInv'
<1>1. Word \in Nat \ {0} /\ Tasks \subseteq Ids
  BY TaskFacts
<1>2. /\ counter' = counter /\ funcs' = funcs /\ Tasks' = Tasks /\ Ids' = Ids
      /\ work' = [t \in Tasks |-> 0]
      /\ prev_counters' = [f \in Ids |-> IF f \in Tasks THEN counter[f] ELSE prev_counters[f]]
  BY DEF Draw, PrevAfterDraw, Tasks, Ids
<1>3. prev_counters' \in [Ids -> Nat] /\ work' \in [Tasks -> Nat]
  BY <1>2 DEF CountInv
<1>4. ASSUME NEW t \in Tasks PROVE Balanced(counter'[t], prev_counters'[t], work'[t], Word)
  <2>1. counter'[t] = prev_counters'[t] /\ work'[t] = 0 /\ counter'[t] \in Nat
    BY <1>1, <1>2 DEF CountInv
  <2> QED
    BY <1>1, <2>1 DEF Balanced
<1>5. WorkBalance'
  BY <1>2, <1>4 DEF WorkBalance
<1> QED
  BY <1>2, <1>3, <1>5 DEF CountInv

(* Only a round and a frame touch the counters. *)
LEMMA CountStep == CountInv /\ [MonNext]_monVars => CountInv'
<1> SUFFICES ASSUME CountInv, [MonNext]_monVars PROVE CountInv'
  OBVIOUS
<1>1. CASE UNCHANGED <<counts, funcs>>
  <2>1. Tasks' = Tasks /\ (RowsOwn' <=> RowsOwn)
    BY <1>1 DEF Tasks, RowsOwn, Func
  <2> QED
    BY <1>1, <2>1 DEF counts, CountInv, WorkBalance, Ids
<1>2. CASE RunTasks /\ UNCHANGED funcs
  BY <1>2, RunTasksCounts
<1>3. CASE Draw
  BY <1>3, DrawCounts
<1> QED
  BY <1>1, <1>2, <1>3
  DEF MonNext, Loop, ShellRound, Start, DrainKey, DrainEnd, Quit, Throttled, Round, Tick, Key, monVars

(* A part of a whole, in as many cells as the whole bar has, fits in it. *)
LEMMA PartFits ==
    ASSUME NEW x \in Nat, NEW y \in Nat \ {0}, NEW b \in Nat, x <= y
    PROVE  (x * b) \div y \in Nat /\ (x * b) \div y <= b
<1>1. x * b \in Nat /\ x * b <= y * b
  OBVIOUS
<1> DEFINE n == x * b
           q == n \div y
<1>2. q \in Nat /\ q * y <= n
  BY <1>1
<1>3. n <= b * y
  BY <1>1
<1> HIDE DEF n, q
<1>4. q > b => q * y >= b * y + y
  <2>1. q > b => q >= b + 1
    BY <1>2
  <2>2. q >= b + 1 => q * y >= (b + 1) * y
    BY <1>2
  <2>3. (b + 1) * y = b * y + y
    OBVIOUS
  <2> QED
    BY <2>1, <2>2, <2>3
<1>5. q <= b
  <2>1. b * y \in Nat /\ q * y \in Nat /\ n \in Nat
    BY <1>1, <1>2 DEF n
  <2> QED
    BY <1>2, <1>3, <1>4, <2>1
<1> QED
  BY <1>2, <1>5 DEF q, n

(* A product with a part is no larger than with the whole. *)
LEMMA PartTimes ==
    ASSUME NEW x \in Nat, NEW y \in Nat, NEW b \in Nat, NEW W \in Nat \ {0}, x <= y, y * b < W
    PROVE  x * b \in Nat /\ (x * b) % W = x * b
<1>1. x * b \in Nat /\ y * b \in Nat /\ x * b <= y * b
  OBVIOUS
<1> DEFINE n == x * b
           m == y * b
<1>2. n \in Nat /\ m \in Nat /\ n <= m /\ m < W
  BY <1>1
<1> HIDE DEF n, m
<1>3. n % W = n
  BY <1>2
<1> QED
  BY <1>2, <1>3 DEF n

(* The bar is cut at its width only when it would be longer. *)
LEMMA MinOfTwo ==
    ASSUME NEW x \in Int, NEW y \in Int, x <= y
    PROVE  Min({x, y}) = x
  BY DEF Min

(* A frame is exact as long as the work since the last one, times the width
   of what is shown, fits in a word. *)
LEMMA FrameExact == CountInv => SharesExact
<1> DEFINE total == SumFunctionOnSet(work, Tasks)
           whole == IF total = 0 THEN 1 ELSE total
<1> SUFFICES ASSUME CountInv, RowsOwn, total * Percent < Word, total * BarWidth < Word,
                    NEW t \in Tasks
             PROVE  /\ Share(t) = (work[t] * Percent) \div whole
                    /\ Filled(t) = (work[t] * BarWidth) \div whole
  BY DEF SharesExact
<1>1. /\ Word \in Nat \ {0} /\ Percent \in Nat \ {0} /\ BarWidth \in Nat \ {0}
      /\ IsFiniteSet(Tasks) /\ Tasks \subseteq Ids
  BY TaskFacts, MonitorAssumption
<1>2. \A u \in Tasks : work[u] \in Nat
  BY DEF CountInv
<1>3. total \in Nat /\ \A u \in Tasks : work[u] <= total
  BY <1>1, <1>2, SumNat, SumBounds
<1> HIDE DEF total
<1>4. total < Word
  <2>1. total <= total * Percent /\ total * Percent \in Nat
    BY <1>1, <1>3
  <2> QED
    BY <1>1, <1>3, <2>1
<1>5. ASSUME NEW u \in Tasks PROVE Delta(u) = work[u]
  <2>1. Balanced(counter[u], prev_counters[u], work[u], Word)
    BY <1>5 DEF CountInv, WorkBalance
  <2>2. work[u] % Word = work[u]
    BY <1>1, <1>2, <1>3, <1>4
  <2> QED
    BY <2>1, <2>2 DEF Balanced, Delta
<1>6. TotalDelta = whole
  <2> DEFINE d == [u \in Tasks |-> Delta(u)]
  <2>1. \A u \in Tasks : d[u] = work[u]
    BY <1>5
  <2> HIDE DEF d
  <2>2. SumFunctionOnSet(d, Tasks) = total
    BY <1>1, <2>1, SumSame DEF total
  <2>3. total % Word = total
    BY <1>1, <1>3, <1>4
  <2> QED
    BY <2>2, <2>3 DEF TotalDelta, d
<1>7. work[t] \in Nat /\ work[t] <= total /\ work[t] <= whole /\ whole \in Nat \ {0}
  BY <1>2, <1>3
<1>8. (work[t] * Percent) % Word = work[t] * Percent
  BY <1>1, <1>3, <1>7, PartTimes
<1>9. (work[t] * BarWidth) % Word = work[t] * BarWidth
  BY <1>1, <1>3, <1>7, PartTimes
<1> HIDE DEF whole
<1>10. Share(t) = (work[t] * Percent) \div whole
  BY <1>5, <1>6, <1>8 DEF Share
<1>11. Filled(t) = Min({(work[t] * BarWidth) \div whole, BarWidth})
  BY <1>5, <1>6, <1>9 DEF Filled
<1>12. (work[t] * BarWidth) \div whole \in Int /\ (work[t] * BarWidth) \div whole <= BarWidth
  BY <1>1, <1>7, PartFits
<1>13. Min({(work[t] * BarWidth) \div whole, BarWidth}) = (work[t] * BarWidth) \div whole
  BY <1>1, <1>12, MinOfTwo
<1> QED
  BY <1>10, <1>11, <1>13

(* A frame shows each task's exact share of the work since the last frame,
   for any number of tasks, any amounts of work and any wraps of the work
   counters between, provided every creation up to the last task's succeeded
   and the work times a hundred fits in a word (visualizer.c, deltas and
   total_delta). *)
THEOREM SharesAreExact == MonSpec => []SharesExact
  BY CountInit, CountStep, FrameExact, PTL DEF MonSpec

-----------------------------------------------------------------------------

(* A quit was read, or waits behind n - 1 other keys. *)
QuitWaits(n) ==
    \/ n = 0 /\ exit_requested
    \/ n \in 1 .. Len(keys) /\ keys[n] = "quit"

(* How far the loop is from the end of the next draining, with the quit read:
   once around, through the keys that wait and those that may still come. *)
StagesToQuit ==
    IF pc = "drain" THEN 1
    ELSE IF pc = "draw" THEN 2
    ELSE IF exit_requested THEN 0 ELSE 3
KeysToQuit == Len(keys) + 2 * (MaxBurst - burst)

(* A quit that waits is never lost, and every step but a tick brings the end
   of the monitor closer: it takes a key from before the quit, or goes on in
   the loop, or takes or adds a key of the finitely many of this draining. *)
QuitsComeCloser ==
    [][\A n \in Nat : pc # "shell" /\ QuitWaits(n) =>
        \/ pc' = "shell"
        \/ pc' # "shell" /\ n > 0 /\ QuitWaits(n - 1)'
        \/ /\ pc' # "shell" /\ QuitWaits(n)'
           /\ \/ Tick /\ UNCHANGED <<StagesToQuit, KeysToQuit>>
              \/ StagesToQuit' < StagesToQuit
              \/ StagesToQuit' = StagesToQuit /\ KeysToQuit' < KeysToQuit /\ KeysToQuit' \in Nat]_monVars

(* Types of what the loop reads of the keys. *)
KeysInv ==
    /\ keys \in Seq(KeyKinds)
    /\ burst \in 0 .. MaxBurst
    /\ pc \in {"shell", "drain", "test", "draw"}

(* No key waits at the start. *)
LEMMA KeysInit == MonInit => KeysInv
  BY MonitorAssumption DEF MonInit, KeysInv

(* Keys come one by one and are taken one by one. *)
LEMMA KeysStep == KeysInv /\ [MonNext]_monVars => KeysInv'
<1> SUFFICES ASSUME KeysInv, [MonNext]_monVars PROVE KeysInv'
  OBVIOUS
<1>0. MaxBurst \in Nat
  BY MonitorAssumption
<1>1. CASE ShellRound
  BY <1>1 DEF KeysInv, ShellRound, input
<1>2. CASE Start
  BY <1>0, <1>2 DEF KeysInv, Start, FreshLocals
<1>3. CASE DrainKey
  BY <1>3 DEF KeysInv, DrainKey, ExitAfterKey
<1>4. CASE DrainEnd
  <2>1. keys' \in Seq(KeyKinds)
    BY <1>4 DEF KeysInv, DrainEnd
  <2> QED
    BY <1>0, <1>4, <2>1 DEF KeysInv, DrainEnd
<1>5. CASE Quit
  BY <1>0, <1>5 DEF KeysInv, Quit, FreshLocals
<1>6. CASE Throttled \/ Round \/ Draw
  BY <1>6 DEF KeysInv, Throttled, Round, Draw, input
<1>7. CASE Tick
  BY <1>7 DEF KeysInv, Tick, input
<1>8. ASSUME NEW k \in KeyKinds, Key(k) PROVE KeysInv'
  BY <1>0, <1>8 DEF KeysInv, Key
<1>9. CASE UNCHANGED monVars
  BY <1>9 DEF KeysInv, monVars, input
<1> QED
  BY <1>1, <1>2, <1>3, <1>4, <1>5, <1>6, <1>7, <1>8, <1>9 DEF MonNext, Loop

(* Taking the first key brings a quit behind it one place forward. *)
LEMMA QuitMovesUp ==
    ASSUME KeysInv, NEW n \in Nat, n > 1, QuitWaits(n), keys' = Tail(keys)
    PROVE  QuitWaits(n - 1)'
<1>1. keys \in Seq(KeyKinds) /\ Len(keys) \in Nat /\ n \in 1 .. Len(keys) /\ keys[n] = "quit"
  BY DEF KeysInv, QuitWaits
<1>2. /\ Len(Tail(keys)) = Len(keys) - 1
      /\ \A k \in 1 .. Len(keys) - 1 : Tail(keys)[k] = keys[k + 1]
  BY <1>1
<1>3. n - 1 \in 1 .. Len(Tail(keys)) /\ Tail(keys)[n - 1] = "quit"
  BY <1>1, <1>2
<1> QED
  BY <1>3 DEF QuitWaits

(* A quit is obeyed, however many keys come before and after it and whatever
   they are: it is kept until the monitor ends, and each pass of the loop,
   each key read and each key typed brings the end closer, for every size of
   the keyboard's buffer and every bound on the keys typed during one
   draining.  This is the safety half of QuitObeyed
   (ck_visualizer_run_monitor). *)
THEOREM QuitNotLost == MonSpec => QuitsComeCloser
<1> DEFINE closer(n) ==
       \/ pc' = "shell"
       \/ pc' # "shell" /\ n > 0 /\ QuitWaits(n - 1)'
       \/ /\ pc' # "shell" /\ QuitWaits(n)'
          /\ \/ Tick /\ UNCHANGED <<StagesToQuit, KeysToQuit>>
             \/ StagesToQuit' < StagesToQuit
             \/ StagesToQuit' = StagesToQuit /\ KeysToQuit' < KeysToQuit /\ KeysToQuit' \in Nat
<1>1. KeysInv /\ [MonNext]_monVars =>
        [\A n \in Nat : pc # "shell" /\ QuitWaits(n) => closer(n)]_monVars
  <2> SUFFICES ASSUME KeysInv, MonNext, NEW n \in Nat, pc # "shell", QuitWaits(n)
               PROVE  closer(n)
    OBVIOUS
  <2>0. /\ keys \in Seq(KeyKinds) /\ Len(keys) \in Nat /\ MaxBurst \in Nat
        /\ burst \in Nat /\ burst <= MaxBurst /\ pc \in {"drain", "test", "draw"}
    BY MonitorAssumption DEF KeysInv
  <2>1. CASE DrainKey
    <3>1. /\ Len(keys) > 0 /\ Head(keys) = keys[1] /\ Len(Tail(keys)) = Len(keys) - 1
      BY <2>0, <2>1 DEF DrainKey
    <3>2. /\ keys' = Tail(keys) /\ burst' = burst /\ pc = "drain" /\ pc' = "drain"
          /\ exit_requested' = (exit_requested \/ keys[1] = "quit")
      BY <2>1, <3>1 DEF DrainKey, ExitAfterKey
    <3>3. CASE n > 1
      <4>1. QuitWaits(n - 1)'
        BY <3>2, <3>3, QuitMovesUp
      <4> QED
        BY <3>2, <3>3, <4>1
    <3>4. CASE n = 1
      <4>1. exit_requested'
        BY <3>2, <3>4 DEF QuitWaits
      <4>2. QuitWaits(n - 1)'
        BY <3>4, <4>1 DEF QuitWaits
      <4> QED
        BY <3>2, <3>4, <4>2
    <3>5. CASE n = 0
      <4>0. exit_requested'
        <5>1. exit_requested
          BY <2>0, <3>5 DEF QuitWaits
        <5> QED
          BY <3>2, <5>1
      <4>1. QuitWaits(n)'
        BY <3>5, <4>0 DEF QuitWaits
      <4>2. StagesToQuit' = StagesToQuit
        BY <3>2 DEF StagesToQuit
      <4>3. KeysToQuit' < KeysToQuit /\ KeysToQuit' \in Nat
        <5> DEFINE l == Len(keys)
                   r == Len(Tail(keys))
        <5>1. KeysToQuit = l + 2 * (MaxBurst - burst) /\ KeysToQuit' = r + 2 * (MaxBurst - burst)
          BY <3>2 DEF KeysToQuit
        <5>2. l \in Nat /\ l > 0 /\ r = l - 1
          BY <2>0, <3>1
        <5> HIDE DEF l, r
        <5> QED
          BY <2>0, <5>1, <5>2
      <4> QED
        BY <3>2, <4>1, <4>2, <4>3
    <3> QED
      BY <3>3, <3>4, <3>5
  <2>2. CASE DrainEnd
    <3>1. pc = "drain" /\ pc' = "test" /\ exit_requested' = exit_requested
      BY <2>2 DEF DrainEnd
    <3>2. CASE n = 0
      <4>1. exit_requested
        BY <3>2 DEF QuitWaits
      <4> QED
        BY <3>1, <3>2, <4>1 DEF QuitWaits, StagesToQuit
    <3>3. CASE n # 0
      <4>1. n \in 1 .. Len(keys) /\ keys[n] = "quit" /\ keys # << >>
        BY <2>0, <3>3 DEF QuitWaits
      <4>2. keys' = Tail(keys) /\ Head(keys) = "mute" /\ Head(keys) = keys[1]
        BY <2>0, <2>2, <4>1 DEF DrainEnd
      <4>3. n > 1
        BY <4>1, <4>2
      <4>4. QuitWaits(n - 1)'
        BY <4>2, <4>3, QuitMovesUp
      <4> QED
        BY <3>1, <4>3, <4>4
    <3> QED
      BY <3>2, <3>3
  <2>3. CASE Quit
    BY <2>3 DEF Quit
  <2>4. CASE Throttled \/ Round
    <3>1. /\ ~ exit_requested /\ pc = "test" /\ pc' \in {"drain", "draw"}
          /\ UNCHANGED <<keys, exit_requested>>
      BY <2>4 DEF Throttled, Round, input
    <3>2. QuitWaits(n)'
      BY <3>1 DEF QuitWaits
    <3>3. StagesToQuit = 3 /\ StagesToQuit' \in {1, 2}
      BY <3>1 DEF StagesToQuit
    <3> QED
      BY <3>1, <3>2, <3>3
  <2>5. CASE Draw
    <3>1. pc = "draw" /\ pc' = "drain" /\ UNCHANGED <<keys, exit_requested>>
      BY <2>5 DEF Draw, input
    <3>2. QuitWaits(n)'
      BY <3>1 DEF QuitWaits
    <3>3. StagesToQuit = 2 /\ StagesToQuit' = 1
      BY <3>1 DEF StagesToQuit
    <3> QED
      BY <3>1, <3>2, <3>3
  <2>6. CASE Tick
    <3>1. UNCHANGED <<keys, exit_requested, burst, pc>>
      BY <2>6 DEF Tick, input
    <3> QED
      BY <2>6, <3>1 DEF QuitWaits, StagesToQuit, KeysToQuit
  <2>7. ASSUME NEW k \in KeyKinds, Key(k) PROVE closer(n)
    <3>1. /\ keys' = Append(keys, k) /\ burst' = burst + 1 /\ burst < MaxBurst
          /\ UNCHANGED <<exit_requested, pc>>
      BY <2>7 DEF Key
    <3>2. Len(keys') = Len(keys) + 1 /\ \A j \in 1 .. Len(keys) : keys'[j] = keys[j]
      BY <2>0, <3>1
    <3>3. QuitWaits(n)'
      BY <2>0, <3>1, <3>2 DEF QuitWaits
    <3>4. StagesToQuit' = StagesToQuit
      BY <3>1 DEF StagesToQuit
    <3>5. KeysToQuit' < KeysToQuit /\ KeysToQuit' \in Nat
      BY <2>0, <3>1, <3>2 DEF KeysToQuit
    <3> QED
      BY <3>1, <3>3, <3>4, <3>5
  <2> QED
    BY <2>1, <2>2, <2>3, <2>4, <2>5, <2>6, <2>7 DEF MonNext, Loop, ShellRound, Start
<1> QED
  BY <1>1, KeysInit, KeysStep, PTL DEF MonSpec, QuitsComeCloser
============================================================================
