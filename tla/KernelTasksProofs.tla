------------------------- MODULE KernelTasksProofs -------------------------
(***************************************************************************)
(* The scheduler's invariants for every size of the task table, every word *)
(* size and any number of creations, and the game's for every size of the  *)
(* court; the tasks run under the scheduler as specified on its own.  Last *)
(* come two measures, of a round and of the ball's way back, that the      *)
(* steps make smaller.                                                     *)
(***************************************************************************)
EXTENDS KernelTasks, TLAPS

Residues == 0 .. Word - 1

(* Where the loop variable and the context are. *)
LoopOK ==
    /\ pc \in {"dispatch", "body", "done"} => i <= task_count
    /\ pc \in {"body", "done"} =>
          i < task_count /\ current_task_id = i /\ context = i

(* Where a creation is. *)
CreateOK ==
    /\ pc # "hung" => blocks = 2 * task_count + (IF pc = "regs" THEN 1 ELSE 0)
    /\ pc = "regs" => task_count < MaxTasks
    /\ pc \in {"boot", "regs"} => \A t \in Slots : times_run[t] = 0

(* Every task has run in r whole rounds, and in this one if it had its turn. *)
Rounds(r) == \A t \in Tasks : times_run[t] = (r + Ran(t)) % Word

SchedInv ==
    /\ SchedTypeOK
    /\ OneTaskRuns
    /\ LoopOK
    /\ CreateOK
    /\ \E r \in Residues : Rounds(r)

LEMMA WordFacts ==
    /\ Word \in Nat \ {0} /\ MaxTasks \in Nat \ {0} /\ MaxCreates \in Nat
    /\ 0 \in Residues
    /\ \A n \in Nat : n % Word \in Residues
    /\ \A r \in Residues : r % Word = r
  BY SchedulerAssumption DEF Residues

(* The rounds give the relation between any two counts. *)
LEMMA RoundsGiveRobin ==
  ASSUME SchedTypeOK, NEW r \in Residues, Rounds(r)
  PROVE  RoundRobin
<1>1. SUFFICES ASSUME NEW s \in Tasks, NEW t \in Tasks
               PROVE  (times_run[s] - times_run[t]) % Word = (Ran(s) - Ran(t)) % Word
  BY DEF RoundRobin
<1>2. Ran(s) \in {0, 1} /\ Ran(t) \in {0, 1}
  BY DEF Ran
<1>3. times_run[s] = (r + Ran(s)) % Word /\ times_run[t] = (r + Ran(t)) % Word
  BY DEF Rounds
<1>4. \A x, y \in {0, 1} : (((r + x) % Word) - ((r + y) % Word)) % Word = (x - y) % Word
  <2>1. r \in Nat /\ r < Word /\ Word \in Nat \ {0} /\ r % Word = r
    BY WordFacts DEF Residues
  <2>2. CASE r + 1 < Word
    <3>1. (r + 1) % Word = r + 1
      BY <2>1, <2>2
    <3> QED
      BY <2>1, <3>1
  <2>3. CASE r + 1 = Word
    <3>1. (r + 1) % Word = 0
      BY <2>1, <2>3
    <3>2. (0 - r) % Word = 1 % Word /\ (r - 0) % Word = (0 - 1) % Word
      <4>1. CASE Word = 1
        BY <2>1, <2>3, <4>1
      <4>2. CASE Word > 1
        <5>1. (0 - r) % Word = 1 /\ 1 % Word = 1
          BY <2>1, <2>3, <4>2
        <5>2. r % Word = Word - 1 /\ (0 - 1) % Word = Word - 1
          BY <2>1, <2>3, <4>2
        <5> QED
          BY <5>1, <5>2, <2>1
      <4> QED
        BY <4>1, <4>2, <2>1
    <3> QED
      BY <2>1, <3>1, <3>2
  <2> QED
    BY <2>1, <2>2, <2>3
<1>5. (((r + Ran(s)) % Word) - ((r + Ran(t)) % Word)) % Word = (Ran(s) - Ran(t)) % Word
  BY <1>2, <1>4, Zenon
<1> QED
  BY <1>3, <1>5

LEMMA SchedInitInv == SchedInit => SchedInv
<1> SUFFICES ASSUME SchedInit PROVE SchedInv
  OBVIOUS
<1>1. SchedTypeOK
  BY WordFacts DEF SchedInit, SchedTypeOK, Slots, Residues, READY, RUNNING, NoTask
<1>2. OneTaskRuns /\ LoopOK /\ CreateOK
  BY WordFacts DEF SchedInit, OneTaskRuns, LoopOK, CreateOK, Slots, READY, RUNNING
<1>3. Rounds(0)
  BY DEF Rounds, Tasks, SchedInit
<1> QED
  BY <1>1, <1>2, <1>3, WordFacts DEF SchedInv

(* One step per action. *)
LEMMA SchedStepInv == SchedInv /\ [SchedNext]_schedVars => SchedInv'
<1> SUFFICES ASSUME SchedInv, [SchedNext]_schedVars PROVE SchedInv'
  OBVIOUS
<1> USE DEF READY, RUNNING, NoTask, table, stats, schedVars
<1>1. PICK r \in Residues : Rounds(r)
  BY DEF SchedInv
<1>2. SchedTypeOK /\ OneTaskRuns /\ LoopOK /\ CreateOK
  BY DEF SchedInv
<1> HIDE DEF SchedInv
<1>3. Word \in Nat \ {0} /\ MaxTasks \in Nat \ {0} /\ MaxCreates \in Nat
  BY WordFacts
<1>4. CASE CreateRefused
  <2>1. SchedTypeOK'
    BY <1>2, <1>3, <1>4 DEF CreateRefused, SchedTypeOK
  <2>2. OneTaskRuns' /\ LoopOK' /\ CreateOK'
    BY <1>2, <1>3, <1>4 DEF CreateRefused, OneTaskRuns, LoopOK, CreateOK, Tasks
  <2>3. Rounds(r)'
    BY <1>1, <1>4 DEF CreateRefused, Rounds, Ran, Tasks
  <2> QED
    BY <2>1, <2>2, <2>3 DEF SchedInv, Residues
<1>5. CASE CreateStack
  <2>1. SchedTypeOK'
    BY <1>2, <1>3, <1>5 DEF CreateStack, SchedTypeOK
  <2>2. OneTaskRuns' /\ LoopOK' /\ CreateOK'
    BY <1>2, <1>3, <1>5 DEF CreateStack, TableFull, OneTaskRuns, LoopOK, CreateOK, Tasks, SchedTypeOK
  <2>3. Rounds(r)'
    BY <1>1, <1>5 DEF CreateStack, Rounds, Ran, Tasks
  <2> QED
    BY <2>1, <2>2, <2>3 DEF SchedInv, Residues
<1>6. CASE CreateRegsFail
  <2>1. SchedTypeOK'
    BY <1>2, <1>3, <1>6 DEF CreateRegsFail, StackFreed, SchedTypeOK, CreateOK
  <2>2. OneTaskRuns' /\ LoopOK' /\ CreateOK'
    BY <1>2, <1>3, <1>6 DEF CreateRegsFail, StackFreed, OneTaskRuns, LoopOK, CreateOK, Tasks, SchedTypeOK
  <2>3. Rounds(r)'
    BY <1>1, <1>6 DEF CreateRegsFail, Rounds, Ran, Tasks
  <2> QED
    BY <2>1, <2>2, <2>3 DEF SchedInv, Residues
<1>7. CASE Create
  <2>1. SchedTypeOK'
    BY <1>2, <1>3, <1>7 DEF Create, SchedTypeOK, CreateOK, Slots
  <2>2. \A t \in Slots : state[t] = READY /\ state'[t] = READY
    BY <1>2, <1>7 DEF Create, OneTaskRuns, SchedTypeOK
  <2>3. OneTaskRuns'
    BY <2>2, <1>7 DEF Create, OneTaskRuns, Slots
  <2>4. LoopOK' /\ CreateOK'
    BY <1>2, <1>3, <1>7 DEF Create, LoopOK, CreateOK, SchedTypeOK, Slots
  <2>5. Rounds(0)'
    <3>1. \A t \in Tasks' : t \in Slots
      BY <1>2, <1>3, <1>7 DEF Create, CreateOK, SchedTypeOK, Tasks, Slots
    <3>2. \A t \in Tasks' : Ran(t)' = 0
      BY <1>7 DEF Create, Ran
    <3> QED
      BY <3>1, <3>2, <2>4, <1>7, WordFacts DEF Create, Rounds, CreateOK, Slots
  <2> QED
    BY <2>1, <2>3, <2>4, <2>5, WordFacts DEF SchedInv, Residues
<1>15. CASE CreateHangs
  <2>1. SchedTypeOK'
    BY <1>2, <1>3, <1>15 DEF CreateHangs, SchedTypeOK
  <2>2. OneTaskRuns' /\ LoopOK' /\ CreateOK'
    BY <1>2, <1>3, <1>15 DEF CreateHangs, OneTaskRuns, LoopOK, CreateOK, Tasks
  <2>3. Rounds(r)'
    BY <1>1, <1>15 DEF CreateHangs, Rounds, Ran, Tasks
  <2> QED
    BY <2>1, <2>2, <2>3 DEF SchedInv, Residues
<1>8. CASE StartShell
  <2>1. SchedTypeOK'
    BY <1>2, <1>3, <1>8 DEF StartShell, SchedTypeOK
  <2>2. OneTaskRuns' /\ LoopOK' /\ CreateOK'
    BY <1>2, <1>3, <1>8 DEF StartShell, OneTaskRuns, LoopOK, CreateOK, Tasks
  <2>3. Rounds(r)'
    BY <1>1, <1>8 DEF StartShell, Rounds, Ran, Tasks
  <2> QED
    BY <2>1, <2>2, <2>3 DEF SchedInv, Residues
<1>9. CASE RunTasks
  <2>1. SchedTypeOK'
    BY <1>2, <1>3, <1>9 DEF RunTasks, SchedTypeOK
  <2>2. OneTaskRuns' /\ LoopOK' /\ CreateOK'
    BY <1>2, <1>3, <1>9 DEF RunTasks, OneTaskRuns, LoopOK, CreateOK, Tasks, SchedTypeOK
  <2>3. Rounds(r)'
    BY <1>1, <1>2, <1>9 DEF RunTasks, Rounds, Ran, Tasks, SchedTypeOK
  <2> QED
    BY <2>1, <2>2, <2>3 DEF SchedInv, Residues
<1>10. CASE Dispatch
  <2>0. i \in Slots /\ i \in Tasks /\ Tasks' = Tasks
    BY <1>2, <1>3, <1>10 DEF Dispatch, SchedTypeOK, Slots, Tasks
  <2>1. SchedTypeOK'
    <3>1. (times_run[i] + 1) % Word \in 0 .. Word - 1 /\ (context_switches + 1) % Word \in 0 .. Word - 1
      BY <1>2, <1>3, <2>0 DEF SchedTypeOK
    <3> QED
      BY <3>1, <2>0, <1>2, <1>10 DEF Dispatch, SchedTypeOK
  <2>2. OneTaskRuns'
    <3>1. \A t \in Slots : state[t] = READY
      BY <1>2, <1>10 DEF Dispatch, OneTaskRuns, SchedTypeOK
    <3> QED
      BY <3>1, <2>0, <1>2, <1>10 DEF Dispatch, OneTaskRuns, SchedTypeOK
  <2>3. LoopOK' /\ CreateOK'
    BY <1>2, <1>3, <1>10 DEF Dispatch, LoopOK, CreateOK, SchedTypeOK
  <2>4. Rounds(r)'
    <3>1. SUFFICES ASSUME NEW t \in Tasks
                   PROVE  times_run'[t] = (r + Ran(t)') % Word
      BY <2>0 DEF Rounds, Residues
    <3>2. t \in Slots /\ times_run[t] = (r + Ran(t)) % Word
      BY <1>1, <1>2, <1>3 DEF Rounds, Tasks, Slots, SchedTypeOK
    <3>3. CASE t = i
      <4>1. Ran(t) = 0 /\ Ran(t)' = 1
        BY <1>2, <1>10, <3>3, <2>0 DEF Dispatch, Ran, SchedTypeOK
      <4>2. times_run[t] = r
        BY <4>1, <3>2, WordFacts DEF Residues
      <4>3. times_run'[t] = (times_run[t] + 1) % Word
        BY <3>2, <3>3, <1>2, <1>10 DEF Dispatch, SchedTypeOK
      <4> QED
        BY <4>1, <4>2, <4>3, Zenon
    <3>4. CASE t # i
      <4>1. Ran(t)' = Ran(t)
        BY <1>10, <3>4 DEF Dispatch, Ran
      <4> QED
        BY <4>1, <3>2, <3>4, <1>2, <1>10 DEF Dispatch, SchedTypeOK
    <3> QED
      BY <3>3, <3>4
  <2> QED
    BY <2>1, <2>2, <2>3, <2>4 DEF SchedInv, Residues
<1>11. CASE Body
  <2>1. SchedTypeOK'
    <3>1. context \in Slots /\ context # NoTask
      BY <1>2, <1>3, <1>11 DEF Body, LoopOK, SchedTypeOK, Slots
    <3>2. (total_ticks[context] + 1) % Word \in 0 .. Word - 1
      BY <3>1, <1>2, <1>3 DEF SchedTypeOK
    <3>3. total_ticks' \in [Slots -> 0 .. Word - 1]
      BY <3>1, <3>2, <1>2, <1>11 DEF Body, Yield, SchedTypeOK
    <3> QED
      BY <3>3, <1>2, <1>3, <1>11 DEF Body, SchedTypeOK
  <2>2. OneTaskRuns' /\ LoopOK' /\ CreateOK'
    BY <1>2, <1>3, <1>11 DEF Body, OneTaskRuns, LoopOK, CreateOK, Tasks
  <2>3. Rounds(r)'
    BY <1>1, <1>11 DEF Body, Rounds, Ran, Tasks
  <2> QED
    BY <2>1, <2>2, <2>3 DEF SchedInv, Residues
<1>12. CASE EndTask
  <2>0. i \in Slots /\ i \in Tasks /\ Tasks' = Tasks
    BY <1>2, <1>3, <1>12 DEF EndTask, LoopOK, SchedTypeOK, Slots, Tasks
  <2>1. SchedTypeOK'
    <3>1. state' \in [Slots -> {READY, RUNNING}]
      BY <2>0, <1>2, <1>12 DEF EndTask, ReadyAgain, SchedTypeOK
    <3>2. i' \in 0 .. MaxTasks
      BY <2>0, <1>3, <1>12 DEF EndTask, NextTask, Slots
    <3> QED
      BY <3>1, <3>2, <1>2, <1>12 DEF EndTask, SchedTypeOK
  <2>2. OneTaskRuns'
    <3>1. \A t \in Slots : state'[t] = READY
      BY <2>0, <1>2, <1>12 DEF EndTask, ReadyAgain, OneTaskRuns, SchedTypeOK
    <3> QED
      BY <3>1, <1>12 DEF EndTask, OneTaskRuns, Slots
  <2>3. LoopOK' /\ CreateOK'
    BY <2>0, <1>2, <1>3, <1>12 DEF EndTask, NextTask, LoopOK, CreateOK, SchedTypeOK, Slots
  <2>4. \A t \in Tasks : Ran(t)' = Ran(t)
    BY <2>0, <1>2, <1>12 DEF EndTask, NextTask, Ran, Tasks, SchedTypeOK
  <2>5. Rounds(r)'
    BY <2>0, <2>4, <1>1, <1>12 DEF EndTask, Rounds, Residues
  <2> QED
    BY <2>1, <2>2, <2>3, <2>5 DEF SchedInv, Residues
<1>13. CASE EndRound
  <2>1. SchedTypeOK'
    BY <1>2, <1>3, <1>13 DEF EndRound, SchedTypeOK
  <2>2. OneTaskRuns' /\ LoopOK' /\ CreateOK'
    BY <1>2, <1>3, <1>13 DEF EndRound, OneTaskRuns, LoopOK, CreateOK, Tasks
  <2>3. \A t \in Tasks : Ran(t) = 1 /\ Ran(t)' = 0
    BY <1>2, <1>13 DEF EndRound, Ran, Tasks, SchedTypeOK
  <2>4. \A t \in Tasks : times_run[t] = (r + 1) % Word
    BY <2>3, <1>1 DEF Rounds
  <2>5. (r + 1) % Word \in Residues /\ (((r + 1) % Word) + 0) % Word = (r + 1) % Word
    BY WordFacts DEF Residues
  <2>6. Tasks' = Tasks /\ times_run' = times_run
    BY <1>13 DEF EndRound, Tasks
  <2>7. \E q \in Residues : Rounds(q)'
    <3>1. \A t \in Tasks' : times_run'[t] = (((r + 1) % Word) + Ran(t)') % Word
      BY <2>3, <2>4, <2>5, <2>6
    <3> QED
      BY <3>1, <2>5 DEF Rounds, Residues
  <2> QED
    BY <2>1, <2>2, <2>7 DEF SchedInv, Residues
<1>14. CASE UNCHANGED schedVars
  <2>1. SchedTypeOK' /\ OneTaskRuns' /\ LoopOK' /\ CreateOK'
    BY <1>2, <1>14 DEF SchedTypeOK, OneTaskRuns, LoopOK, CreateOK, Tasks
  <2>2. Rounds(r)'
    BY <1>1, <1>14 DEF Rounds, Ran, Tasks
  <2> QED
    BY <2>1, <2>2 DEF SchedInv, Residues
<1> QED
  BY <1>4, <1>5, <1>6, <1>7, <1>8, <1>9, <1>10, <1>11, <1>12, <1>13, <1>14, <1>15
  DEF SchedNext, ck_task_create, run_tasks

(* The inductive invariant holds throughout. *)
LEMMA SchedAlways == SchedSpec => []SchedInv
  BY SchedInitInv, SchedStepInv, PTL DEF SchedSpec

(* For every table size and number of creations the table never takes more
   tasks than it has slots, and no index leaves it (ck_task_create,
   ck_scheduler_run_tasks). *)
THEOREM TableNeverOverfull == SchedSpec => []SchedTypeOK
<1>1. SchedInv => SchedTypeOK
  BY DEF SchedInv, SchedTypeOK
<1> QED
  BY <1>1, SchedAlways, PTL

(* For every table size: inside a task's function that task alone is RUNNING,
   and it is the one reported and charged; outside, none is
   (ck_scheduler_run_tasks). *)
THEOREM OneTaskAtATime == SchedSpec => []OneTaskRuns
<1>1. SchedInv => OneTaskRuns
  BY DEF SchedInv
<1> QED
  BY <1>1, SchedAlways, PTL

(* For every table size and word size, after any number of rounds: the run
   counts of two tasks differ by whose turn it has been in this round
   (ck_scheduler_run_tasks). *)
THEOREM SchedulerCorrect == SchedSpec => []RoundRobin
<1>1. SchedInv => RoundRobin
  BY RoundsGiveRobin DEF SchedInv
<1> QED
  BY <1>1, SchedAlways, PTL

(* For every number of creations, whichever fail and wherever: between two
   calls each task holds its stack and its register block, and nothing else is
   held (ck_task_create), unless an allocation does not return. *)
THEOREM FailedCreationKeepsNothing == SchedSpec => []TasksHoldTwoBlocks
<1>1. SchedInv => TasksHoldTwoBlocks
  BY DEF SchedInv, CreateOK, TasksHoldTwoBlocks, SchedTypeOK
<1> QED
  BY <1>1, SchedAlways, PTL

(* The steps left of the round under way, three for each task still to run. *)
InRound == pc \in {"dispatch", "body", "done"}
StepsLeft ==
    3 * (task_count - i) - (IF pc = "body" THEN 1 ELSE IF pc = "done" THEN 2 ELSE 0)

(* A round counts down its steps one by one and ends with the last. *)
RoundsCountDown ==
    [][InRound =>
        /\ StepsLeft \in Nat
        /\ IF StepsLeft = 0 THEN pc' = "idle"
           ELSE InRound' /\ StepsLeft' = StepsLeft - 1]_schedVars

(* For every number of tasks: whatever their functions do, as long as each
   returns, a round of ck_scheduler_run_tasks calls every task once and is over
   after a fixed number of steps.  With the fairness of the loops this is what
   keeps a task from starving. *)
THEOREM RoundsEnd == SchedSpec => RoundsCountDown
<1>1. SchedInv /\ [SchedNext]_schedVars =>
        [InRound =>
            /\ StepsLeft \in Nat
            /\ IF StepsLeft = 0 THEN pc' = "idle"
               ELSE InRound' /\ StepsLeft' = StepsLeft - 1]_schedVars
  <2> SUFFICES ASSUME SchedInv, SchedNext, InRound
               PROVE  /\ StepsLeft \in Nat
                      /\ IF StepsLeft = 0 THEN pc' = "idle"
                         ELSE InRound' /\ StepsLeft' = StepsLeft - 1
    OBVIOUS
  <2>1. /\ i \in Nat /\ task_count \in Nat /\ i <= task_count
        /\ pc \in {"body", "done"} => i < task_count
    BY DEF SchedInv, SchedTypeOK, LoopOK, InRound
  <2>2. task_count' = task_count
    BY DEF SchedNext, ck_task_create, CreateRefused, CreateStack, CreateRegsFail, Create,
           CreateHangs, StartShell, run_tasks, RunTasks, Dispatch, Body, EndTask, EndRound, InRound, stats
  <2>3. CASE Dispatch
    BY <2>1, <2>2, <2>3 DEF Dispatch, StepsLeft, InRound
  <2>4. CASE Body
    BY <2>1, <2>2, <2>4 DEF Body, StepsLeft, InRound
  <2>5. CASE EndTask
    BY <2>1, <2>2, <2>5 DEF EndTask, NextTask, StepsLeft, InRound
  <2>6. CASE EndRound
    BY <2>1, <2>2, <2>6 DEF EndRound, StepsLeft, InRound
  <2> QED
    BY <2>3, <2>4, <2>5, <2>6
    DEF SchedNext, ck_task_create, CreateRefused, CreateStack, CreateRegsFail, Create,
        CreateHangs, StartShell, run_tasks, RunTasks, InRound
<1> QED
  BY <1>1, SchedAlways, PTL DEF SchedSpec, RoundsCountDown

(* Every step of the composed kernel is a step of the scheduler or leaves it
   alone. *)
LEMMA KernelStepsSched == [KernelNext]_kernelVars => [SchedNext]_schedVars
  BY DEF KernelNext, Boot, RoundStep, RunBody, OtherRoundStep, Monitor, SchedNext,
         run_tasks, kernelVars

(* The demo tasks, the keys and the monitor run under the scheduler as it is
   specified alone, so what holds of it holds with them. *)
THEOREM TasksRunUnderScheduler == KernelSpec => SchedSpec
  BY KernelStepsSched, PTL DEF KernelSpec, KernelInit, SchedSpec

-----------------------------------------------------------------------------

LEMMA CourtFacts ==
    /\ Width \in Nat /\ Height \in Nat /\ PaddleWidth \in Nat
    /\ Width >= 4 /\ Height >= 5 /\ 1 <= PaddleWidth /\ PaddleWidth <= Width
    /\ Center \in 0 .. Width - PaddleWidth
  BY GameAssumption DEF Center

GameInv == GameTypeOK /\ InCourt

(* The four stages of ck_task_demo_1 together: the ball stays in the court
   and moves by one cell at most, or is served. *)
BallStep(b) ==
    /\ b \in [x : Int, y : Int, dx : -1 .. 1, dy : -1 .. 1]
    /\ b.x \in 0 .. Width - 1
    /\ b.y \in 0 .. Height - 2
    /\ \/ b.x - ball.x \in -1 .. 1 /\ b.y - ball.y \in -1 .. 1
       \/ b = BallAt(2, 1, 1, 1)

LEMMA BallMoves ==
  ASSUME GameInv, NEW f \in 0 .. 1
  PROVE  BallStep(Bottom(Top(Sides(Moved(f)))))
<1> DEFINE m == Moved(f)
           s == Sides(m)
           t == Top(s)
           Ball == [x : Int, y : Int, dx : -1 .. 1, dy : -1 .. 1]
<1>1. /\ m \in Ball
      /\ m.x \in -1 .. Width /\ m.y \in -1 .. Height - 1
      /\ m.x - ball.x \in -1 .. 1 /\ m.y - ball.y \in -1 .. 1
  BY CourtFacts DEF GameInv, GameTypeOK, InCourt, Moved, BallAt
<1> HIDE DEF m
<1>2. /\ s \in Ball
      /\ s.x \in 0 .. Width - 1 /\ s.y \in -1 .. Height - 1
      /\ s.x - ball.x \in -1 .. 1 /\ s.y - ball.y \in -1 .. 1
  BY <1>1, CourtFacts DEF GameInv, GameTypeOK, InCourt, Sides, BallAt
<1> HIDE DEF s
<1>3. /\ t \in Ball
      /\ t.x \in 0 .. Width - 1 /\ t.y \in 0 .. Height - 1
      /\ t.x - ball.x \in -1 .. 1 /\ t.y - ball.y \in -1 .. 1
  BY <1>2, CourtFacts DEF GameInv, GameTypeOK, InCourt, Top, BallAt
<1> HIDE DEF t
<1>4. BallStep(Bottom(t))
  BY <1>3, CourtFacts DEF GameInv, GameTypeOK, InCourt, Bottom, Bounce, BallAt, BallStep
<1> QED
  BY <1>4 DEF m, s, t

LEMMA GameInitInv == GameInit => GameInv
  BY CourtFacts DEF GameInit, GameInv, GameTypeOK, InCourt, BallAt

LEMMA GameStepInv ==
  GameInv /\ [KernelNext]_kernelVars =>
      /\ GameInv'
      /\ \/ ball'.x - ball.x \in -1 .. 1 /\ ball'.y - ball.y \in -1 .. 1
         \/ ball' \in {BallAt(2, 1, 1, 1), BallAt(2, 2, 1, 1)}
<1> SUFFICES ASSUME GameInv, [KernelNext]_kernelVars
             PROVE  /\ GameInv'
                    /\ \/ ball'.x - ball.x \in -1 .. 1 /\ ball'.y - ball.y \in -1 .. 1
                       \/ ball' \in {BallAt(2, 1, 1, 1), BallAt(2, 2, 1, 1)}
  OBVIOUS
<1>1. CASE ck_task_demo_1
  <2>1. frame' \in 0 .. 1
    BY <1>1 DEF ck_task_demo_1, GameInv, GameTypeOK
  <2>2. \A f \in 0 .. 1 : BallStep(Bottom(Top(Sides(Moved(f)))))
    BY BallMoves
  <2>3. BallStep(ball')
    BY <1>1, <2>1, <2>2 DEF ck_task_demo_1
  <2> QED
    BY <1>1, <2>1, <2>3 DEF ck_task_demo_1, BallStep, GameInv, GameTypeOK, InCourt
<1>2. CASE ck_task_demo_2
  <2>1. Clamp(paddle_x + PaddleStep) \in 0 .. Width - PaddleWidth
    BY CourtFacts DEF GameInv, GameTypeOK, Clamp, PaddleStep, Drift
  <2> QED
    BY <1>2, <2>1, CourtFacts DEF ck_task_demo_2, GameInv, GameTypeOK, InCourt
<1>3. CASE ck_game_init
  BY <1>3, CourtFacts DEF ck_game_init, GameInv, GameTypeOK, InCourt, BallAt
<1>4. CASE ck_game_on_key
  BY <1>4, CourtFacts DEF ck_game_on_key, GameInv, GameTypeOK, InCourt
<1>5. CASE UNCHANGED gameVars
  BY <1>5, CourtFacts DEF gameVars, GameInv, GameTypeOK, InCourt
<1> QED
  BY <1>1, <1>2, <1>3, <1>4, <1>5
  DEF KernelNext, Boot, RoundStep, RunBody, OtherRoundStep, Monitor, Entry, ck_task_demo_3,
      kernelVars

(* For every court of at least four by five cells and every paddle that fits,
   in every order of task calls, keys and restarts, ball and paddle stay
   where draw_game_frame may draw them (kernel_tasks.c). *)
THEOREM GameCorrect == KernelSpec => [](GameTypeOK /\ InCourt)
  BY GameInitInv, GameStepInv, PTL DEF KernelSpec, KernelInit, GameInv

(* ... and the ball moves by one cell at most unless it is served. *)
THEOREM BallMovesByOne == KernelSpec => BallDoesNotJump
<1>1. GameInv /\ [KernelNext]_kernelVars =>
        [\/ ball'.x - ball.x \in -1 .. 1 /\ ball'.y - ball.y \in -1 .. 1
         \/ ball' \in {BallAt(2, 1, 1, 1), BallAt(2, 2, 1, 1)}]_kernelVars
  BY GameStepInv
<1> QED
  BY <1>1, GameInitInv, GameStepInv, PTL DEF KernelSpec, KernelInit, BallDoesNotJump

-----------------------------------------------------------------------------

(* Half-frames until the ball is back at the top, if no serve comes first: down
   to the paddle's row and up again. *)
WayBack == 2 * (IF ball.dy = 1 THEN 2 * Height - ball.y ELSE ball.y) - frame

(* Only a ball that was never set up lies still, and it lies at the top. *)
BallInv == GameInv /\ (ball.dy = 0 => ball.y = 0)

(* Below the second row, every call of ck_task_demo_1 brings the ball closer
   to being back. *)
BallTurns ==
    [][ball.y > 2 =>
        /\ WayBack \in Nat
        /\ \/ UNCHANGED <<ball, frame>>
           \/ ball'.y <= 2
           \/ WayBack' \in Nat /\ WayBack' < WayBack]_kernelVars

(* The stages of ck_task_demo_1 once more, for the ball's row. *)
LEMMA BallTurnsStep ==
    ASSUME BallInv, GameInv', ck_task_demo_1
    PROVE  /\ ball'.dy = 0 => ball'.y = 0
           /\ ball.y > 2 => ball'.y <= 2 \/ WayBack' < WayBack
<1> DEFINE m == Moved(frame')
           s == Sides(m)
           t == Top(s)
<1>1. /\ ball \in [x : Int, y : Int, dx : -1 .. 1, dy : -1 .. 1] /\ ball.y \in 0 .. Height - 2
      /\ frame \in 0 .. 1 /\ frame' = (frame + 1) % 2 /\ ball' = Bottom(t)
      /\ ball.dy = 0 => ball.y = 0
  BY DEF BallInv, GameInv, GameTypeOK, InCourt, ck_task_demo_1
<1>2. (frame = 0 /\ frame' = 1) \/ (frame = 1 /\ frame' = 0)
  BY <1>1
<1>3. /\ m.dy = ball.dy /\ m.y = IF frame' = 0 THEN ball.y + ball.dy ELSE ball.y
      /\ m.y \in Int /\ m.dy \in -1 .. 1
  BY <1>1, <1>2 DEF Moved, BallAt
<1> HIDE DEF m
<1>4. s.y = m.y /\ s.dy = m.dy
  BY DEF Sides, BallAt
<1> HIDE DEF s
<1>5. t.y = (IF m.y <= 0 THEN 0 ELSE m.y) /\ t.dy = IF m.y <= 0 THEN 1 ELSE m.dy
  BY <1>4 DEF Top, BallAt
<1> HIDE DEF t
<1>6. \/ ball'.y = t.y /\ ball'.dy = t.dy /\ t.y < Height - 2
      \/ ball'.y = Height - 2 /\ ball'.dy = -1 /\ t.y >= Height - 2
      \/ ball'.y = 1 /\ ball'.dy = 1
  BY <1>1, <1>3, <1>5, CourtFacts DEF Bottom, Bounce, BallAt
<1>7. ball'.dy = 0 => ball'.y = 0
  BY <1>1, <1>3, <1>5, <1>6
<1>8. ASSUME ball.y > 2 PROVE ball'.y <= 2 \/ WayBack' < WayBack
  <2>1. t.y = m.y /\ t.dy = ball.dy /\ ball.dy \in {-1, 1}
    BY <1>1, <1>3, <1>5, <1>8
  <2>2. CASE ball.dy = 1
    BY <1>1, <1>2, <1>3, <1>6, <2>1, <2>2, <1>8, CourtFacts DEF WayBack
  <2>3. CASE ball.dy = -1
    BY <1>1, <1>2, <1>3, <1>6, <2>1, <2>3, <1>8, CourtFacts DEF WayBack
  <2> QED
    BY <2>1, <2>2, <2>3
<1> QED
  BY <1>7, <1>8

(* What is left of the way is a number. *)
LEMMA WayBackType == BallInv /\ ball.y > 2 => WayBack \in Nat
  BY CourtFacts DEF BallInv, GameInv, GameTypeOK, InCourt, WayBack

(* Only ck_task_demo_1 and ck_game_init move the ball. *)
LEMMA BallInvStep == BallInv /\ [KernelNext]_kernelVars => BallInv'
<1> SUFFICES ASSUME BallInv, [KernelNext]_kernelVars PROVE BallInv'
  OBVIOUS
<1>1. GameInv'
  BY GameStepInv DEF BallInv
<1>2. CASE ck_task_demo_1
  BY <1>1, <1>2, BallTurnsStep DEF BallInv
<1>3. CASE ck_game_init
  BY <1>1, <1>3 DEF BallInv, ck_game_init, BallAt
<1>4. CASE UNCHANGED ball
  BY <1>1, <1>4 DEF BallInv
<1> QED
  BY <1>2, <1>3, <1>4
  DEF KernelNext, Boot, RoundStep, RunBody, OtherRoundStep, Monitor, Entry, ck_task_demo_2,
      ck_task_demo_3, ck_game_on_key, gameVars, kernelVars

(* For every court: the ball does not stick at the bottom.  Each call of
   ck_task_demo_1 that finds it below the second row shortens its way back, a
   natural number, whatever the paddle does meanwhile.  This is the safety half
   of BallComesBack. *)
THEOREM BallGetsCloser == KernelSpec => BallTurns
<1> DEFINE step == ball.y > 2 =>
                     /\ WayBack \in Nat
                     /\ \/ UNCHANGED <<ball, frame>>
                        \/ ball'.y <= 2
                        \/ WayBack' \in Nat /\ WayBack' < WayBack
<1>1. BallInv /\ BallInv' /\ [KernelNext]_kernelVars => [step]_kernelVars
  <2> SUFFICES ASSUME BallInv, BallInv', KernelNext, ball.y > 2
               PROVE  /\ WayBack \in Nat
                      /\ \/ UNCHANGED <<ball, frame>>
                         \/ ball'.y <= 2
                         \/ WayBack' \in Nat /\ WayBack' < WayBack
    OBVIOUS
  <2>1. WayBack \in Nat
    BY WayBackType
  <2>2. CASE ck_task_demo_1
    <3>1. ball'.y <= 2 \/ WayBack' < WayBack
      BY <2>2, BallTurnsStep DEF BallInv
    <3>2. ball'.y > 2 => WayBack' \in Nat
      BY CourtFacts DEF BallInv, GameInv, GameTypeOK, InCourt, WayBack
    <3>3. ball'.y \in Int
      BY DEF BallInv, GameInv, GameTypeOK
    <3> QED
      BY <2>1, <3>1, <3>2, <3>3
  <2>3. CASE ck_game_init
    BY <2>1, <2>3 DEF ck_game_init, BallAt
  <2>4. CASE UNCHANGED <<ball, frame>>
    BY <2>1, <2>4
  <2> QED
    BY <2>2, <2>3, <2>4
    DEF KernelNext, Boot, RoundStep, RunBody, OtherRoundStep, Monitor, Entry, ck_task_demo_2,
        ck_task_demo_3, ck_game_on_key, gameVars
<1>2. GameInit => BallInv
  BY GameInitInv DEF BallInv, GameInit, BallAt
<1> QED
  BY <1>1, <1>2, BallInvStep, PTL DEF KernelSpec, KernelInit, BallTurns
============================================================================
