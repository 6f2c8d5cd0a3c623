---------------------------- MODULE KernelTasks ----------------------------
(***************************************************************************)
(* The demo tasks (src/kernel/kernel_tasks.c): a paddle-and-ball game      *)
(* whose state the three tasks share.  The scheduler calls them in turn;   *)
(* the monitor sets the game up, hands keys over and draws between rounds. *)
(* frame is kept modulo 2, which is all the code reads of it.  The work    *)
(* counters only feed the monitor's bars and the yield tests, which the    *)
(* scheduler's Body leaves open.                                           *)
(***************************************************************************)
EXTENDS Scheduler

CONSTANTS
    Width,        \* CK_GAME_WIDTH, 20
    Height,       \* CK_GAME_HEIGHT, 8
    PaddleWidth   \* CK_GAME_PADDLE_WIDTH, 6

ASSUME GameAssumption ==
    /\ Width \in Nat /\ Height \in Nat /\ PaddleWidth \in Nat
    /\ Width >= 4 /\ Height >= 5
    /\ 1 <= PaddleWidth /\ PaddleWidth <= Width

VARIABLES
    ball,       \* ck_game.ball_x, ball_y, ball_dx, ball_dy
    paddle_x,   \* ck_game.paddle_x
    frame,      \* ck_game.frame, modulo 2
    input_dir   \* ck_game_input_dir

gameVars == <<ball, paddle_x, frame, input_dir>>

BallAt(x, y, dx, dy) == [x |-> x, y |-> y, dx |-> dx, dy |-> dy]
Center == (Width - PaddleWidth) \div 2

(* ck_game is zero-initialised; the tasks already run before the monitor
   calls ck_game_init. *)
GameInit ==
    /\ ball = BallAt(0, 0, 0, 0)
    /\ paddle_x = 0
    /\ frame = 0
    /\ input_dir = 0

ck_game_init ==
    /\ ball' = BallAt(2, 2, 1, 1)
    /\ paddle_x' = Center
    /\ frame' = 0
    /\ input_dir' = 0

(* A or D; other keys leave the direction alone. *)
ck_game_on_key ==
    /\ input_dir' \in {-1, 1}
    /\ UNCHANGED <<ball, paddle_x, frame>>

(* ck_task_demo_1, stage by stage. *)
Moved(fr) ==
    IF fr = 0 THEN BallAt(ball.x + ball.dx, ball.y + ball.dy, ball.dx, ball.dy) ELSE ball

Sides(b) ==
    IF b.x <= 0 THEN BallAt(0, b.y, 1, b.dy)
    ELSE IF b.x >= Width - 1 THEN BallAt(Width - 1, b.y, -1, b.dy) ELSE b

Top(b) == IF b.y <= 0 THEN BallAt(b.x, 0, b.dx, 1) ELSE b

OverPaddle(b) == paddle_x <= b.x /\ b.x <= paddle_x + PaddleWidth - 1

NoBounce(b) == BallAt(b.x, Height - 2, b.dx, b.dy)
Bounce(b) == BallAt(b.x, Height - 2, b.dx, -1)

Bottom(b) ==
    IF b.y < Height - 2 THEN b
    ELSE IF OverPaddle(b) THEN Bounce(b) ELSE BallAt(2, 1, 1, 1)

ck_task_demo_1 ==
    /\ frame' = (frame + 1) % 2
    /\ ball' = Bottom(Top(Sides(Moved(frame'))))
    /\ UNCHANGED <<paddle_x, input_dir>>

(* ck_task_demo_2: a pending key moves the paddle, otherwise it drifts to
   the centre; then it is clamped. *)
Drift == IF paddle_x < Center THEN 1 ELSE IF paddle_x > Center THEN -1 ELSE 0
PaddleStep == IF input_dir # 0 THEN input_dir ELSE Drift

ClampMissing(p) == IF p < 0 THEN 0 ELSE p
Clamp(p) == IF p < 0 THEN 0 ELSE IF p > Width - PaddleWidth THEN Width - PaddleWidth ELSE p

ck_task_demo_2 ==
    /\ paddle_x' = Clamp(paddle_x + PaddleStep)
    /\ input_dir' = 0
    /\ UNCHANGED <<ball, frame>>

(* ck_task_demo_3 only counts. *)
ck_task_demo_3 == UNCHANGED gameVars

(* task->entry(): ck_main's three calls of ck_task_create pass the three
   functions in order; a call that fails leaves its function out. *)
Entry(n) ==
    \/ n = 1 /\ ck_task_demo_1
    \/ n = 2 /\ ck_task_demo_2
    \/ n > 2 /\ ck_task_demo_3

-----------------------------------------------------------------------------

kernelVars == <<schedVars, gameVars>>

(* Between rounds: taskmon starts, or a key of the game arrives. *)
Monitor == pc = "idle" /\ (ck_game_init \/ ck_game_on_key) /\ UNCHANGED schedVars

RunBody == Body /\ Entry(entry[i])
OtherRoundStep == (RunTasks \/ Dispatch \/ EndTask \/ EndRound) /\ UNCHANGED gameVars
RoundStep == RunBody \/ OtherRoundStep

Boot == (ck_task_create \/ StartShell) /\ UNCHANGED gameVars

KernelInit == SchedInit /\ GameInit

KernelNext == Boot \/ RoundStep \/ Monitor

(* The loops of the shell and of the monitor never end. *)
KernelSpec ==
    /\ KernelInit
    /\ [][KernelNext]_kernelVars
    /\ WF_kernelVars(RoundStep)

-----------------------------------------------------------------------------

(* Types of the game's state. *)
GameTypeOK ==
    /\ ball \in [x : Int, y : Int, dx : -1 .. 1, dy : -1 .. 1]
    /\ paddle_x \in Int
    /\ frame \in 0 .. 1
    /\ input_dir \in -1 .. 1

(* Whenever a frame can be drawn, the ball is inside the court and above the
   paddle's row and the whole paddle is inside the court: draw_game_frame
   writes no cell outside its box, also before ck_game_init has run. *)
InCourt ==
    /\ ball.x \in 0 .. Width - 1
    /\ ball.y \in 0 .. Height - 2
    /\ paddle_x \in 0 .. Width - PaddleWidth

(* A round moves the ball by at most one cell each way, unless it is served
   again or the game is set up anew. *)
BallDoesNotJump ==
    [][\/ ball'.x - ball.x \in -1 .. 1 /\ ball'.y - ball.y \in -1 .. 1
       \/ ball' \in {BallAt(2, 1, 1, 1), BallAt(2, 2, 1, 1)}]_kernelVars

(* The ball never sticks at the bottom, however the paddle moves. *)
BallComesBack == ball.y > 2 ~> ball.y <= 2
============================================================================
