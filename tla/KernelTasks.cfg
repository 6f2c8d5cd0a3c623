CONSTANTS
    MaxTasks = 3
    Word = 2
    MaxCreates = 4
    Width = 5
    Height = 6
    PaddleWidth = 2
SPECIFICATION KernelSpec
INVARIANTS SchedTypeOK OneTaskRuns RoundRobin TasksHoldTwoBlocks InCourt
PROPERTIES NoStarvation BallComesBack
