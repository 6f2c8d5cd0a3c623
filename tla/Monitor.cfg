CONSTANTS
    Functions = 2
    Works = {1, 2}
    Word = 8
    TickWord = 4
    FrameMs = 2
    Percent = 2
    BarWidth = 2
    MaxAway = 2
    Buffer = 2
    MaxBurst = 2
SPECIFICATION MonSpec
INVARIANT SharesExact
PROPERTIES FramesApart QuitObeyed FramesGoOn
