CONSTANTS
    Width = 3
    Height = 4
    LineMax = 3
    NameMax = 2
    ArgsMax = 1
    HistorySize = 2
    HistoryLine = 2
    Letters = {">", "h", "m", "c", "r"}
    Commands <- MCCommands
    Texts <- MCTexts
    Word = 2
    MaxTyped = 6
SPECIFICATION ShellSpec
INVARIANTS ShellTypeOK LineShown EmptyAhead HistoryIsRecent
PROPERTIES CommandsEnd StatusReturns
CHECK_DEADLOCK FALSE
