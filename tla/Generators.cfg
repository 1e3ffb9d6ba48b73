SPECIFICATION GenSpec
CONSTANTS
    Threads = {t1, t2}
    WindowSize = 2
    Start = 4
    MaxKey = 8
    Span = 4
    MaxDraws = 6
    Choosers <- AllChoosers
INVARIANTS GenTypeOK LastIsIssued ZetaIsExact DrawnIsPublished SequentialVisitsAll 
PROPERTIES LastNeverRetreats DrawReturns
CHECK_DEADLOCK FALSE
