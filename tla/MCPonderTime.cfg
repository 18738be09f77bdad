CONSTANTS
    Second = 2
    MaxTime = 8
    MaxHit = 3
    MaxDepth = 2
    Budgets <- MCBudgets
    Movetimes = {0, 3}
SPECIFICATION FairClockSpec
INVARIANTS
    DeadlineWithinClock
PROPERTIES
    EndTimeRules
    SearchEnds
