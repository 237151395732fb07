SPECIFICATION Spec
CONSTANTS
    None = None
    Subject = {0, 1, 2}
    Count = 2
    Cases <- MCCases
    Budget = 6
    MaxResource = 3
INVARIANTS
    ReportIsExact
    FailedIsNotDrift
    BudgetIsShared
    OutcomeAgrees
