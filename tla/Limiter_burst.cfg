CONSTANTS
    Task = {t1, t2, t3}
    Cost = {2, 5, 6}
    Capacity = 5
    Rate = 2
    MaxCalls = 2
    MaxWindow = 6
SPECIFICATION FairSpec
INVARIANTS TypeOK WindowBudget NeverOversleeps
PROPERTIES BudgetImplemented EveryAcquireReturns
