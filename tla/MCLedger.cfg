CONSTANTS
    Request = {r1, r2, r3}
    DailyBudget = 2
    MonthlyBudget = 3
    Modes = {"downgrade", "reject"}
    MaxCost = 2
    SpendCap = 7
SPECIFICATION Spec
SYMMETRY RequestSymmetry
CONSTRAINT SpendCapped
INVARIANTS
    TypeOK
    DailyOvershootBounded
    RejectBounds
