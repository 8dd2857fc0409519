SPECIFICATION Spec
CONSTANTS
    Callers = {c1, c2}
    Limit = 2
    Cost = 2
    MaxWant = 2
    MaxTime = 5
    MaxDeletes = 1
    Null = Null
INVARIANTS RateBound FullAfterRest
