\* What the comment of the search says of it.
SPECIFICATION MCSpec
CONSTANTS
    Fields = {f1, f2, f3, f4, f5}
    Rank <- MCRank
    MaxScore = 1
    Joins <- MCJoins
    Relations <- MCRelations
    Size <- MCSize
    RepairSizes = {0, 30}
    Limits <- MCLimits
    f1 = f1
    f2 = f2
    f3 = f3
    f4 = f4
    f5 = f5
    Routes = {simple, complex}
    Sizes = {small, large}
    Timeouts = {1, 2}
    Deadline = 3
    MaxVisits = 2
    None = None
SYMMETRY Symmetry
INVARIANTS
    SearchFinds
CHECK_DEADLOCK FALSE
