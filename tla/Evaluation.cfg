\* Every relation of four predicted and four gold rows; families of small
\* results; every kind of case with two repairs and one commit of another
\* session; audits of two cases with three evaluations, and two commands at a
\* time.
SPECIFICATION MCSpec
CONSTANTS
    N = 4
    Families <- AllFamilies
    MaxRepairs = 2
    MaxWrites = 1
    Cases <- AllCases
    Ids = {case1, case2}
    MaxRuns = 3
    MaxVersions = 2
    Command = command
    RivalIds = {case1}
    Rivals = {rival1, rival2}
    RivalRuns = 2
    RivalVersions = 1
    case1 = case1
    case2 = case2
    None = None
SYMMETRY Symmetry
INVARIANTS
    MCTypeOK
    AnswerRight
    ComparisonRight
    CaseRight
PROPERTIES
    AuditRight
    Ends
CHECK_DEADLOCK FALSE
