CONSTANTS
    Files = {f_script}
    Reviewable = {f_script}
    InitFiles <- MCInitAll
    Titles = {t1, t2, t3}
    ErrMsgs = {e1}
    NoError = NoError
    MaxVer = 3
    MaxIssues = 4
    MaxErrCount = 1
    MaxResets = 2
    OracleMayRepeat = FALSE
SPECIFICATION Spec
CHECK_DEADLOCK FALSE
PROPERTY IssueLifecycleRefined
SYMMETRY TitleSymmetry
