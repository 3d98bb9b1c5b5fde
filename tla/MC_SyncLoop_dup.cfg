CONSTANTS
    Files = {f_script, f_json}
    Reviewable = {f_script}
    InitFiles <- MCInitAll
    Titles = {t1}
    ErrMsgs = {e1}
    NoError = NoError
    MaxVer = 2
    MaxIssues = 3
    MaxErrCount = 2
    MaxResets = 2
    OracleMayRepeat = TRUE

SPECIFICATION FairSpec

INVARIANT NoDuplicateOpen

CHECK_DEADLOCK FALSE
