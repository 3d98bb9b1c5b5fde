CONSTANTS
    Files = {f_script, f_json}
    Reviewable = {f_script}
    InitFiles <- MCInitAll
    Titles = {t1}
    ErrMsgs = {e1}
    NoError = NoError
    MaxVer = 2
    MaxIssues = 3
    MaxErrCount = 2
    MaxResets = 1
    OracleMayRepeat = TRUE

SPECIFICATION FairSpec

PROPERTY CatchUp FindingHistoryKept

CHECK_DEADLOCK FALSE
