SPECIFICATION FairSpec
CONSTANTS
    NoApp = NoApp
    NoDep = NoDep
    Apps = {a}
    BootApps = {a}
    MailApps = {a}
    Deploys = {d1, d2}
    AppSetupCap = 3
    TimerChanCap = 1
    RchCap = 2
    InitTcpPort = 6065
    EarlyRequests = FALSE
    Patient = TRUE
    SlowConnect = TRUE
INVARIANTS
    SettledIsClean
PROPERTIES
    RedeployCompletes
    QuitCompletes
CHECK_DEADLOCK FALSE
