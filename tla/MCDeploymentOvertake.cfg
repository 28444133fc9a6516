SPECIFICATION Spec
CONSTANTS
    NoApp = NoApp
    NoDep = NoDep
    Apps = {a}
    BootApps = {a}
    MailApps = {a}
    Deploys = {d1, d2}
    AppSetupCap = 2
    TimerChanCap = 1
    RchCap = 1
    InitTcpPort = 6065
    EarlyRequests = FALSE
    Patient = TRUE
    SlowConnect = FALSE
INVARIANTS
    ReloadedHandlerRuns
CHECK_DEADLOCK FALSE
