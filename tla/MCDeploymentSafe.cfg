SPECIFICATION Spec
CONSTANTS
    NoApp = NoApp
    NoDep = NoDep
    Apps = {a, b}
    BootApps = {a}
    MailApps = {a}
    Deploys = {d1, d2, d3}
    AppSetupCap = 1
    TimerChanCap = 1
    RchCap = 0
    InitTcpPort = 6065
    EarlyRequests = TRUE
    Patient = FALSE
    SlowConnect = FALSE
INVARIANTS
    TypeOK
    QuitNeverReusesChans
    QuitSendsSucceed
    StopStaysInApp
    
CHECK_DEADLOCK FALSE
