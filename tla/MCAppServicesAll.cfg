SPECIFICATION FairSpec
CONSTANTS
    a1 = a1
    a2 = a2
    c1 = c1
    c2 = c2
    Nothing = Nothing
    Apps <- MCApps
    Calls <- MCCalls
    MaxDeps = 3
    MailRoom = 1
    Scenes <- MCScenes
INVARIANTS TypeOK ListenersKnown
PROPERTIES  CallReturns AcceptedMailIsSent ServiceReturns
CHECK_DEADLOCK FALSE
