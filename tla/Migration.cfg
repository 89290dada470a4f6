SPECIFICATION Spec
CONSTANTS
    s = s
    transcript = transcript
    companion = companion
    Confirm = confirm
    Session <- McSessions
    File <- McFiles
    SessionOf <- McOwner
    MaxWrites = 1
    MaxCrashes = 1
    MaxFaults = 1
    MaxRuns = 2
INVARIANT NothingIsLost
INVARIANT CleanRunMovedAll
INVARIANT ResumesFindTheirSession
PROPERTY NeverOverwritten
