CONSTANTS
    alice = alice  bob = bob  e1 = e1  e2 = e2
    None = None
    Users = {alice, bob}
    Events = {e1, e2}
    Day = 3
    Contents <- MCContents
    Settings <- MCSettings
    Attempts = 2
    Stalls = 1
    WithToken = {alice}
    JobIds = {1, 2, 3, 4, 5, 6, 7, 8, 9}
    MaxFaults = 2
SPECIFICATION MCSpec
INVARIANTS RoutedAsAsked RowsTellTruth OnlyStallsRepeatRows OtpMailedOrTried
PROPERTIES QueueKeepsPromise
CHECK_DEADLOCK FALSE
