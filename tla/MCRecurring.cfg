CONSTANTS
    a1 = a1
    s1 = s1
    Asks = {a1}
    Schedules = {s1}
    Interval = 2
    Longer = 3
    MaxTime = 6
    MaxIncarnations = 2
    MaxFirings = 4
    MaxTimers = 1
    LastStart = 0
    MaxEvents = 2
    MaxCrashes = 1
SPECIFICATION Spec
INVARIANTS TypeOK NoticeOncePerRun
PROPERTIES WrittenReminderIsDue DeadlineNeverMovesEarlier
CHECK_DEADLOCK FALSE
