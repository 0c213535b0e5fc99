\* Four days of eight clock times, three events a day; an editor who waits.
CONSTANTS
    DayLength = 8
    MaxActivity = 5
    MaxSleep = 5
    MonthLength = 4
    NoTime = NoTime
    Month = 2
    FirstEnd = 0
    Jitters = {0, 1}
    MaxCarry = 1
    WakeTimes = {2}
    NormalLengths = {2}
    NosleepLengths = {1, 2}
    Settings <- MCSettings
    LastDayOfMonth = 28
    Diaries <- MCDiaries
    Markers <- MCMarkers
    Bodies <- MCBodies
    Today = 2
    Patient = TRUE
    MaxEdits = 2
SPECIFICATION Spec
INVARIANT AcceptedIsRead
INVARIANT GeneratedIsAccepted
INVARIANT AverageIsTracked
PROPERTY DayEditIsLocal
CHECK_DEADLOCK FALSE
