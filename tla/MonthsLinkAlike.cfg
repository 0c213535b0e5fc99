\* Two months with ordinary diaries: the night between them.
CONSTANTS
    DayLength = 24
    MaxActivity = 16
    MaxSleep = 16
    MonthLength = 2
    NoTime = NoTime
    LastMonth = 2
    Texts <- Ordinary
    Absent = Absent
    MaxEdits = 0
SPECIFICATION Spec
PROPERTY MonthsLinkAlike
CHECK_DEADLOCK FALSE
