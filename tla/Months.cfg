\* Two months of any diaries, taken in in the three modes, one edit.
CONSTANTS
    DayLength = 24
    MaxActivity = 16
    MaxSleep = 16
    MonthLength = 2
    NoTime = NoTime
    LastMonth = 2
    Texts <- AllTexts
    Absent = Absent
    MaxEdits = 1
SPECIFICATION Spec
INVARIANT NoLongActivity
INVARIANT DaysTile
INVARIANT SyncedMeansSame
PROPERTY IncrementalAgrees
CHECK_DEADLOCK FALSE
