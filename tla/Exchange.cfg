\* One import with every failure, cancels, failing rollbacks and crashes.
CONSTANTS
  a = a  b = b  c = c  d = d  s = s
  Months <- MCMonths
  Contents = {a, b}
  Configs = {c, d}
  Strays = {s}
  Absent = Absent
  Torn = Torn
  Accepted <- MCAccepted
  Faults = {"copy", "database", "sync", "cancel", "restore", "crash"}
  MaxCalls = 1
SPECIFICATION Spec
PROPERTIES SuccessAgrees FailureRestores OldFilesSurvive CacheFresh ImplementsPromise
