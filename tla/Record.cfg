\* Two recorders and an editor: every failure, a crash at every step.
CONSTANTS
  r1 = r1  r2 = r2  e1 = e1
  Recorders = {r1, r2}
  Editors = {e1}
  Nobody = Nobody
  Absent = Absent
  Lines <- MCLines
  Valid <- MCValid
  Continuous <- MCContinuous
  Faults = {"backup", "open", "write", "flush", "ingest", "import", "stamp", "restore", "crash"}
  MaxCalls = 4
SPECIFICATION Spec
INVARIANT RowsValid
PROPERTIES OldTextSurvives AnswerTellsTheOutcome ImplementsPromise
