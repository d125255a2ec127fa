SPECIFICATION Spec
CONSTANTS
  Files = {f1, f2}
  Texts = {t1, t2}
  MaxCommits = 1
  MaxEdits = 2
INVARIANTS SampleWarningIsTrue
CHECK_DEADLOCK FALSE
