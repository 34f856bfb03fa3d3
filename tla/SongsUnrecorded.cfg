SPECIFICATION Spec
CONSTANTS
  Outputs = {o1, o2}
  Tabs = {t1}
  MaxRecords = 2
  MaySuspend = FALSE
  None = None
PROPERTY UndeletedSongIsRecorded
CHECK_DEADLOCK FALSE
