CONSTANTS
  Lines <- MCLines
  BufferMax = 2
  MaxLines = 2
  MaxNotices = 3
SPECIFICATION Spec
CHECK_DEADLOCK FALSE
INVARIANTS
  AnswersInOrder
  NoticesBelong
  DropsAreConfirmed
PROPERTIES
  SignalEndsSession
  LinesAreServed
