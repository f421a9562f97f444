CONSTANTS
  Buffers <- MCBuffers
  Moistures = {250, 900}
  Times = {0, 2147483647}
  Areas <- MCAreas
  TitleBar = {0}
  Box <- MCBox
SPECIFICATION Spec
INVARIANTS
  TypeOK
  NoticeWhole
  NoticeTrue
  MixedOnlyWithNotice
  ReadingCalibrated
  ConversionExact
  BuffersFit
