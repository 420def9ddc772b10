SPECIFICATION CodecsSpec
CONSTANTS
  Streams <- MCStreams
  Complaints <- MCComplaints
  MaxFrame <- MCMaxFrame
  TailLines = 2
  Texts <- MCTexts
  MaxLabel <- MCMaxLabel
  MaxWindows <- MCMaxWindows
  Home <- MCHome
  Cwd <- MCCwd
  Existing <- MCExisting
  LongName <- MCLongName
  Samples <- MCSamples
INVARIANTS FramesAsSent EndSaid DocumentsSurvive TranscriptWhole PathsKept LaunchesCore
CHECK_DEADLOCK FALSE
