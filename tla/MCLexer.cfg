SPECIFICATION Spec
CONSTANTS
  Sources <- MCSources
  SharedLength = 2
  MaxFrames = 2
  MaxDiags = 4
  Size = 4
INVARIANTS FramesPaired PositionExact BytesAccounted SemicolonExact Decodable DiagnosedOnce
PROPERTY StreamPromise

CHECK_DEADLOCK FALSE
