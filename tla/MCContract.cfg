\* Two questions in up to two windows of three tokens.
SPECIFICATION Spec
CONSTANTS
  Pdfs <- MCPdfs
  MinDigitalChars = 2
  NumQuestions = 2
  QuestionLength = 1
  WindowSize = 3
  Stride = 1
  Logits <- MCLogits
  NBest = 2
  MaxAnswerLength = 2
  NoAnswerThreshold = 1
  ChunkSettings <- MCChunkSettings
INVARIANTS
  SpansOfContract
  BestSpansFound
  PassagesAreWhole
CHECK_DEADLOCK FALSE
