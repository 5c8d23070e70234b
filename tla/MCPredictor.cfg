CONSTANTS
  HistoryPCs = {0, 1}
  BHT_SIZE = 2
  BHT_WIDTH = 1
  NumPC = 6
  RAS_SIZE = 3
  BTB_SIZE = 2
  VAL_SIZE = 3
  Kind <- MCKind
  Target <- MCTarget
SPECIFICATION PredictorSpec
INVARIANTS
  NotTakenIsLearned
  ReturnsMatchCalls
  ChoicesAgree
