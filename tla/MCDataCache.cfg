CONSTANTS
  Indexes <- OneSet
  Blocks <- ThreeBlocks
  NumTags = 3
  Tracked <- OneBlock
  Words = {0}
  Values = {0, 1}
  NUM_MEM_TAGS = 3
  LATENCY = 2
SPECIFICATION FairSpec
INVARIANTS
  NoStoreLost
  LoadsReadLatest
PROPERTIES
  EveryRequestEnds
