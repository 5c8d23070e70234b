SPECIFICATION IcacheSpec
CONSTANTS
  NumBlocks = 4
  ICACHE_LINE_NUM = 1
  LENGTH = 2
  Targets = {1, 3}
  NUM_MEM_TAGS = 2
  LATENCY = 2
  Words = {0}
  Blocks = {0, 1, 2, 3}
  Values = {0, 1, 2, 3}
INVARIANTS LinesTrue AnswersInOrder
