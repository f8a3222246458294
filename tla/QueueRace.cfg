CONSTANTS
  Runs = {cpp, owner}
  DebugRuns = {owner}
  CppRuns = {cpp}
  Repeats = {cpp, owner}
  Cancels = {cpp}
  Consumers = {w1, w2}
  NoRun = NoRun
  cpp = cpp
  owner = owner
  Rank <- MCRank
  RoleWeight = 10
  WaitWeight = 20
  LangPenalty = 2
  Saturation = 4
  MaxRank = 3
  MAX_DEQUEUE_ATTEMPTS = 2
  MaxTokens = 2
SPECIFICATION QueueFairSpec
INVARIANTS NoSlotTwice NobodyIsPassed
PROPERTIES AgedIsTaken
