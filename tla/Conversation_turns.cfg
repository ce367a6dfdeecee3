SPECIFICATION CSpec
CONSTANTS
  a = a
  b = b
  Bos = Bos
  Eog = Eog
  Vocab = {a, b, Bos, Eog}
  Samples = {a, Eog}
  AddBos = TRUE
  NCtx = 14
  NBatch = 3
  CtxShift = FALSE
  Recurrent = TRUE
  Prompts <- MCPrompts
  NPredicts <- MCNPredicts
  ReversePrompts = {}
  Budgets = {0, 1, 2, 4}
  InstructionLimit = 4
  Word = 64
  NoFile = NoFile
  UserTurn <- MCTurn
  MaxTurns = 2
  NGenerate = 3
  MaxFaults = 2
INVARIANT AnswerContinuesPrompt
INVARIANT CacheIsWhole
PROPERTY IngestedExactly
PROPERTY NextTurnIsCached
PROPERTY IngestionEnds
PROPERTY ConversationEnds
