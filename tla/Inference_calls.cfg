SPECIFICATION Spec
CONSTANTS
  a = a
  b = b
  Bos = Bos
  Eog = Eog
  Vocab = {a, b, Bos, Eog}
  Samples = {a, Eog}
  AddBos = TRUE
  NCtx = 8
  NBatch = 3
  CtxShift = FALSE
  Recurrent = FALSE
  Prompts <- MCPrompts
  NPredicts <- NPredictsUsual
  ReversePrompts = {}
  Budgets = {0, 2}
  InstructionLimit = 6
  Word = 64
  NoFile = NoFile
INVARIANT TypeOK
INVARIANT KvIsSession
INVARIANT BudgetRespected
PROPERTY AccountingMatchesFile
PROPERTY IngestionAdvances
PROPERTY LogSpec
PROPERTY OutputMatchesFile
