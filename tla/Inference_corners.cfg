SPECIFICATION Spec
CONSTANTS
  a = a
  b = b
  Bos = Bos
  Eog = Eog
  Vocab = {a, b, Bos, Eog}
  Samples = {a, Eog}
  AddBos = TRUE
  NCtx = 7
  NBatch = 5
  CtxShift = TRUE
  Recurrent = TRUE
  Prompts <- TurnPrompts
  NPredicts <- NPredictsAll
  ReversePrompts = {b}
  Budgets = {0}
  InstructionLimit = 8
  Word = 64
  NoFile = NoFile
INVARIANT OneBatch
INVARIANT KvIsSession
INVARIANT FileFits
PROPERTY CountsAddUp
