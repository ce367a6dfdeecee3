--------------------------- MODULE MCPromptCache ---------------------------
\* Two models and two caches for TLC.
EXTENDS PromptCache, TLC

CONSTANTS m1, m2

\* Every model has a description of its own.
DistinctDesc == m1 :> "qwen3 0.6B Q8_0" @@ m2 :> "qwen3 1.7B Q4_K"
=============================================================================
