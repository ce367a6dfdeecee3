---------------------------- MODULE MCInference ----------------------------
\* A vocabulary of four tokens and a handful of prompts for TLC.
EXTENDS Inference

CONSTANTS a, b

\* Prompts that extend, repeat and diverge from one another.
MCPrompts == {<<>>, <<a>>, <<a, b>>, <<a, Eog>>, <<a, a, b>>, <<a, a, b, b>>}

\* A prompt that ends with an end of turn, as chat templates do.
TurnPrompts == {<<>>, <<a, Eog>>, <<a, b>>}

\* Generate until the end; ingest only.
NPredictsUsual == {-1, 1}

\* Until the context is full; until the end; nothing at all.
NPredictsAll == {-2, -1, 0}
=============================================================================
