--------------------------- MODULE MCConversation ---------------------------
\* One user turn, repeated, for TLC.
EXTENDS Conversation

CONSTANTS a, b

MCTurn == <<b, a, b>>
MCPrompts == {<<>>}
MCNPredicts == {1}
=============================================================================
