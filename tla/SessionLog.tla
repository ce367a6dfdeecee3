----------------------------- MODULE SessionLog -----------------------------
(***************************************************************************)
(* What a caller may rely on about the text of a session (the tokens a     *)
(* run_update leaves in the prompt cache).  A call takes an input, a new   *)
(* prompt or the text itself, and when it is over the text is one of four: *)
(* what it was; a part of the input, and no less of it than before; the    *)
(* input and what was generated after it; or, when the text went on after  *)
(* the input, the input without its last token, which is taken off to be   *)
(* decoded again.  So no call puts tokens of one input after tokens of     *)
(* another or leaves a gap, and one that continues the text only extends   *)
(* it.                                                                     *)
(***************************************************************************)
EXTENDS Naturals, Sequences

CONSTANTS Inputs,  \* the prompts, as tokens
          Limit    \* a session holds fewer tokens

VARIABLES text,    \* the session
          input    \* of the call in progress; empty when there is none

StartsWith(s, p) == Len(p) <= Len(s) /\ SubSeq(s, 1, Len(p)) = p

\* s begins with all that t and p have in common.
KeepsShared(s, t, p) ==
  \A n \in 1 .. Len(p) :
     StartsWith(t, SubSeq(p, 1, n)) => StartsWith(s, SubSeq(p, 1, n))

Init == text = <<>> /\ input = <<>>

\* A call begins, with a prompt or with the text itself.
Call ==
  /\ input = <<>>
  /\ input' \in (Inputs \cup {text}) \ {<<>>}
  /\ UNCHANGED text

\* The call failed, or it was a query.
Undone == UNCHANGED text

\* The session holds a prefix of the input, no shorter than before.
Ingested == StartsWith(input, text') /\ KeepsShared(text', text, input)

\* The session holds the input and what was generated after it.
Answered == StartsWith(text', input)

\* The session went on after the input, and is taken back to before its last
\* token.
Rewound ==
  /\ StartsWith(text, input) /\ Len(text) > Len(input)
  /\ text' = SubSeq(input, 1, Len(input) - 1)

Return ==
  /\ input # <<>> /\ input' = <<>>
  /\ Undone \/ Ingested \/ Answered \/ Rewound
  /\ Len(text') < Limit

\* The file was removed.
Lose ==
  /\ input = <<>> /\ text' = <<>>
  /\ UNCHANGED input

Next == Call \/ Return \/ Lose

Spec == Init /\ [][Next]_<<text, input>>
=============================================================================
