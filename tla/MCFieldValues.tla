---------------------------- MODULE MCFieldValues ----------------------------
EXTENDS FieldValues, TLC
CONSTANTS text, multi, word, spaced, option, comma
\* TEXT takes everything; MULTI_SELECT takes its own options ("a,b"), stores a
\* spaced list of them ("a, b") without the spaces, and stores the empty string
\* for ",".
MCSanitized ==
  text :> [v \in Values |-> v] @@
  multi :> (word :> Nothing @@ spaced :> option @@ option :> option @@ comma :> Empty)
MCSymmetry == Permutations(Requests)
=============================================================================
