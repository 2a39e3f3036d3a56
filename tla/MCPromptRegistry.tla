--------------------------- MODULE MCPromptRegistry ---------------------------
\* PromptRegistry with interchangeable administrators and texts.
EXTENDS PromptRegistry, TLC

Symmetry == Permutations(Editors) \cup Permutations(Valid)
=============================================================================
