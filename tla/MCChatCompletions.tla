------------------------- MODULE MCChatCompletions -------------------------
(* Small instance of ChatCompletions for TLC.                               *)
EXTENDS ChatCompletions, TLC

Symmetry == Permutations(Requests)
=============================================================================
