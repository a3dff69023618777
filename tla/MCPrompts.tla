------------------------------ MODULE MCPrompts ------------------------------
(* Handlers, and the accounts on one service, are interchangeable.            *)
EXTENDS Prompts, TLC

Symmetry == Permutations(Handlers) \cup Permutations(Telegram)

=============================================================================
