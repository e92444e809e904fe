--------------------------- MODULE MCBotRequests ---------------------------
(* TLC instance of BotRequests: identifiers are interchangeable. *)
EXTENDS BotRequests, TLC

Symmetry ==
    Permutations(BotIds) \union Permutations(Names) \union Permutations(RunIds)
        \union Permutations(Editors)
=============================================================================
