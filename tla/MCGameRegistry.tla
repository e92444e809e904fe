--------------------------- MODULE MCGameRegistry ---------------------------
(* TLC instance of GameRegistry: two releases of one game, the second with a *)
(* ruleset more, one release of another game, and one AI.                     *)
EXTENDS GameRegistry, TLC

CONSTANTS g1, g2, h1, ai1

BundleOf(kind, game, version, rulesets) ==
    [kind |-> kind, game |-> game, version |-> version, rulesets |-> rulesets]

MCManifest ==
    [d \in Bundles |->
        CASE d = g1 -> BundleOf("game", "g", 1, {"r1"})
          [] d = g2 -> BundleOf("game", "g", 2, {"r1", "r2"})
          [] d = h1 -> BundleOf("game", "h", 1, {"r1"})
          [] d = ai1 -> BundleOf("ai", "g", 1, {})]

\* Calls differ in nothing but their name.
CallSymmetry == Permutations(Calls)
=============================================================================
