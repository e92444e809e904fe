CONSTANTS
    Bundles = {g1, h1}
    g1 = g1
    g2 = g2
    h1 = h1
    ai1 = ai1
    Manifest <- MCManifest
    Builtins = {"g"}
    Rulesets = {"r1", "r2"}
    Versions = {1}
    MaxVersion = 2
    CustomIds = {x}
    Calls = {"c1"}
    RunIds = {"run1"}

SPECIFICATION Spec
INVARIANT ScopeKeepsItsGame
