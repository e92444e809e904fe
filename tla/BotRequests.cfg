CONSTANTS
    BotIds = {b1, b2}
    Owners = {"o1"}
    Names = {n1, n2}
    RunIds = {r1, r2}
    RequestIds = {"q1"}
    Editors = {e1, e2}
    Creators = {c1}
    PlayerCount = 2
    MaxCalls = 2
    MaxLimit = 2
    MaxRevisions = 3
    MaxScopeWrites = 1

SYMMETRY Symmetry
SPECIFICATION Spec
INVARIANT RunPinsOneMoment
PROPERTIES
    QuotaOnCreate
    RetiredIsFrozen
