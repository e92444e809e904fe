CONSTANTS
  Browsers = {"b1", "b2"}
  Providers = {"github"}
  Subjects = {"s1", "s2"}
  Roles = {"participant", "operator"}
  InviteTTL = 1
  SessionTTL = 1
  MaxLogins = 2
  MaxInvites = 2
  MaxTime = 1
SPECIFICATION FairSpec
INVARIANTS InviteMakesOneAccount OneAccountPerIdentity SignupUsesItsOwnInvite
PROPERTY CallbackEnds
CHECK_DEADLOCK FALSE
