SPECIFICATION Spec
CONSTANTS
  MaxFlags = 3
  Flags <- MCFlags
  Configs <- MCConfigs
  Wants <- MCWants
  Worlds <- MCWorlds
  Found <- MCFound
  Verifier <- MCVerifier
INVARIANTS
  TypeOK
  OptionsInv
  ContextAsAsked
  NearestRuleWins
  WindowsWhole
  NoTextLost
  StatusMeansFound
  TallyAgrees
CHECK_DEADLOCK FALSE
