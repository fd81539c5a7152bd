CONSTANTS
  Key = {a}
  Lifetime = 1
  MaxTime = 4
  MaxSet = 2
  OutputLimit = 1
SPECIFICATION FairSpec
INVARIANTS CleanMeansSaved StoppedWithAllSaved RedisInv
PROPERTIES NeverEarly SettledFates ImplementsExpiringKeys EverySetexEnds WritesResume
