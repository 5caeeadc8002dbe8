SPECIFICATION FairSpec
INVARIANTS
  HealthTypeOK
  KilledHasServed
  KilledAfterThree
PROPERTIES
  HungIsRestarted
