CONSTANT Races = {r1, r2}
SPECIFICATION Spec
CHECK_DEADLOCK FALSE
INVARIANT CalledAtMostOnce
PROPERTIES
  ImplementsOneShot
  LoserIsCancelled
