SPECIFICATION Spec
CONSTANTS
  s1 = s1
  s2 = s2
  s3 = s3
  Server = {s1, s2, s3}
  Announced = {s1}
  VNodes <- SomeVNodes
  RingSize = 7
  Candidates = 2
  TTL = 3
  Threshold = 3
PROPERTIES
  CrashesAreDetected
