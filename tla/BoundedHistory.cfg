SPECIFICATION Spec
CONSTANTS
  Sample = {s1, s2, s3}
  NoSample = NoSample
  Capacities = {1, 2, 3, 4}
INVARIANT TypeOK
PROPERTY RefinesWindow
