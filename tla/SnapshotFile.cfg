CONSTANTS
  Inodes = {f1, f2, f3}
  NoFile = NoFile
  MaxVersion = 2
SPECIFICATION FileSpec
SYMMETRY InodeSymmetry
INVARIANT PrimaryIntact
PROPERTY ImplementsAtomicSnapshot
