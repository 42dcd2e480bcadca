SPECIFICATION Spec
CONSTANTS
  v1 = v1
  v2 = v2
  SubOrder <- TwoSubs
  Legacy = {"all"}
  Values <- TwoValues
  Old = Old
  Manual = Manual
  Absent = Absent
  NoHead = NoHead
  MaxCycle = 1
SYMMETRY Symmetric
INVARIANTS TypeOK SuccessIsPushed
PROPERTIES ImplementsAtomicPublication ManualEditsKept RollbackRestores
