SPECIFICATION Spec
CONSTANTS
  Threads = {t1, t2, t3}
  empty = empty
  small = small
  medium = medium
  large = large
  huge = huge
  Artifacts <- MCArtifacts
  Plans = {p1, p2, p3, p4}
  NoArtifact = NoArtifact
  NoPlan = NoPlan
  Fields <- MCFields
  MaxPrepared = 2
  MaxFields = 4
SYMMETRY MCSymmetry
INVARIANTS
  OnePlanPerArtifact
  HandedOutIsPublished
  FieldBudget
  NoLeak
  TableBacked
