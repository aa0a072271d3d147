SPECIFICATION Spec
CONSTANTS
  Programs <- MCPrograms
  RegisterCount = 2
  MaxRegisters = 3
  OperandCount = 2
  RegexCount = 2
  MaxInstructions = 4
  MaxSteps = 3
  NoOperand = NoOperand
CHECK_DEADLOCK FALSE
INVARIANTS
  VerifiedIsSafe
  RunInBounds
  ExactFlow
