SPECIFICATION Spec
CONSTANTS
  Slot <- MCSlot
  Stateful <- MCStateful
  Borrowing <- MCBorrowing
  Processor <- MCProcessor
  ControllerProc = "cpu"
  TargetOf <- MCTargetOf
INVARIANT StateMemoryLives
