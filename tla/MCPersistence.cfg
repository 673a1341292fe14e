CONSTANTS
  Seed <- MCSeed
  Uuids <- MCUuids
  Texts <- MCTexts
  Time <- MCTime
  Alphabet <- MCAlphabet
  MaxText = 2
  MaxFields = 2
  MaxChanges = 2
  MaxTears = 1
  MaxStarts = 2
SPECIFICATION Spec
CHECK_DEADLOCK FALSE
INVARIANTS SplitUndoesJoin SaveLoadIdentity LossOnlyBelowTear UsersResolve NothingInvented
