SPECIFICATION Spec
CONSTANTS
  Created = 4
  MaxAppend = 2
  MaxNumber = 11
INVARIANT
  CommandsCommit
CHECK_DEADLOCK FALSE
