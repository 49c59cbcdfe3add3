SPECIFICATION FairSpec
CONSTANTS
  body = body
  x = x
  y = y
  z = z
  Names = {body, x, y, z}
  Body = body
  MaxLocals = 2
  MaxGlobals = 2
  MaxUses = 1
INVARIANT TypeOK
INVARIANT LocalsInOrder
PROPERTY Implements
PROPERTY Terminates
CHECK_DEADLOCK FALSE
