SPECIFICATION Spec
CONSTANTS
  a = a
  Actors <- SmallActors
  Actions <- SmallActions
  Resources <- SmallResources
  secret = secret
  MaxAppends = 3
  MaxEdits = 2
  Sec = 1
  Half = 1
  MaxTime = 1
  MaxBacks = 1
INVARIANTS HonestVerifies VouchedFor FieldsKept
CHECK_DEADLOCK FALSE
