SPECIFICATION Spec
CONSTANTS
  None = None
  Infos <- OneGroup
INVARIANT TaggedFieldsUpdate
CHECK_DEADLOCK FALSE
