SPECIFICATION Spec
CONSTANTS
  Kinds = {"write", "function", "end_column", "commit"}
  MaxLen = 3
INVARIANTS SplitHonoursContract
