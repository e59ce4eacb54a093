SPECIFICATION Spec
CONSTANTS
  Kinds = {"write", "concurrent", "begin", "commit", "end_work", "rollback", "chain", "rollback_to", "prepared", "rule", "function", "nothing"}
  MaxLen = 5
INVARIANTS SplitHonoursContract DurableAsDocumented
