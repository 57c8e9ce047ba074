CONSTANTS
  Key <- Keys
  Name <- Names
  NoName = NoName
  Unknown = Unknown
  Builtin <- Registered
  Offered <- Extra
  Chunk = 10
  MaxCalls = 3
SPECIFICATION Spec
INVARIANTS WithinAllocation BuiltinKnown
PROPERTY ImplementsDirectory
CHECK_DEADLOCK FALSE
