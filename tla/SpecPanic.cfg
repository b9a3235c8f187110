SPECIFICATION Spec
CONSTANTS
  Schema = 1
  TypeSize <- MCTypeSize
  Bits <- MCBits
  MaxU64 = 63
  Malformed = {"name max"}
  Numbered = {"1"}
  Base <- MCBase
  Edited <- MCEdited
  MaxEdits = 1
INVARIANT CollectsEveryProblem
