SPECIFICATION HSpec
CONSTANTS
  Params <- MCParams
  Applies <- MCApplies
  Methods <- MCMethods
  Impl <- MCImpl
  Digest <- MCDigest
  Failed = "failed"
INVARIANTS BuiltAsAsked StampIsEarned
