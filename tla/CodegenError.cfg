SPECIFICATION Spec
CONSTANTS
  Path <- MCPath
  Owned <- MCOwned
  Content <- MCContent
  Links <- MCLinks
  Specs <- MCSpecs
INVARIANT ErrorWritesNothing
