SPECIFICATION Spec
CONSTANTS
  Path <- MCPath
  Owned <- MCOwned
  Content <- MCContent
  Links <- MCLinks
  Specs <- MCSpecs
INVARIANTS SuccessIsExact DoesWhatIsDue
PROPERTY ChangesAreDue
