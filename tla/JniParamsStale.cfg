CONSTANTS
  Files <- MCFiles
  ImplicitClasses <- MCImplicitClasses
  MaxConversions = 2
SPECIFICATION Spec
INVARIANT ImportedNameResolvesToItsImport
CHECK_DEADLOCK FALSE
