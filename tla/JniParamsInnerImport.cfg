CONSTANTS
  Files <- MCFiles
  ImplicitClasses <- MCImplicitClasses
  MaxConversions = 1
SPECIFICATION Spec
INVARIANT InnerClassImportRejectedBeforeResolution
CHECK_DEADLOCK FALSE
