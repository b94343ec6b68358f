CONSTANTS
  Files <- MCFiles
  ImplicitClasses <- MCImplicitClasses
  MaxConversions = 1
SPECIFICATION Spec
INVARIANT DeclaredInnerClassResolvesToNested
CHECK_DEADLOCK FALSE
