\* Overloads whose descriptors mangle alike, and ids built from class names.
CONSTANTS
  OuterClass <- MCOuterClass
  Inputs <- MCInputs
SPECIFICATION Spec
INVARIANT MethodIdsDistinctIdentifiers
\* The generator ends after one header: final states have no successor.
CHECK_DEADLOCK FALSE
