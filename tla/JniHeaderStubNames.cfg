\* Natives whose names need JNI escaping.
CONSTANTS
  OuterClass <- MCOuterClass
  Inputs <- MCInputs
SPECIFICATION Spec
INVARIANT NativeStubNamesFollowJniNaming
\* The generator ends after one header: final states have no successor.
CHECK_DEADLOCK FALSE
