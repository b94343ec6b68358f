\* Stubs of methods returning a class: Class<?>, ClassLoader, java/lang/Class.
CONSTANTS
  OuterClass <- MCOuterClass
  Inputs <- MCClassReturnInputs
SPECIFICATION Spec
INVARIANT StubReturnWellTyped
\* The generator ends after one header: final states have no successor.
CHECK_DEADLOCK FALSE
