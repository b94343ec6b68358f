\* Header structure over every method model of the menus.
CONSTANTS
  OuterClass <- MCOuterClass
  Inputs <- MCInputs
SPECIFICATION Spec
INVARIANTS
  TypeOK
  ClassHandlesDefined
  NativesRegisteredInOwnTable
  UniqueMethodKeepsPlainName
  OverloadedMethodMangled
  StubInvocationFollowsDescriptor
\* The generator ends after one header: final states have no successor.
CHECK_DEADLOCK FALSE
