\* javap listings of classes with up to two members, JDK 6 and JDK 7+ layouts.
CONSTANT Listings <- MCListings
SPECIFICATION Spec
INVARIANTS
  TypeOK
  MethodsExtracted
  ConstantsExtracted
\* A conversion ends, done or with an exception: final states have no successor.
CHECK_DEADLOCK FALSE
