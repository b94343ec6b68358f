\* Listings of top-level, generic and nested classes, with and without a string literal.
CONSTANT Listings <- MCListings
SPECIFICATION Spec
INVARIANT ListingConverts
\* A conversion ends, done or with an exception: final states have no successor.
CHECK_DEADLOCK FALSE
