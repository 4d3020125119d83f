SPECIFICATION Spec
CONSTANT MaxHeight = 6
CHECK_DEADLOCK FALSE
INVARIANT IndInv
INVARIANT ExactWhenLinked
INVARIANT RollsBackStaleTop
INVARIANT LazyFetches
PROPERTY Returns
