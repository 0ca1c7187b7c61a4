SPECIFICATION Spec
INVARIANT HttpFailureExitsWith2
CHECK_DEADLOCK FALSE
