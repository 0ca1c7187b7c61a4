\* The container prints a line that is not valid UTF-8.
CONSTANT MaxLines <- MCMaxLines
SPECIFICATION Spec
INVARIANT PumpEndsWithFollower
CHECK_DEADLOCK FALSE
