CONSTANT MaxLines <- MCMaxLines
SPECIFICATION Spec
INVARIANT NoLineLost
CHECK_DEADLOCK FALSE
