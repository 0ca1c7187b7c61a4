CONSTANT MaxLines <- MCMaxLines
SPECIFICATION Spec
PROPERTY PumpEndsAfterChildExits
\* stream_logs returns: its final states have no successor.
CHECK_DEADLOCK FALSE
