\* The agent is killed inside the fs::write of mc-lan.conflist and
\* restarted on the same host.
CONSTANT MaxRuns <- MCMaxRuns
SPECIFICATION Spec
PROPERTY ConfigIntactWhenOk
CHECK_DEADLOCK FALSE
