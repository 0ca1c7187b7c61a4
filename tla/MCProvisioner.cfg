CONSTANT MaxRuns <- MCMaxRuns
SPECIFICATION Spec
INVARIANT TypeOK
INVARIANT RerunIsNoop
PROPERTY OkOnlyWhenProvisioned
\* initialize returns and the agent moves on: the last run's final state
\* has no successor when no daemon is left to settle or exit.
CHECK_DEADLOCK FALSE
