\* A resource-stats round that outlasts a period.
CONSTANT MaxTime <- MCMaxTime
SPECIFICATION Spec
INVARIANT HealthEveryPeriod
CHECK_DEADLOCK FALSE
