SPECIFICATION Spec
CONSTANT Reports <- MCReports
INVARIANT NeverPastReconciliation
INVARIANT ProgressCommutes
CHECK_DEADLOCK FALSE
