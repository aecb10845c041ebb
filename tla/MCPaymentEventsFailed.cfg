SPECIFICATION Spec
CONSTANT Reports <- MCReports
INVARIANT FailedReportNeverResolvesUnknown
CHECK_DEADLOCK FALSE
