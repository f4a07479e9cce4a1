SPECIFICATION Spec
CONSTANTS
  IntMax = 127
  kMaxPort = 36
  default_port = 8
  kMaxStatementTimeoutMs = 60
  kDefaultStatementTimeoutMs = 5
  Chars = {"0", "1", "3", "6", "7", "-", "x"}
  MaxLength = 3
  Values <- MCValues
INVARIANTS
  RunsAsConfigured
  RefusedOnlyIfUnusable
  LoggerIsReady
