SPECIFICATION NubraSpec
CONSTANTS
  Askers = {q1}
  MaxSecrets = 2
  Stale = FALSE
INVARIANTS
  GoodSecretsKept
CHECK_DEADLOCK FALSE
