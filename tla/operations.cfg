\* Two operations that share a limit of one; the Bus may die after every
\* statement but the one that completes a refusal's audit record.
\* A behaviour ends where everything is settled.
SPECIFICATION FairSpec

CONSTANTS
  Invocations = {op1, op2}
  Requirements = {rule1}
  Decisions = {"allow", "require_approval", "deny"}
  Limit = 1
  Windows = 2
  MaxCrashes = 1
  CrashPoints = {"idle", "admit", "evaluated", "approve", "decide", "await",
                 "authorize", "enter", "repair", "recover", "record"}
  MaxFaults = 1
  PidReuse = FALSE
  op1 = op1
  op2 = op2
  rule1 = rule1

INVARIANTS
  AppliedOnce
  UncertainStaysCharged
  ReservedWithinLimit
PROPERTIES
  LostIsReported
CHECK_DEADLOCK FALSE
