SPECIFICATION Spec
CONSTANTS
  MaxRuns = 2
  Workflows = {"pre_market", "monthly_rebuild"}
  PageWorkflows = {"pre_market"}
  Configured = {"regime"}
  HasHub = TRUE
  Names = {"daily", "rebuild"}
  Table <- MCTable
  Defaults = {"daily", "rebuild"}
  Holidays = {1}
  MaxLoops = 2
  Minute = 2
  MaxTime = 2
  MaxEdits = 1
INVARIANT OncePerMinute
CHECK_DEADLOCK FALSE
