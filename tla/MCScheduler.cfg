SPECIFICATION FairSpec
CONSTANTS
  MaxRuns = 2
  Workflows = {"pre_market", "monthly_rebuild"}
  PageWorkflows = {"pre_market"}
  Configured = {"regime"}
  HasHub = TRUE
  Names = {"daily", "rebuild"}
  Table <- MCTable
  Defaults = {"daily", "rebuild"}
  Holidays = {1}
  MaxLoops = 2
  Minute = 1
  MaxTime = 1
  MaxEdits = 1
INVARIANTS  OneLoop OncePerLoopAndMinute
 
CHECK_DEADLOCK FALSE
