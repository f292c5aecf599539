CONSTANTS
  r1 = r1  r2 = r2  r3 = r3
  Request = {r1, r2}
  Block = {1, 2, 3}
  block_size = 2
  max_num_running_reqs = 2
  max_num_scheduled_tokens = 4
  max_model_len = 6
  max_tokens = 3
  num_spec_tokens = 0
  watermark_blocks = 0
  async_scheduling = TRUE
  max_concurrent_batches = 2
  policy = "fcfs"
  priority <- EqualPriorities
  connector = TRUE
  connector_defers = FALSE
  Sessions = {}
  PromptLens = {2, 3}
  MaxArrivals = 2
  MaxResets = 0
  PauseStates = {}
  None = None
SPECIFICATION FairSpec
INVARIANTS OneOwner InFlightBlocksKept TablesLongEnough LoadsKeepBlocks
PROPERTY EventuallyDone
CHECK_DEADLOCK FALSE
