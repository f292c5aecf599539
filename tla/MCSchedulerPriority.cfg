CONSTANTS
  r1 = r1  r2 = r2  r3 = r3
  Request = {r1, r2, r3}
  Block = {1, 2, 3, 4}
  block_size = 2
  max_num_running_reqs = 2
  max_num_scheduled_tokens = 4
  max_model_len = 7
  max_tokens = 3
  num_spec_tokens = 0
  watermark_blocks = 1
  async_scheduling = TRUE
  max_concurrent_batches = 2
  policy = "priority"
  priority <- Priorities
  connector = FALSE
  connector_defers = FALSE
  Sessions = {}
  PromptLens = {1, 3}
  MaxArrivals = 3
  MaxResets = 2
  PauseStates = {"PAUSED_NEW", "PAUSED_ALL"}
  None = None
SPECIFICATION Spec
INVARIANTS SlotsCounted NoAssertFails PlaceholdersExact
CHECK_DEADLOCK FALSE
