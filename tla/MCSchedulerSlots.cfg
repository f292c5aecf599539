CONSTANTS
  r1 = r1  r2 = r2  r3 = r3
  Request = {r1, r2}
  Block = {1, 2, 3, 4, 5}
  block_size = 3
  max_num_running_reqs = 1
  max_num_scheduled_tokens = 4
  max_model_len = 13
  max_tokens = 2
  num_spec_tokens = 0
  watermark_blocks = 0
  async_scheduling = FALSE
  max_concurrent_batches = 1
  policy = "fcfs"
  priority <- EqualPriorities
  connector = FALSE
  connector_defers = FALSE
  Sessions = {r1}
  PromptLens = {1, 2}
  MaxArrivals = 4
  MaxResets = 0
  PauseStates = {}
  None = None
SPECIFICATION Spec
INVARIANTS SlotForEveryRequest
CHECK_DEADLOCK FALSE
