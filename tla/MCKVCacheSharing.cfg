CONSTANTS
  a = a
  b = b
  Block = {b1, b2, b3, b4}
  Token = {a, b}
  enable_caching = TRUE
  Request = {r1, r2}
  block_size = 1
  max_model_len = 3
  num_lookahead_tokens = 0
  use_eagle = FALSE
  async_scheduling = FALSE
  scheduler_reserve_full_isl = TRUE
  defer_block_free = FALSE
  Entry = {}
  Prompts <- ShortPrompts
  MaxAhead = 0
  MaxExternal = 0
  MaxHeadroom = 1
  Reports <- NoReports
SPECIFICATION Spec
SYMMETRY Symmetric
INVARIANTS
  CacheMapExact
  SharedBlocksAgree
  PrefixClosed
