CONSTANTS
  a = a
  b = b
  Block = {b1, b2, b3}
  Token = {a, b}
  enable_caching = TRUE
  Request = {r1, r2}
  block_size = 2
  max_model_len = 4
  num_lookahead_tokens = 1
  use_eagle = FALSE
  async_scheduling = TRUE
  scheduler_reserve_full_isl = FALSE
  defer_block_free = TRUE
  Entry = {d1}
  Prompts <- LoadPrompts
  MaxAhead = 1
  MaxExternal = 4
  MaxHeadroom = 0
  Reports <- OneBlock
SPECIFICATION Spec
SYMMETRY Symmetric
INVARIANTS
  TypeOK
  BlockAccounting
  NoFailedCall
  SlotsCovered
  EventsNeverOverstate
