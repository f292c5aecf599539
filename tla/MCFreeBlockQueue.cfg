CONSTANTS
  NumBlocks = 5
  FakeHead = head
  FakeTail = tail
  None = none
SPECIFICATION Spec
INVARIANTS ListInSync
PROPERTY QueueSpec
