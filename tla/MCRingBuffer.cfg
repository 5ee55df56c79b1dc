SPECIFICATION FairSpec
CONSTANTS
  Producers = {p1, p2}
  Consumers = {c1, c2}
  RING_SIZE = 3
  Items = {a, b}
  NoItem = NoItem
  NoThread = NoThread
INVARIANTS
  SlotAccounting
  NoSlotConflict
PROPERTIES
  ImplementsQueue
  EveryItemIsTaken
