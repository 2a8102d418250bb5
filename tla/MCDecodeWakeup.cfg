SPECIFICATION SessionSpec
CONSTANTS
  Capacity = 4
  b1 = b1
  b2 = b2
  big = big
  NoBlock = NoBlock
  Blocks <- MCBlocks
  Oversized <- MCOversized
INVARIANTS
  NoSlotRace
  RoomIsKept
  SleeperIsCalled
PROPERTIES
  ImplementsFifo
  SleeperWakes
