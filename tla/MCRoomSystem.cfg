SPECIFICATION FairSpec
CONSTANTS
  Order <- MCOrder
  RoomInsts <- MCRoomInsts
  MaxRoom = 3
  MaxId = 5
  MaxCalls = 3
  DebugMode = FALSE
INVARIANTS TypeOK EndLeavesPersistent IdsApart OneLateBody
PROPERTIES EveryoneMetOnce RequestEnds
