SPECIFICATION Spec
CONSTANTS
  Obj = {"parent", "child"}
  NoParent = "none"
  Parent <- MCParent
  RoomInsts <- MCRoomInsts
  MaxInst = 6
  MaxAct = 9
  MaxCalls = 3
  MaxDepth = 6
INVARIANTS TypeOK Accounted Lists DestroyReachesAll
PROPERTIES IdsReused ImplementsEventIter
