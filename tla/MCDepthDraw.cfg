SPECIFICATION DepthSpec
CONSTANTS
  MaxInst = 3
  Depths = {1, 2}
  ObjDepths <- MCObjDepths
  MaxNode = 9
  MaxCalls = 6
INVARIANTS DepthTypeOK OneLayerEach
PROPERTIES  RequestsCarriedOut
