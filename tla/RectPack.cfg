SPECIFICATION Spec
CONSTANTS
  Boxes = {b1, b2, b3}
  NoBox = none
  Dims = {0, 1, 3, 5}
  Start = 2
  MaxInt = 15
INVARIANTS Packed TextureIsPlane
PROPERTY Ends
CHECK_DEADLOCK FALSE
