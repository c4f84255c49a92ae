CONSTANTS
  Ckpt = {c1, c2}
  Epochs = 4
  Lat = 2
  MaxAhead = 1
  MaxPipe = 2
  MaxDecq = 1
  None = None
SPECIFICATION Spec
PROPERTIES
  AckAfterNotice
