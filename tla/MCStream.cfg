SPECIFICATION StreamSpec
CONSTANTS
  Viewers = {v1, v2}
  None = None
  Watched = {v1}
  MaxQueue = 1
  MaxJpegs = 2
\* Everybody has left: the stream is over.
CHECK_DEADLOCK FALSE
INVARIANTS
  StreamTypeOK
  PictureIsWhole
PROPERTY PictureComes
