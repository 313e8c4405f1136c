\* Every offset of a small map at two zooms, reached by every input.
CONSTANTS
  m_cols = 4
  m_rows = 7
  m_width = 10
  m_height = 8
  tileWidth = 8
  halfTileHeight = 2
  ZoomSteps = 2
  StartOffset <- Start
  Point <- Points
  MiniMapX = 1
  MiniMapY = 5
  MiniMapSize = 3
  RotateLeftAt <- LeftButton
  RotateRightAt <- RightButton
  Tolerance = 2
  ScrollSpeeds = {5, 10}
  MaxImageHeight = 6
SPECIFICATION Spec
INVARIANTS
  ViewStaysOnMap
  DragsEnd
  RotationIsUndone
  PictureIsTheMap
PROPERTIES
  ZoomKeepsCentre
