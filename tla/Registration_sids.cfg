SPECIFICATION Spec
CONSTANTS
  Width = 5
  MaskId = 22
  OkayEnough = 1
  MaxCommands = 1
  Patches <- RectPatches
  StartPatches <- RectPatches
  AutopokeFiles <- NoFiles
PROPERTY SidsFromFile
CHECK_DEADLOCK FALSE
