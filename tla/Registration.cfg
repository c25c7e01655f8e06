SPECIFICATION LiveSpec
CONSTANTS
  Width = 5
  MaskId = 22
  OkayEnough = 1
  MaxCommands = 2
  Patches <- AllPatches
  StartPatches <- AllStart
  AutopokeFiles <- PokeFiles
INVARIANT IInv
PROPERTIES FinishMatchesImage LoadMatchesImage SidsFollowPlace RegistrationEnds
CHECK_DEADLOCK FALSE
