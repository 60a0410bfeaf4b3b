\* Layers that list each directory before what they put in it.
CONSTANTS
  Entries <- MCEntries
  GuestFiles <- MCGuestFiles
  GuestDirs <- MCGuestDirs
  MaxEntries = 4
  MaxLayers = 3
  Unlisted = FALSE
CHECK_DEADLOCK FALSE
SPECIFICATION Spec
INVARIANTS
  FlattenedIsOverlay
  
