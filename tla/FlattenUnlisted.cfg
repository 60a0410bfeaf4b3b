\* Layers that need not list the directories of their files.
CONSTANTS
  Entries <- MCEntries
  GuestFiles <- MCGuestFiles
  GuestDirs <- MCGuestDirs
  MaxEntries = 4
  MaxLayers = 3
  Unlisted = TRUE
CHECK_DEADLOCK FALSE
SPECIFICATION Spec
INVARIANTS
  FlattenedIsOverlay
