SPECIFICATION NotesSpec
CONSTANTS
  NoData = NoData
  MaxPosts = 3
  MaxOtherNotes = 1
  MaxRows = 2
  MaxLost = 1
INVARIANTS
  NoPhantomNotes
  WatchedNotesShown
CHECK_DEADLOCK FALSE
