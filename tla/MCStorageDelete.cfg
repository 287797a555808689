CONSTANTS
  Size = 3
  Height = 2
  Width = 2
  Switchs = 1
  Projects <- MCProjects
  Chosen = {"a"}
  First = "a"
  Received = "received"
  Sent = "sent"
  ListMax = 100
  FlushLines = 90
  SavesMax = 2
  EditsMax = 1
  TransfersMax = 1
  Careful = TRUE
SPECIFICATION StorageSpec
INVARIANT RungsNotLost
