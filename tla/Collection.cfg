SPECIFICATION FairSpec
CONSTANTS
  album = album
  GroupOf <- MCGroupOf
  NoGroup = NoGroup
  Timed = timed
  CatchUp = catchup
  MaxMsg = 5
  Polls = {timed, manual}
  Wordless = {5}
  Listening = {"none", "off"}
  Limit = 2
  CatchUpLimit = 2
  FirstLimit = 2
  Ages = TRUE
  MaxFailures = 1
  MaxRestarts = 1
  Beside <- MCBeside
INVARIANTS
  TypeOK
  PollsPassNothingOver
  AlbumOnce
  
PROPERTIES
  EventuallyCollected
CHECK_DEADLOCK FALSE
