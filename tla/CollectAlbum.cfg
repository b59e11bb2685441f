SPECIFICATION Spec
CONSTANTS
  album = album
  GroupOf <- AlbumFirst
  NoGroup = NoGroup
  Timed = timed
  CatchUp = catchup
  MaxMsg = 2
  Polls = {timed}
  Wordless = {}
  Listening = {"off"}
  Limit = 2
  CatchUpLimit = 2
  FirstLimit = 2
  Ages = FALSE
  MaxFailures = 1
  MaxRestarts = 0
  Beside <- MCBeside
INVARIANTS
  LossIsTold
CHECK_DEADLOCK FALSE
