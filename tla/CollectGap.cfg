SPECIFICATION Spec
CONSTANTS
  album = album
  GroupOf <- MCGroupOf
  NoGroup = NoGroup
  Timed = timed
  CatchUp = catchup
  MaxMsg = 3
  Polls = {timed}
  Wordless = {}
  Listening = {"off"}
  Limit = 2
  CatchUpLimit = 2
  FirstLimit = 2
  Ages = FALSE
  MaxFailures = 0
  MaxRestarts = 0
  Beside <- MCBeside
INVARIANTS
  NothingPassedOver
CHECK_DEADLOCK FALSE
