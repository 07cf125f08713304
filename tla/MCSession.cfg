SPECIFICATION SessionSpec
CONSTANTS
  Ids = {a}
  u1 = u1
  u2 = u2
  Users = {u1, u2}
  Nobody = Nobody
  Calls <- MCCalls
  MaxReplies <- MCReplies
  MaxLaunches = 2
  MaxChanges = 2
INVARIANTS KeyOfUser DumpsReported KilledForgetsUser
PROPERTIES RegistrationEnds SchedulesConverge
CHECK_DEADLOCK FALSE
