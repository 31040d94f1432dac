\* An agent that does not come up, and a message sent while it tried to.
CONSTANTS
  Steering = {TRUE}
  MailboxSize = 2
  Agents = {"noStart"}
  Revives = {FALSE}
  MaxMessages = 2
  MaxRuns = 2
  MaxQuestions = 0
  MaxStops = 0
SPECIFICATION Spec
CHECK_DEADLOCK FALSE
INVARIANT NothingEvaporates
