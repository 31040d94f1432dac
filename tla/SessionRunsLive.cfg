\* Questions, denials and a stop command, under the fairness of the module; no dispatch
\* is refused, so that a refusal is never what settles a message.
CONSTANTS
  Steering = {TRUE}
  MailboxSize = 2
  Agents = {"noStart", "retry", "errors", "continues", "asks"}
  Revives = {FALSE}
  MaxMessages = 2
  MaxRuns = 2
  MaxQuestions = 1
  MaxStops = 1
SPECIFICATION FairSpec
CHECK_DEADLOCK FALSE
INVARIANTS
  AwaitingIsAnswerable
PROPERTIES
  StopEnds
  MessagesSettle
