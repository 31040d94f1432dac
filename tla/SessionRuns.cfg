\* A crashed run's message dispatched at boot beside the executor's own commands, with
\* agents that can be steered and agents that cannot; a mailbox of one so that it
\* fills; two runs so that one can replace, overwrite or outlive another.
CONSTANTS
  Steering = {TRUE, FALSE}
  MailboxSize = 1
  Agents = {"noStart", "retry", "refused", "errors", "continues"}
  Revives = {TRUE, FALSE}
  MaxMessages = 3
  MaxRuns = 2
  MaxQuestions = 0
  MaxStops = 1
SPECIFICATION Spec
CHECK_DEADLOCK FALSE
INVARIANTS
  TypeOK
  AcceptedIsKept
  SoleRunIsRegistered
  StatusIsTrue
