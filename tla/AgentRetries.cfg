CONSTANTS
  MaxRetries = 2
  NodeAttempts = 2
  Replies <- AnyReply
  MaxCommands = 5
  MaxCrashes = 1
SPECIFICATION Spec
CHECK_DEADLOCK FALSE
INVARIANTS InvocationInv DecisiveCallIsLast SucceededIsVerified
