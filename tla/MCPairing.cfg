CONSTANTS
  Prompts <- MCPrompts
  Replies <- MCReplies
  MaxMessages = 5
SPECIFICATION Spec
INVARIANT PairingKept
CHECK_DEADLOCK FALSE
