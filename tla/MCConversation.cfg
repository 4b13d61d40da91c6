CONSTANTS
  Prompts <- MCPrompts
  Replies <- MCReplies
  MaxMessages = 5
SPECIFICATION Spec
INVARIANTS
  ContentSurvives
  CallsAnsweredAtOnce
PROPERTY RepeatsLastRequest
\* A transcript has a last message.
CHECK_DEADLOCK FALSE
