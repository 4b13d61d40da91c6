CONSTANTS
  MaxSignals <- ThreeSignals
  Letters <- OneLetter
  Digits <- OneDigit
  Blocks <- SomeBlocks
  Env <- SomeEnv
SPECIFICATION LaunchSpec
INVARIANTS
  TypeOK
  ReturnLeavesNoSettings
  ClaudeHasItsSettings
  ExpandsByPlace
  SettingsAreExpanded
PROPERTY SignalRemovesSettings
CHECK_DEADLOCK FALSE
