CONSTANTS
  Shells <- TwoShells
  Names <- TwoNames
  Length <- Lengths
  Models <- TwoModels
  Texts <- OneText
  Depth <- TwoDirectories
  MaxCommands <- ThreeCommands
  Runs <- ThreeRuns
  Files <- TwoFiles
  UserLines <- TwoLines
  Contents <- SomeFiles
  MaxEdits <- OneEdit
  Updates <- TwoUpdates
  Tags <- SomeTags
  Base <- Eleven
SPECIFICATION SmallSpec
INVARIANTS
  CommandTypes
  ReplacedFilesAreWhole
  MarkersAreReadable
  UserLinesSurvive
  HooksOnce
PROPERTIES
  EffectsAreOfTheirTime
  ResolvesAtOnePoint
  UninstallRestores
  NewerReplacesOlder
\* Every command is over at last.
CHECK_DEADLOCK FALSE
