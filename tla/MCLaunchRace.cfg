CONSTANT MaxSignals <- ThreeSignals
SPECIFICATION Spec
INVARIANT SettingsRemoved
CHECK_DEADLOCK FALSE
