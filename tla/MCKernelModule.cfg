SPECIFICATION ModuleSpec
CONSTANTS MaxPromisc = 2
INVARIANTS HandlerIffSlave SettingsRestored NothingLeftBehind
CHECK_DEADLOCK FALSE
