SPECIFICATION SettingsSpec
CONSTANTS
  Names = {"n1", "n2"}
  NoName = "n0"
  PhaseCount = 3
  MaxEdits = 3
INVARIANT NamesAgree
PROPERTY EditsSettle SettingsArrive
CHECK_DEADLOCK FALSE
