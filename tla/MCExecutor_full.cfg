\* A full sink shares its source with an incremental one: one run after another.
CONSTANTS
  Runs = {r1, r2}
  Sources = {"a"}
  Sinks = {"t1", "full"}
  Incremental = {"t1"}
  From <- MixedFrom
  Rows = {"a1"}
  SourceOf <- MixedRows
  Lookback <- MixedBack
  FailsFirst = {}
  Shown <- InOrder
  Late = 0
  MaxMark = 1
  MaxFaults = 0
SPECIFICATION Spec
PROPERTY FullReadsEverything
CHECK_DEADLOCK FALSE
