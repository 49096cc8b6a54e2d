\* Two runs that may overlap: two incremental sinks on one source,
\* rows that arrive late, resets, and one crash or lost write.
CONSTANTS
  Runs = {r1, r2}
  Sources = {"a"}
  Sinks = {"t1", "t2"}
  Incremental = {"t1", "t2"}
  From <- SharedFrom
  Rows = {"a1", "a2"}
  SourceOf <- SharedRows
  Lookback <- SharedBack
  FailsFirst = {"t2"}
  Shown <- InOrder
  Late = 1
  MaxMark = 2
  MaxFaults = 2
SPECIFICATION Spec
INVARIANTS
  NoRowLost
  MergedIsCurrent
  SuccessDelivered
  ToldIsRecorded
PROPERTIES
  AtLeastOnce
SYMMETRY Symmetry
CHECK_DEADLOCK FALSE
