CONSTANTS
  Items = {i1}
  Tasks = {t1, t2}
  Calls = {"bootstrap", "ingest", "assemble", "compact", "after_turn", "window", "refresh", "end", "expire", "restart"}
  Overlapping = {"window"}
  CompactAt = 1  Reminder = 2
  MaxTurns = 2  MaxCompacts = 1  MaxFaults = 1
  None = None
SYMMETRY Interchangeable
SPECIFICATION Spec
INVARIANTS RulesWithContext ContextTrue GoalReminded
PROPERTY BootstrapKeepsContext
