CONSTANTS
  Messages = {m1, m2}
  Facts = {f1, f2, f3}
  Tasks = {t1, t2}
  BatchSizes = {1, 2}
  Headroom = 1
  RecentMax = 2
  RunFacts = 2
  DomainsKept = 1
  BatchTimeout = 1
  BufferTtl = 2
  Calls = {"ingest_messages", "ingest_turn", "end", "delete", "tick"}
  MaxFaults = 1
  None = None
SYMMETRY Interchangeable
SPECIFICATION Spec
INVARIANTS EveryMessageOnce RecentListTrue DecayHitsWhatWasShown
