\* An import with a record that the database refuses; nothing else fails.
\* By hand: see README.md.
SPECIFICATION Spec
CONSTANTS
  ChannelSkus = {"c1", "c2"}
  SystemSkus = {s}
  Matches = {m}
  Decisions = {d}
  Batches <- Imports
  MaxFaults = 0
INVARIANT ValidRecordsAreImported
CHECK_DEADLOCK FALSE
