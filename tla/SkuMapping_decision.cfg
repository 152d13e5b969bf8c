\* One mapping, one match and one decision; nothing fails.
SPECIFICATION Spec
CONSTANTS
  ChannelSkus = {"c1", "c2"}
  SystemSkus = {s}
  Matches = {m}
  Decisions = {d}
  Batches <- Imports
  MaxFaults = 0
PROPERTY DecisionsAreNotUndone
CHECK_DEADLOCK FALSE
