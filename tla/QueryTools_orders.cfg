\* The tenant condition taken as repaired: query_orders still cannot answer.
\* orders.channel_id taken as there: the tools that join tables cannot.
\* By hand, with -continue to see each property violated: see README.md.
SPECIFICATION Spec
CONSTANTS
  Tenants = {t}
  Calls = {c}
  Syncs = {s}
  Repairs = {{"condition"}, {"column"}}
  MaxWrites = 1
  MaxFaults = 0
INVARIANT ToolsAnswer
CHECK_DEADLOCK FALSE
