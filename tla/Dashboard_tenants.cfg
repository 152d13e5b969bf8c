\* The schema of the migrations, without orders.fulfilled_at; and mended, but
\* not where the tenant condition of the rates goes.
\* By hand, with -continue to see each property violated: see README.md.
SPECIFICATION Spec
CONSTANTS
  Orders = {o}
  Aggregations = {a}
  Readers = {r}
  Length = 2
  PeriodEnd = 4
  MaxTime = 4
  MaxLag = 0
  Repairs = {{}, {"names"}}
  MaxFaults = 0
INVARIANTS
  AggregationsAreStored
  RatesAreOwn
CHECK_DEADLOCK FALSE
