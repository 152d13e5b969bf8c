\* One user whose connection closes and who connects again.
SPECIFICATION Spec
CONSTANTS
  Sockets = {c, d}
  Users = {u}
INVARIANT DeadConnectionsLeave
CHECK_DEADLOCK FALSE
