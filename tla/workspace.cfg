SPECIFICATION WSpec
CONSTANTS
  t1 = t1
  t2 = t2
  r1 = r1
  r2 = r2
  s1 = s1
  s2 = s2
  d1 = d1
  d2 = d2
  None = None
  Unset = Unset
  Deleted = Deleted
  Gone = Gone
  Docs = {d1, d2}
  Entities = {e1}
  Subs = {s1, s2}
  Triggers = {t1, t2}
  MaxEdits = 3
  MaxFaults = 1
  People = {ann, bob, carol}
  Moderators = {carol}
  Comments = {c1}
  Annotations = {n1}
  Requests = {r1, r2}
  MaxRequests = 4
SYMMETRY Symmetry
INVARIANTS MatchDelivers EntryFollowsTables EditsCompose
CHECK_DEADLOCK FALSE
