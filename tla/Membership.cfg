CONSTANTS
  Users = {u1, u2}
  Owner = Owner
  Offered = {"viewer", "editor", "owner"}
  Tokens = {t1}
  Requests = {r1}
  Calls = {c1, c2}
  Nothing = Nothing
SPECIFICATION Spec
INVARIANTS NoEscalation
PROPERTIES OnlyOwnerChangesRoles
