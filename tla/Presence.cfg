CONSTANTS
    Pages = {p1, p2}
    Users = {u1, u2}
    Files = {a, b}
    NoFile = none
    MaxSockets = 3
    MaxEvents = 1
SPECIFICATION Spec
INVARIANTS CursorsAreTrue CursorsAreSeen MarksAreTrue
PROPERTIES TrueMarksStay
SYMMETRY Symmetry
CHECK_DEADLOCK FALSE
