\* A turn, two windows of the user, two searches of which one is reviewed, and
\* one change of the materials.
SPECIFICATION Spec
CONSTANTS
    t1 = t1  u1 = u1  u2 = u2  q1 = q1  q2 = q2
    e1 = e1  e2 = e2  e3 = e3
    Turns = {t1}
    Users = {u1, u2}
    Queries = {q1, q2}
    Reviewed = {q1}
    Entries = {e1, e2, e3}
    MaxText = 2
INVARIANTS
    EvidenceAsReviewed
    RiskTokenOnce
    DeliveredAsDecided
PROPERTIES
    DecisionStands
SYMMETRY Symmetry
CHECK_DEADLOCK TRUE
