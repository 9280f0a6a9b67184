\* Two claims and a direct run.
CONSTANTS
    c1 = c1
    c2 = c2
    Talk = talk
    Contents = {c1, c2}
    Materials = {}
    Runs = {"direct"}
    MaxClaims = 2
SPECIFICATION Spec
PROPERTY FoldedIntoActive
