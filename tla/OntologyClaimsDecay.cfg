\* Two claims and direct runs that are started again and again, months apart.
CONSTANTS
    c1 = c1
    c2 = c2
    Talk = talk
    Contents = {c1, c2}
    Materials = {}
    Runs = {"direct"}
    MaxClaims = 2
SPECIFICATION FairSpec
PROPERTY ChallengeEnds
