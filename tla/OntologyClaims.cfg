\* Claims under reviews, extraction, consolidation and a purge.
CONSTANTS
    c1 = c1
    c2 = c2
    Talk = talk
    Contents = {c1, c2}
    Materials = {m1}
    Runs = {"managed", "direct"}
    MaxClaims = 2
SPECIFICATION Spec
SYMMETRY Contentwise
INVARIANTS
    TypeOK
    ActiveContentUnique
    ConfirmedUnchallenged
PROPERTIES
    TrustKept
    NeverProposedTwice
