CONSTANT
    Apps = {a1, a2, a3}

SPECIFICATION FairSpec
INVARIANTS TypeOK ImportedIsComplete
PROPERTIES StartsUp
