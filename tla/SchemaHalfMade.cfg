CONSTANT
    Apps = {a1}

SPECIFICATION Spec
INVARIANTS ReadyIsComplete
