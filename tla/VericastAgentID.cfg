\* One plain account and one contract that calls back; three tokens and mints
\* nested two deep, so that a clone can be taken of a token that is complete
\* and of one that is not.
CONSTANTS
    User = {alice}
    Contract = {vault}
    NoOne = zero
    Root = {r1}
    NoRoot = r0
    MAX_SUPPLY = 3
    MaxDepth = 2
SPECIFICATION Spec
INVARIANTS
    TypeOK
    IdsAreUnique
    DataComplete
PROPERTIES
    TypeIsSettled
