\* The run that shows what an upheld dispute gives back: the challenger puts
\* down more than MIN_STAKE.
CONSTANTS
    User = {deployer, zk}
    Arbiter = arbiter
    Dead = dead
    Verifier = zk
    NoOne = zero
    Owner = deployer
    Spenders = {arbiter}
    Amounts = {2}
    MAX_SUPPLY = 2
    INITIAL_MINT = 2
    Unlimited = 9
    Payload = {p, q}
    Stakes = {2}
    DISPUTE_WINDOW = 1
    MIN_STAKE = 1
    UINT32 = 16
    MaxBlock = 2
    MaxCommits = 3
SPECIFICATION Spec
PROPERTY
    ChallengerRefunded
