\* A deployer who owns VERI, and a verifier contract that may call back and
\* that also uses the arbiter itself; two payloads over two blocks, the first
\* of which can be finalized.
CONSTANTS
    User = {deployer, zk}
    Arbiter = arbiter
    Dead = dead
    Verifier = zk
    NoOne = zero
    Owner = deployer
    Spenders = {arbiter, zk}
    Amounts = {1}
    MAX_SUPPLY = 2
    INITIAL_MINT = 2
    Unlimited = 9
    Payload = {p, q}
    Stakes = {1}
    DISPUTE_WINDOW = 1
    MIN_STAKE = 1
    UINT32 = 16
    MaxBlock = 2
    MaxCommits = 2
SPECIFICATION Spec
INVARIANTS
    TypeOK
    Solvent
    FinalizedAfterWindow
    RecordsAgree
    SupplyCapped
PROPERTIES
    CommitIsImmutable
    ImplementsSettlement
