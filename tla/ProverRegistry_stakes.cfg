SPECIFICATION RegistrySpec
CONSTANTS
    p1 = p1
    p2 = p2
    p3 = p3
    s1 = s1
    x1 = x1
    x2 = x2
    Owner = Owner
    Provers = {p1, p2, p3}
    Slashers = {s1}
    Amounts = {0, 1, 2}
    MinStakes = {0, 2}
    BasisPoints = {5000, 6000}
    Secrets = {x1}
    InitMinStake = 1
    InitSlashBasisPoints = 12000
    INITIAL_REPUTATION = 2
    REPUTATION_INCREMENT = 2
    MAX_REPUTATION = 3
    SLASH_REPUTATION_PERCENT = 50
    MAX_SLASH_BASIS_POINTS = 5000
    MaxStake = 2
    MaxBlock = 2
    MaxSelections = 1
    MaxConfigOps = 2
INVARIANTS StakesAreBacked SelectionIsProportional PoolMatchesFlags
SYMMETRY ProverSymmetry
