SPECIFICATION Spec
CONSTANTS
    alice = alice
    bob = bob
    r1 = r1
    r2 = r2
    m1 = m1
    p1 = p1
    s1 = s1
    s2 = s2
    Request = {r1, r2}
    Manual = {m1}
    Pass = {p1}
    Seed = {s1, s2}
    Owner = {alice}
    Holder = {alice}
    Key = {"k1", "k2"}
    Amount = {1, 2}
    Target = {"EUR"}
    Routable = {"EUR"}
    Commands <- Bodies
    Opening <- Opening3
    OmnibusOpening = 3
    SeedJobs <- Jobs
    Scenarios <- Threes
    AccountIds <- FourOrders
INVARIANTS
    TypeOK
    ReadingsStayTrue
    LedgerInvariants
    NoCircularWait
    SeedJudgesRightly
PROPERTIES
    ImplementsSerial
    EveryTransactionEnds
