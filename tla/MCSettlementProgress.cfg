SPECIFICATION FairSpec
CONSTANTS
    r1 = r1
    r2 = r2
    r3 = r3
    m1 = m1
    alice = alice
    bob = bob
    Request = {r1, r2}
    Manual = {}
    Owner = {alice, bob}
    Holder = {alice}
    Key = {"k1", "k2", "k3"}
    Amount = {1, 2}
    Target = {"EUR", "AED"}
    Routable = {"EUR"}
    Commands <- TwoKeys
    Opening <- Opening3
    OmnibusOpening = 3
    LoadMode = FALSE
    Outcomes <- NoScript
    TimeoutLookup = "UNKNOWN"
    InitialOrdinals = {13, 16}
    BatchLimit = 1
    MaxToken = 4
    MaxFaults = 0
    MaxOutages = 0
PROPERTIES
    EventuallyTerminal
