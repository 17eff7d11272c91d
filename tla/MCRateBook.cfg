SPECIFICATION Spec
CONSTANTS
    Currency = {1, 2, 3, 4, 5}
    USD = 4
    LP = {1, 2, 3}
    InvalidRate = InvalidRate
    RaisesError = RaisesError
    Request = {"r1", "r2"}
    Target = {2, 3}
    MaxVersion = 8
    Factories <- Injected
INVARIANTS
    TypeOK
    RowsAreReproducible
    LastGoodSnapshot
    GeneratedRoutesAreDirect
PROPERTIES
    VersionsAdvanceByOne
    RatesKeepMoving
