SPECIFICATION Spec
CONSTANTS
    DaysPerMonth = 2
    MonthsPerYear = 2
    Absent = Absent
    Null = Null
    Requests <- AllRequests
    MaxTries = 2
    MaxFaults = 2
INVARIANTS
    HorizonCovered
    ProductsTellThePrimary
    ValidatedPassesTheCheck
    ReplayConverges
    CustodyIsWhole
