\* One upload, two handlers at a time, four requests and a restart: every
\* interleaving of two handlers on the same document.
CONSTANTS
    c1 = c1
    a1 = a1
    NoFile = NoFile
    Files = {f1}
    Procs = {p1, p2}
    Customers = {c1}
    Admins = {a1}
    SuperAdmins = {}
    CustomerOf <- MCCustomerOf
    AdminOf <- MCAdminOf
    Price <- MCPrice
    AdminPrice <- MCAdminPrice
    InitialCredits = {1, 2}
    MaxRequests = 4
    MaxCrashes = 1
CHECK_DEADLOCK FALSE
SYMMETRY MCSymmetry
SPECIFICATION Spec
INVARIANTS
    TypeOK
    ChargesPaired
    PaidWasCharged
    DeliveredIsSettled
    PreparedOnce
    OverdraftBounded
PROPERTIES
    RemovedForGood
    LedgerSpec
