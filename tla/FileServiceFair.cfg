\* Liveness: no restart, fair handlers and queues.
CONSTANTS
    c1 = c1
    a1 = a1
    NoFile = NoFile
    Files = {f1}
    Procs = {p1, p2}
    Customers = {c1}
    Admins = {a1}
    SuperAdmins = {}
    CustomerOf <- MCCustomerOf
    AdminOf <- MCAdminOf
    Price <- MCPrice
    AdminPrice <- MCAdminPrice
    InitialCredits = {2}
    MaxRequests = 3
    MaxCrashes = 0
CHECK_DEADLOCK FALSE
SPECIFICATION FairSpec
PROPERTIES
    PipelineSettles
    HandlersReturn
