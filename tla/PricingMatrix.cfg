\* Types and solutions come and go while a portal is created, prices are
\* updated, a customer arrives and a call fails.
CONSTANTS
    a1 = a1
    a2 = a2
    d1 = d1
    d2 = d2
    t1 = t1
    NoDoc = NoDoc
    Admins = {a1, a2}
    Types = {d1, d2, t1}
    FirstAdmins = {a1}
    Solutions = {s1}
    Customers = {c1}
    AdminOf <- MCAdminOf
    DefaultOf <- MCDefaultOf
    Procs = {p1, p2}
    MaxUpdates = 2
    MaxFaults = 1
CHECK_DEADLOCK FALSE
SPECIFICATION Spec
SYMMETRY MCSymmetry
INVARIANTS
    TypeOK
    
    FilesPriced
