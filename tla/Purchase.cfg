\* Four invoices of two buyers, two handlers at a time, a fault and a restart.
CONSTANTS
    i1 = i1
    i2 = i2
    i3 = i3
    i4 = i4
    customer = customer
    portal = portal
    own = own
    super = super
    NoInvoice = NoInvoice
    Accounts = {customer, portal}
    Sellers = {own, super}
    Procs = {p1, p2}
    OwnerOf <- MCOwnerOf
    SellerOf <- MCSellerOf
    Quantity <- MCQuantity
    Invoices = {i1, i2, i3, i4}
    EvcInvoices = {i3}
    MaxFaults = 1
    MaxCrashes = 1
CHECK_DEADLOCK FALSE
SYMMETRY MCSymmetry
SPECIFICATION Spec
INVARIANTS
    TypeOK
    
    BalancesAddUp
    PaidWasCaptured
