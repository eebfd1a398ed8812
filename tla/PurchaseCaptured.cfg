\* Two invoices of one customer, two handlers at a time, without faults.
CONSTANTS
    i1 = i1
    i2 = i2
    i3 = i3
    i4 = i4
    customer = customer
    portal = portal
    own = own
    super = super
    NoInvoice = NoInvoice
    Accounts = {customer, portal}
    Sellers = {own, super}
    Procs = {p1, p2}
    OwnerOf <- MCOwnerOf
    SellerOf <- MCSellerOf
    Quantity <- MCQuantity
    Invoices = {i1, i2}
    EvcInvoices = {}
    MaxFaults = 0
    MaxCrashes = 0
CHECK_DEADLOCK FALSE
SPECIFICATION FairSpec
PROPERTY CapturedIsCredited
