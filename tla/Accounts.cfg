\* Two accounts of any role, two addresses, two handlers.
\* Failures and restarts are not bounded.
CONSTANTS
    NoEmail = NoEmail
    NoAccount = NoAccount
    Procs = {p1, p2}
    Accounts = {a1, a2}
    Emails = {e1, e2}
CHECK_DEADLOCK FALSE
SPECIFICATION Spec
SYMMETRY MCSymmetry
INVARIANTS
    TypeOK
    AccountsPaired
    AddressesAgree
