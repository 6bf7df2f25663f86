SPECIFICATION Spec
CONSTANTS
    u2 = u2
    u3 = u3
    g1 = g1
    g2 = g2
    e1 = e1
    e2 = e2
    User = {u1, u2, u3}
    Email = {e1, e2}
    Account = {g1, g2}
    EmailOf <- ProfileEmail
    Request = {r1, r2, r3}
    Admin = u1
    AdminEmail = e1
    None = None
SYMMETRY Symmetry
INVARIANTS EmailIsUnique FreeUntilOvertaken OrphanHasACause SecondCredentialHasACause AccountHasOneUser IndInv
PROPERTIES TokenForActive UndisturbedUpdate
