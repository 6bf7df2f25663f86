SPECIFICATION Spec
CONSTANTS
    u1 = u1
    i1 = i1
    i2 = i2
    i3 = i3
    p1 = p1
    p2 = p2
    c1 = c1
    c2 = c2
    User = {u1, u2}
    Role = {i1, i2, i3}
    PermissionId = {p1, p2}
    Code = {c1, c2}
    Request = {r1, r2, r3}
    SeedCode = {c1}
    SeedLink <- Administrators
    Seeded = {i1}
    SeededLink <- OneAdmin
    Sent <- Lists
    RequiredBy <- Metadata
    None = None
SYMMETRY Symmetry
INVARIANTS DuplicateLinkHasACause SameCodeHasACause LinksRefer IndInv
PROPERTIES VerdictHasAMoment UndisturbedReplacement
