\* A service account with a key and an identity of a provider; two requests at a time.
SPECIFICATION Spec
CONSTANTS
    a1 = a1
    k1 = k1
    p1 = p1
    u1 = u1
    c1 = c1
    c2 = c2
    Account = {a1}
    Key = {k1}
    KeyAccount <- OneKey
    Provider = {p1}
    Identity = {u1}
    ProviderOf <- OneProvider
    Bootstrap = Bootstrap
    RoleName = {"tenant-admin", "viewer", "owner"}
    Role = {"tenant-admin", "viewer"}
    TenantAdmin = "tenant-admin"
    Request = {c1, c2}
    MaxVersion = 2
SYMMETRY RequestSymmetry
INVARIANTS
    AdmittedIsCovered
    OneVerifierPerProvider
PROPERTIES
    ChangesAreAuthorized
CHECK_DEADLOCK FALSE
