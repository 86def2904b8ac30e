\* PostgreSQL: three requests of two tenants, one run under review.
SPECIFICATION CustodySpec
CONSTANTS
    acme = acme
    other = other
    run1 = run1
    Tenant <- MCTenant
    TenantOf <- MCTenantOf
    TaxRun = {run1}
    Session = {s1, s2, s3}
    Instant = {t0}
    Postgres = TRUE
    MaxId = 3
    None = None
SYMMETRY Interchangeable
INVARIANTS
    CustodyTypeOK
    ChainIntact
    PreservedIsReadable
    TrailIsPrefix
    DecisionIsPackaged
PROPERTY
    GrowsAtTheEnd
