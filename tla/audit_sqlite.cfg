\* SQLite: two requests of one tenant that read before they write.
SPECIFICATION Spec
CONSTANTS
    Tenant = {t1}
    Session = {s1, s2}
    Postgres = FALSE
    MaxId = 3
INVARIANT
    ChainIntact
