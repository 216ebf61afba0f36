CONSTANTS
    PgClients = {"c1", "c2", "c3"}
    PgIds = {"id"}
SPECIFICATION PostgresSpec
INVARIANT
    ExclusiveHolder
