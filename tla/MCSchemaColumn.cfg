\* One process; a column of the requests cannot be added.
SPECIFICATION SchemaSpec

CONSTANTS
    Processes = {p}

INVARIANT ColumnFailureLocal
