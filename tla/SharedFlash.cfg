SPECIFICATION Spec
CONSTANTS
    Nobody = Nobody
    MaxOps = 3
INVARIANTS CommandsPrivileged PrivilegeKept MaskedImageAlone  RecordsKept
PROPERTY RebootHappens
CHECK_DEADLOCK FALSE
