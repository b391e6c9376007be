SPECIFICATION Spec
CONSTANTS
    Persons = {a, b}
    Lids = {a}
    Tasks = {t1, t2}
    MaxSets = 2
    MaxFaults = 1
SYMMETRY Symmetry
INVARIANTS
    ContactsKept
    PersonOnce
CHECK_DEADLOCK FALSE
