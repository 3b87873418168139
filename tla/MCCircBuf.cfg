SPECIFICATION Spec
CONSTANTS
    Items = {p1, p2, p3}
    NoItem = NoItem
    Slots = 3
INVARIANT TypeOK
PROPERTY Refines
