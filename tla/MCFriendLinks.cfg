\* Two people, three API requests in flight, both may remove each other.
CONSTANTS
    Users = {alice, bob}
    Removers = {alice, bob}
    Requests = {r1, r2, r3}
    MaxRows = 4
SYMMETRY Symmetry
SPECIFICATION Spec
INVARIANTS
    ConsentOfBoth
    MutualUnlessRaced
