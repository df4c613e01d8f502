SPECIFICATION Spec
CONSTANTS
    Addresses = {ann, bob}
    ann = ann
    bob = bob
    LastId = 2
    Requests = {r1, r2}
    r1 = r1
    r2 = r2
SYMMETRY Interchangeable
PROPERTIES
    OnlyThosePutBack
