CONSTANTS
    Capacity = 3
    Entries = {v1, v2}
    Junk = junk
    Drift = 4
SPECIFICATION Spec
PROPERTY IsBoundedSequence
