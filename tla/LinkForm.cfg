CONSTANTS
    s1 = s1
    s2 = s2
    Saves = {s1, s2}
    MaxForms = 3
    MaxLinks = 2
    MaxRows = 2
SPECIFICATION FormSpec
SYMMETRY SaveSymmetry
INVARIANTS
    FormTypeOK
    LinksWhole
    FormKept
