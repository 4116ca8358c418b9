SPECIFICATION Spec
CONSTANTS
    Reader = {r1, r2}
    Authority = {a1}
    Absence = Absence
    None = None
    MaxGeneration = 4
INVARIANTS StaleIsInvalid NoLostChange
