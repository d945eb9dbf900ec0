SPECIFICATION Spec
CONSTANTS
    Sessions = {s1, s2, s3, s4, s5}
    Editors = {e1}
    None = None
    Settings = {on, off}
    MaxChanges = 2
    MaxBreaks = 2
    MaxRestarts = 1
INVARIANTS TypeOK
