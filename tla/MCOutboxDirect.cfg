SPECIFICATION Spec
CONSTANTS
    u1 = u1
    u2 = u2
    u3 = u3
    u4 = u4
    s1 = s1
    d1 = d1
    d2 = d2
    None = None
    Boot = Boot
    Update <- Five
    Document = {d1, d2}
    Touches <- FiveTouch
    Direct = {s1}
    MaxFaults = 2
PROPERTIES
    DirectSaveStays
CHECK_DEADLOCK FALSE
