SPECIFICATION Spec
CONSTANTS
    opened = opened
    one = one
    two = two
    None = None
    Texts <- MCTexts
    Opened = opened
    MaxEdits = 2
    MaxOutside = 1
    MaxFaults = 1
INVARIANTS SaveInv CleanIsSaved
PROPERTIES OthersKept LocalKept SaveSettles ChangeSurfaces
