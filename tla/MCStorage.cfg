SPECIFICATION Spec
CONSTANTS
    Places = {1}
    Texts <- MCTexts
    Colors = {"red"}
    MaxEdits = 2
    MaxCrashes = 1
    Files <- MCFiles
    JumpLength = 3
    MinCave = 2
    Patches <- MCPatches
    MaxPatches = 2
    Binaries <- MCBinaries
    LowBytes = {0, 2}
    Misread <- MCMisread
INVARIANTS
    IdsAreNew
    SavedComesBack
    OriginalsAreAtTheirAddress
    SavedKeepTheirPlace
    WholeSessionComesBack
