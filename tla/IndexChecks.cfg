CONSTANTS
    Names = {a, b}
    MaxDepth = 2
    MaxRoots = 3
SPECIFICATION Spec
INVARIANTS MatchesIsCoverage KeysArePaths RenameCarriesCoverage
