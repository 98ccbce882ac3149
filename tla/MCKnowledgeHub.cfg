CONSTANTS
    Ids = {d1, d2, d3}
    Terms = {"a", "b"}
    Tags = {"x"}
    Texts <- MCTexts
    NoDoc = NoDoc
SPECIFICATION Spec
SYMMETRY Symmetry
INVARIANTS
    StaleOnlyFromOverwrites
    FoundUnlessStale
    CutIsFair
