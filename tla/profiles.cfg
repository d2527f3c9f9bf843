SPECIFICATION Spec
CONSTANTS
    Raw <- MCRaw
    Clean <- MCClean
    Bare <- MCBare
    Fold <- MCFold
    Content <- MCContent
    Broken <- MCBroken
    MaxPlaced = 1
INVARIANTS
    NamesDistinct
    ImportedIsFound
    DeletedIsGone
    ListMatchesStore
