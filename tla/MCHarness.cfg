SPECIFICATION Spec
CONSTANTS
    Scripts <- MCScripts
    MaxVisits = 1
INVARIANTS
    Undisturbed
    LinksFound
    FoundIsFollowed
    DocsFound
    Fits
CHECK_DEADLOCK FALSE
