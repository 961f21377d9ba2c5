\* Two slots, and a third token: the guest's slot can be freed and taken by
\* another.  Eight revisions leave room for that, two documents, a report by
\* each player and the start.
CONSTANTS
    Players = 2
    Hashes = {h1, h2}
    Rests = {r}
    None = None
    Watchers = {w1}
    TokenLimit = 3
    RevisionLimit = 8
SPECIFICATION Spec
INVARIANTS
    StartedAgreed
    RevisionTellsAll
PROPERTIES
    WaitersWake
