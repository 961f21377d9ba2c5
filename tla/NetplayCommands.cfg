\* One game announced by another operator and two of the launcher's own, each
\* on a server of its own, in the same one or elsewhere; four commands, of
\* which creating a game counts twice. The launcher is idle in the end.
CONSTANTS
    None = None
    Announced = {theirs}
    Own = {first, second}
    Servers = {server, another}
    theirs = theirs
    first = first
    second = second
    server = server
    another = another
    CommandLimit = 4
SPECIFICATION Spec
INVARIANTS
    SlotsAccounted
    FollowsLatest
    ServersHaveReason
PROPERTIES
    PlayKeepsServer
    JoinsEnd
CHECK_DEADLOCK FALSE
