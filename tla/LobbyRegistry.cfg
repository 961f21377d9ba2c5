\* Two games with two passwords, so that they may or may not use the same
\* one; each session can be touched twice.
CONSTANTS
    Nil = "none"
    Games = {"e1", "e2"}
    Passwords = {"h1", "h2"}
    MaxGames = 2
    TouchLimit = 2
SPECIFICATION RegistrySpec
INVARIANTS
    PasswordHeld
    NothingOutlivesShutdown
PROPERTIES
    SparesTheBusy
    IdleSessionEnds
    ShutdownReturns
