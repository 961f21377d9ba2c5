CONSTANTS
    home = home
    away = away
    public = public
    local = local
    Lobbies <- MCLobbies
    Addresses <- MCAddresses
    Listed <- MCListed
    Nowhere = Nowhere
    ConfigLimit = 4
    ResultLimit = 2
SPECIFICATION TesterSpec
PROPERTY LaunchesVerified
PROPERTY VerifiedInTheEnd
