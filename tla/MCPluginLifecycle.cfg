SPECIFICATION PluginSpec
CONSTANTS
    Spellings <- MCSpellings
    LiterUnits <- MCLiterUnits
    s1 = s1
    s2 = s2
    Servers <- MCServers
    ChannelList <- MCChannelList
    UnitsOf <- MCUnitsOf
    Undescribed <- MCUndescribed
    RawsOf <- MCRawsOf
    AllSettings <- MCSettings
    MaxPublishers = 2
SYMMETRY ServerSymmetry
INVARIANT OnlyCurrentLives
INVARIANT UnitsReachTheMapper
INVARIANT ModesAgree
CHECK_DEADLOCK FALSE
