SPECIFICATION PluginSpec
CONSTANTS
    Spellings <- MCSpellings
    LiterUnits <- MCLiterUnits
    s1 = s1
    s2 = s2
    Servers <- MCServers
    ChannelList <- MCChannelList
    UnitsOf <- MCUnitsOf
    Undescribed <- MCUndescribed
    RawsOf <- MCRawsOf
    AllSettings <- MCSettings
    MaxPublishers = 2
INVARIANT EveryRowFeedsItsField
CHECK_DEADLOCK FALSE
