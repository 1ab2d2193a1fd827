\* Settings files, virtual files, times, and native values as messages.
SPECIFICATION Spec
CONSTANTS
    p1 = p1
    p2 = p2
    kx = kx
    ky = ky
    v1 = v1
    v2 = v2
    user = user
    host = host
    share = share
    plugin = plugin
    c1 = c1
    c2 = c2
    Procs = {p1, p2}
    Keys = {kx, ky}
    Scalars = {v1, v2}
    Null = Null
    LocalFolders <- MCLocal
    PreinstalledFolders <- MCPreinstalled
    Extra = plugin
    WritableFolders = {user, plugin}
    Installed <- MCInstalled
    Suffix = Null
    MaxSteps = 6
    Clients = {c1, c2}
    ContextNames = {"tmp", "usb"}
    Removable = {"usb"}
    Writable = {"tmp", "usb"}
    Calls <- MCCalls
    InitialTrees <- MCTrees
    InitialFiles <- MCFiles
    Data <- MCChunks
    MaxVfsCalls <- MCMaxCalls
    MaxContexts = 2
    Thousand = 3
    Minute = 18
    Hour = 36
    Day = 72
    Week = 144
    Month = 144
    Year = 216
    Points <- MCPoints
    Intervals <- MCIntervals
    Timezone <- MCTimezone
    Altzone <- MCAltzone
    SummerFrom = 306
    SummerTo = 504
    MaxMoves = 2
    Values <- MCValues
    Fractions = {"1.5"}
    Negatives = {"-1"}
    Fields <- MCFields
    Inputs <- MCInputs
    Symbols <- MCSymbols
    Enumerations <- MCEnumerations
    MaxCalls = 2
INVARIANTS LocalSettingsHold   TransfersAreWhole TimesReadBack MovesAddUp 
CHECK_DEADLOCK FALSE
