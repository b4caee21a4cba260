CONSTANTS
    S = 2
    IndexRange = 6
    N = 3
    Values = {1, 2}
    Junk = junk
    MaxReadings = 4
    MaxDuration = 3
    SampleTimes = {1, 2}
    MaxDivision = 3
    Oversample = 2
    Quality = 3
    Zeros = 2
    Samples = {0, 1}
    MaxJumps = 2
    PortMaxChannels = 3
    PortVolts = {0, 5}
    Resamplers = {r1, r2}
    NoResampler = none
    MaxSrcChannels = 2
    Qualities = {1, 2}
    Rates = {1, 2}
    DefaultQuality = 1
    DefaultRate = 1
    NumInfos = 2
    NumInputs = 2
    NumOutputs = 2
    Objects = {o1, o2, o3}
    NoObject = none
    Data = {0, 64}
    MaxPayload = 8
    BlockSize = 2
    KernelLengths = {0, 1, 3, 5}
SPECIFICATION HelpersSpec
INVARIANTS
    HelpersTypeOK
    Mirrored
    TriggersOncePerCrossing
    OncePerDivision
    FiltersConvolve
    ConvolvesInBlocks
    ConvertsAsAsked
    InfosOwnTheirObjects
    FirstRouteStays
    PayloadArrives
PROPERTIES
    ImplementsQueue
    AppleIsQueue
    MovesAreRare
    LastsAsAsked
    OverlapAdd
    LikeNativeJack
