SPECIFICATION MCSpec
CONSTANTS
    Zones <- SmallZones
    Cap = 6
    ChanCap = 2
    Oversize = {}
    MaxOut = 8
    Kinds = {"AXFR"}
    IxTransfers <- IxfrNone
    IxOversize = {}
    CompatModes = {FALSE}
PROPERTY AxfrRefinement
