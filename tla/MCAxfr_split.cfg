SPECIFICATION MCSpec
CONSTANTS
    Zones <- SplitZones
    Cap = 2
    ChanCap = 2
    Oversize = {}
    MaxOut = 8
    Kinds = {"AXFR"}
    IxTransfers <- IxfrNone
    IxOversize = {}
    CompatModes = {FALSE}
INVARIANT StreamIsZone
