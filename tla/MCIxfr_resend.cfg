SPECIFICATION MCSpec
CONSTANTS
    Zones <- SmallZones
    Cap = 2
    ChanCap = 1
    Oversize = {}
    MaxOut = 8
    Kinds = {"IXFR"}
    IxTransfers <- IxfrDiffs
    IxOversize <- IxfrBigRecord
    CompatModes = {FALSE}
INVARIANT IxfrStreamIsDiff
