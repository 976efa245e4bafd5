SPECIFICATION MCSpec
CONSTANTS
    Zones <- LimitZones
    Cap = 2
    ChanCap = 1
    Oversize <- BigRecord
    MaxOut = 8
    Kinds = {"AXFR", "IXFR"}
    IxTransfers <- IxfrDiffs
    IxOversize <- IxfrBigRecord
    CompatModes = {FALSE, TRUE}
INVARIANT TypeOK MessageWithinLimits IxfrClosedBySoa
