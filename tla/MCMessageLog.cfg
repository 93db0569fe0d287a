SPECIFICATION FairSpec
CONSTANTS
    c1 = c1
    c2 = c2
    m1 = m1
    m2 = m2
    h1 = h1
    h2 = h2
    NoSubnet = NoSubnet
    Cell = {c1, c2}
    Remote = {c1}
    Exempt = {}
    Message = {m1, m2, h1, h2}
    Herald = {h1, h2}
    CellOf <- MCCellOf
    Packets <- MCPackets
    QueueSize = 1
    MaxAge = 0
    Grants <- MCGrants
    MaxCopies <- MCMaxCopies
    WordMod = 8
INVARIANTS WholeMessage UsesUpItsPackets NoTwins QueueLenIsLength
PROPERTIES CapStaysALimit LogDrains
