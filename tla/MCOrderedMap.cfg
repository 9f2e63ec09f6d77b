SPECIFICATION FairSpec
CONSTANTS
    k1 = k1  k2 = k2
    Zero = Zero  NegZero = NegZero
    NoKey = NoKey  NoVal = NoVal
    Keys = {Zero, NegZero, k1, k2}
    Vals = {v1}
    Iters = {i1, i2}
    Hashes <- MCHashes
    Hash <- MCHash
    MaxEntries = 4
INVARIANTS
    IndInv
    SizeIsLive
PROPERTIES
    ImplementsMapData
    NextReturns
