CONSTANTS
    Entries = 3
    TableCount = 2
    PageSize = 4
    VAddrs = {0, 5, 13, 20, 32}
    PAddrs = {9, 20}
    FlagWords = {3, 6}
    TlbSize = 1
SPECIFICATION PagingSpec
INVARIANTS PagingTypeOK TlbCoherent
PROPERTY ImplementsAddressMap
