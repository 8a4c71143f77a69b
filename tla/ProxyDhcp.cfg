\* DHCP requests of every kind, one after another into the same buffer.
SPECIFICATION Spec
CONSTANTS
    Packets <- MCPackets
    BufLen <- MCBufLen
    Interfaces <- MCInterfaces
INVARIANTS ProxyTypeOK InBounds OfferReadsBack ServesBestAddress
PROPERTIES DecidesRight ScanEnds
