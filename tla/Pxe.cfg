\* PXE requests of every kind, one after another into the same buffer.
SPECIFICATION Spec
CONSTANTS
    Packets <- MCPackets
    BufLen <- MCBufLen
    Interfaces <- MCInterfaces
    HTTPServer <- MCHTTPServer
INVARIANTS PxeTypeOK PxeInBounds PxeReplyReadsBack
PROPERTIES PxeDecidesRight PxeScanEnds
