\* Two messages of different lengths for each of the two sockets.
SPECIFICATION FairSpec
CONSTANTS
    SipDatagrams <- MCSipDatagrams
    ClientDatagrams <- MCClientDatagrams
    Descriptors = {3, 4}
    Size = 6
    Capacity = 2
INVARIANTS TypeOK NeverBlocks
PROPERTIES ServesInOrder ServesBoth
