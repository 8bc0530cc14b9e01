SPECIFICATION FairSpec
CONSTANTS
    FileLen = 9
    Offsets <- At
    ImgLen = 4
    SigLen = 2
    HdrMin = 3
    HdrBuf = 6
    Packets = {1, 2, 3, 4, 5}
    ChunkLen = 6
    ChunkRetries = 3
    ConnRetries = 3
    Files = {"good", "badsum", "badhdr", "module"}
    MaxOtas = 3
    MaxFaults = 2
INVARIANTS InStep SignedIsWhole
PROPERTIES ResetsIntoImage OtaEnds
CHECK_DEADLOCK FALSE
