SPECIFICATION FairSpec
CONSTANTS
    FileLen = 9
    Offsets <- At
    ImgLen = 4
    SigLen = 2
    HdrMin = 3
    HdrBuf = 6
    Packets = {1, 2, 3, 4, 5}
    ChunkLen = 6
    ChunkRetries = 2
    ConnRetries = 2
    Files = {"good"}
    MaxOtas = 1
    MaxFaults = 2
PROPERTIES OtaEnds
CHECK_DEADLOCK FALSE
