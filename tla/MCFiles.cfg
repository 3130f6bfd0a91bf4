SPECIFICATION FilesSpec
CONSTANTS
    NBlocks = 3
    NInodes = 2
    BITS = 2
    BLOCK_SIZE = 2
    DIRECT_BLOCKS = 2
    n1 = n1
    n2 = n2
    n3 = n3
    d1 = d1
    d2 = d2
    Zero = Zero
    Name <- MCName1
    Datum <- MCDatum2
    MaxWrite = 3
    Path <- MCPath
    Boot <- MCBoot
    Image <- MCImage
    SeekArg <- MCSeekArg
    MAX_IO = 1
    Byte = {1}
    MaxFd = 4
    MaxSize = 2
INVARIANTS DataDurable NoHoles
PROPERTIES IsFileSystem
SYMMETRY MCSymmetry
