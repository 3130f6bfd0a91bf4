SPECIFICATION Spec
CONSTANTS
    NBlocks = 3
    NInodes = 5
    BITS = 2
    BLOCK_SIZE = 1
    DIRECT_BLOCKS = 2
    n1 = n1
    n2 = n2
    n3 = n3
    d1 = d1
    d2 = d2
    Zero = Zero
    Name <- MCName3
    Datum <- MCDatum1
    MaxWrite = 1
INVARIANTS TypeOK BlocksOwned NoDangling DirectoryDurable
SYMMETRY MCSymmetry
