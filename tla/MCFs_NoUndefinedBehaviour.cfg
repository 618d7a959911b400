\* One open-file slot and two opens.
CONSTANTS
    t1 = t1
    t2 = t2
    Tasks = {t1}
    BITMAP_BITS = 3
    MAX_INODES = 512
    NDATA = 3
    INODE_NDIRECT = 2
    BLOCK_SIZE = 5
    MAX_FILESIZE = 4
    MAX_OPEN_FILES = 1
    MAX_NLINKS = 3
    OpenNames <-FileNames
    DirNames <-NoNames
    LinkNames <-NoNames
    UnlinkNames <-NoNames
    Modes <-CreateRdwr
    WriteSizes = {}
    ReadSizes = {}
    Seeks <-NoSeeks
    LeftFirst = TRUE
    Reboots = TRUE

SPECIFICATION Spec

INVARIANT
    NoUndefinedBehaviour

CHECK_DEADLOCK FALSE
