\* fs_lseek at fs.c:620 on a file opened write-only (MODE_RDWR has the RDONLY
\* bit and stops at FSE_EOF first): SET 0 and END+1 seeks.
CONSTANTS
    t1 = t1
    t2 = t2
    Tasks = {t1}
    BITMAP_BITS = 3
    MAX_INODES = 512
    NDATA = 3
    INODE_NDIRECT = 2
    BLOCK_SIZE = 5
    MAX_FILESIZE = 4
    MAX_OPEN_FILES = 1
    MAX_NLINKS = 3
    OpenNames <-FileNames
    DirNames <-NoNames
    LinkNames <-NoNames
    UnlinkNames <-NoNames
    Modes <- CreateWronly
    WriteSizes = {1}
    ReadSizes = {}
    Seeks <-SeekPastEnd
    LeftFirst = TRUE
    Reboots = TRUE

SPECIFICATION Spec

PROPERTY
    LseekExtends

CHECK_DEADLOCK FALSE
