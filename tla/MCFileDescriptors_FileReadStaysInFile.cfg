CONSTANTS
    BLOCK_SIZE <- MC_BLOCK_SIZE
    MAX_FILES <- MC_MAX_FILES
    NAME_SIZE <- MC_NAME_SIZE
    MAX_DATA_NUM <- MC_MAX_DATA_NUM
    NUM_INODES <- MC_NUM_INODES
    NUM_DATA_BLOCKS <- MC_NUM_DATA_BLOCKS
    INODE_LENGTH <- MC_INODE_LENGTH
    INODE_BLOCKS <- MC_INODE_BLOCKS
    BLOCK_FILL <- MC_BLOCK_FILL
    DIRECTORY <- MC_DIRECTORY
    OOB_NAMES <- MC_OOB_NAMES
    FOPS_NUM <- MC_FOPS_NUM
    BUFFASIZE <- MC_BUFFASIZE
    EXECUTABLE <- MC_EXECUTABLE
    COMMANDS <- MC_COMMANDS
    OPEN_NAMES <- MC_OPEN_NAMES
    NBYTES <- MC_NBYTES
    RTC_VALUES <- MC_RTC_VALUES
    POINTERS <- MC_POINTERS
SPECIFICATION Spec
INVARIANT FileReadStaysInFile
