SPECIFICATION Spec
CONSTANTS
    Procs = {3, 4}
    NumFds = 4
    Names <- MCNames
    Opens <- MCOpens
    Type <- MCType
    Inode <- MCInode
    Size <- MCSize
    DirCount = 2
    Lengths = {1, 2}
    Preempt = FALSE
INVARIANTS TypeOK HeldFaithful NoFileTwice ReadsInOrder
PROPERTY OwnTableOnly
