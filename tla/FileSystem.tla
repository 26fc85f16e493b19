----------------------------- MODULE FileSystem -----------------------------
(***************************************************************************)
(* The read-only boot image of filesys.c and the routines that read it:    *)
(* read_dentry_by_name, read_dentry_by_index, inode_length, read_data,     *)
(* fs_read and dir_read.  The image is a constant; a byte of a data block  *)
(* is the token <<block, offset>>, so a byte read is identified by where   *)
(* it came from.  Names are sequences of one-character strings; NUL ends a *)
(* string and never occurs inside one.  All arithmetic on offsets and      *)
(* lengths is the code's uint32_t arithmetic.                              *)
(***************************************************************************)
EXTENDS Integers, Sequences, SequencesExt

CONSTANTS
    BLOCK_SIZE,       \* bytes per data block (filesys.h)
    MAX_FILES,        \* directory entries in the boot block (filesys.h)
    NAME_SIZE,        \* bytes of a dentry name (filesys.h)
    MAX_DATA_NUM,     \* largest inode number read_data accepts (filesys.h)
    NUM_INODES,       \* boot->num_inodes
    NUM_DATA_BLOCKS,  \* boot->num_data_block
    INODE_LENGTH,     \* inode -> inode_t.length
    INODE_BLOCKS,     \* inode -> the used prefix of inode_t.blocks
    BLOCK_FILL,       \* the value of the unused entries of inode_t.blocks
    DIRECTORY,        \* 0..MAX_FILES-1 -> [name, type, inode]
    OOB_NAMES         \* the names the bytes just past the directory can spell

NUL == "\\0"
\* A 32-bit value is held as its int32_t reading, so a uint32_t of 2^32-1
\* is -1; additions of the small values here need no wrap.  ULess is the
\* unsigned comparison the code's uint32_t operands get.
ULess(a, b) == IF (a < 0) = (b < 0) THEN a < b ELSE b < 0

Inodes == DOMAIN INODE_LENGTH

\* inode_length: the length field of inode block inode+1.
InodeLength(inode) == INODE_LENGTH[inode]

\* inode_ptr->blocks[k]: a used entry, or what the image holds after them.
BlockEntry(inode, k) ==
    IF k < Len(INODE_BLOCKS[inode]) THEN INODE_BLOCKS[inode][k + 1] ELSE BLOCK_FILL

\* data[inode_ptr->blocks[pos / BLOCK_SIZE]].data[pos % BLOCK_SIZE]
ByteAt(inode, pos) == <<BlockEntry(inode, pos \div BLOCK_SIZE), pos % BLOCK_SIZE>>

\* What the file holds: bytes 0 .. length-1.
FileContent(inode) == [i \in 1..InodeLength(inode) |-> ByteAt(inode, i - 1)]

(***************************************************************************)
(* read_data's copy loop, one byte per iteration, with its two breaks in   *)
(* the code's order: the block-number check, then position > filelength.   *)
(***************************************************************************)
\* Mutant: the copy takes its source byte at bytesread, not at position.
RECURSIVE CopyLoopFromStart(_, _, _, _, _)
CopyLoopFromStart(inode, position, bytesread, length, buf) ==
    IF ~ULess(bytesread, length)
       \/ BlockEntry(inode, position \div BLOCK_SIZE) >= NUM_DATA_BLOCKS
       \/ position > InodeLength(inode)
    THEN buf
    ELSE CopyLoopFromStart(inode, position + 1, bytesread + 1, length,
                           Append(buf, ByteAt(inode, bytesread)))

RECURSIVE CopyLoop(_, _, _, _, _)
CopyLoop(inode, position, bytesread, length, buf) ==
    IF ~ULess(bytesread, length)
       \/ BlockEntry(inode, position \div BLOCK_SIZE) >= NUM_DATA_BLOCKS
       \/ position > InodeLength(inode)
    THEN buf
    ELSE CopyLoop(inode, position + 1, bytesread + 1, length,
                  Append(buf, ByteAt(inode, position)))

\* read_data(inode, offset, buf, length) with a non-NULL buf: its return
\* value and the bytes it copied.
ReadData(inode, offset, length) ==
    IF length = 0 \/ inode > MAX_DATA_NUM THEN [ret |-> -1, bytes |-> <<>>]
    ELSE IF offset > InodeLength(inode) THEN [ret |-> 0, bytes |-> <<>>]
    ELSE LET len == IF ULess(InodeLength(inode), offset + length)
                    THEN InodeLength(inode) ELSE length
             buf == CopyLoop(inode, offset, 0, len, <<>>)
         IN [ret |-> Len(buf), bytes |-> buf]

\* strncmp(a, b, n) == 0 for NUL-terminated a and b.
Padded(s, n) == [i \in 1..n |-> IF i <= Len(s) THEN s[i] ELSE NUL]
StrnEq(a, b, n) == Padded(a, n) = Padded(b, n)

\* read_dentry_by_name: the first of the MAX_FILES entries whose name agrees
\* with fname in the first NAME_SIZE - 1 bytes, as a set: {} when it
\* returns -1.
ReadDentryByName(fname) ==
    LET hits == {i \in 0..MAX_FILES - 1 : StrnEq(DIRECTORY[i].name, fname, NAME_SIZE - 1)}
    IN IF hits = {} THEN {} ELSE {DIRECTORY[Min(hits)]}

\* read_dentry_by_index: the dentries it may copy, or {NoDentry} when it
\* returns -1 (index > num_inodes).  Past the MAX_FILES entries the boot
\* block ends and the copy reads the next block of the image, whose bytes
\* the constants do not fix.
NoDentry == [name |-> <<>>, type |-> -1, inode |-> -1]
ReadDentryByIndex(index) ==
    IF index > NUM_INODES THEN {NoDentry}
    ELSE IF index < MAX_FILES THEN {DIRECTORY[index]}
    ELSE {[name |-> n, type |-> 0, inode |-> 0] : n \in OOB_NAMES}

\* strlen of a dentry's name: a name of NAME_SIZE bytes has no NUL and runs
\* on into the little-endian type field.
DentryStrlen(d) ==
    IF Len(d.name) < NAME_SIZE THEN Len(d.name)
    ELSE NAME_SIZE + (IF d.type % 256 # 0 THEN 1 ELSE 0)

(***************************************************************************)
(* fs_read and dir_read on a descriptor entry e with a non-NULL buffer.    *)
(* The result is [ret, bytes, pos]: the return value, the bytes copied to  *)
(* the user buffer and the descriptor's file_pos afterwards.               *)
(***************************************************************************)
\* Mutant: file_pos advances by the count asked for, not the count read.
FsReadAdvanceByRequest(e, nbytes) ==
    LET data == ReadData(e.inode_ptr, e.file_pos, nbytes)
    IN IF ReadDentryByIndex(e.inode_ptr) = {NoDentry} \/ data.ret = -1
       THEN [ret |-> -1, bytes |-> <<>>, pos |-> e.file_pos]
       ELSE [ret |-> data.ret, bytes |-> data.bytes, pos |-> e.file_pos + nbytes]

FsRead(e, nbytes) ==
    LET inum == e.inode_ptr
        data == ReadData(inum, e.file_pos, nbytes)
    IN IF ReadDentryByIndex(inum) = {NoDentry} \/ data.ret = -1
       THEN [ret |-> -1, bytes |-> <<>>, pos |-> e.file_pos]
       ELSE [ret |-> data.ret, bytes |-> data.bytes, pos |-> e.file_pos + data.ret]

\* Mutant: dir_read does not store the incremented readpos.
DirReadNoAdvance(e, nbytes, d) ==
    IF d = NoDentry \/ d.name = <<>>
    THEN [ret |-> 0, bytes |-> <<>>, pos |-> e.file_pos]
    ELSE LET n1 == IF ULess(DentryStrlen(d), nbytes) THEN DentryStrlen(d) ELSE nbytes
             n2 == IF n1 > NAME_SIZE THEN NAME_SIZE ELSE n1
         IN [ret |-> n2, bytes |-> SubSeq(d.name, 1, n2), pos |-> e.file_pos]

\* dir_read, for one of the dentries read_dentry_by_index may copy (d).  strlen is unsigned, so a negative nbytes
\* compares as a large count.
DirRead(e, nbytes, d) ==
    IF d = NoDentry \/ d.name = <<>>
    THEN [ret |-> 0, bytes |-> <<>>, pos |-> e.file_pos]
    ELSE LET n1 == IF ULess(DentryStrlen(d), nbytes) THEN DentryStrlen(d) ELSE nbytes
             n2 == IF n1 > NAME_SIZE THEN NAME_SIZE ELSE n1
         IN [ret |-> n2, bytes |-> SubSeq(d.name, 1, n2), pos |-> e.file_pos + 1]
=============================================================================
