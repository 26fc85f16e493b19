-------------------------- MODULE MCFileDescriptors --------------------------
(***************************************************************************)
(* A small boot image and small input sets for FileDescriptors.            *)
(*                                                                         *)
(* Blocks of 2 bytes; three data blocks.  Inode 0 is a 3-byte file in      *)
(* blocks 0 and 1, so its end falls inside a block; inode 1 is a 2-byte    *)
(* file filling block 2, so its end falls on a block boundary and the next *)
(* entry of its block list is the zero fill.  The directory has five       *)
(* entries, as the real one has 63: ".", the RTC, the 3-byte file under a  *)
(* name of the full NAME_SIZE, the 2-byte program "g", and an empty entry. *)
(* num_inodes exceeds the directory size by one, as 64 exceeds 63.        *)
(***************************************************************************)
EXTENDS FileDescriptors

MC_BLOCK_SIZE == 2
MC_MAX_FILES == 5
MC_NAME_SIZE == 3
MC_MAX_DATA_NUM == 1023
MC_NUM_INODES == 6
MC_NUM_DATA_BLOCKS == 3
MC_INODE_LENGTH == [i \in 0..MC_NUM_INODES - 1 |-> CASE i = 0 -> 3 [] i = 1 -> 2 [] OTHER -> 0]
MC_INODE_BLOCKS == [i \in 0..MC_NUM_INODES - 1 |-> CASE i = 0 -> <<0, 1>> [] i = 1 -> <<2>> [] OTHER -> <<>>]
MC_BLOCK_FILL == 0

Dentry(name, type, inode) == [name |-> name, type |-> type, inode |-> inode]
MC_DIRECTORY ==
    (0 :> Dentry(<<".">>, 1, 0)) @@ (1 :> Dentry(<<"r">>, 0, 0))
    @@ (2 :> Dentry(<<"f", "a", "b">>, 2, 0)) @@ (3 :> Dentry(<<"g">>, 2, 1))
    @@ (4 :> Dentry(<<>>, 0, 0))
MC_OOB_NAMES == {<<>>, <<"?">>}

MC_FOPS_NUM == 4
MC_BUFFASIZE == 4
MC_EXECUTABLE == {1}
\* "g" alone on a clean buffer, "g" over the stale tail of a longer line,
\* "g a", "g %", an empty line, a missing program and a non-ELF file.
MC_COMMANDS ==
    { <<"g", NUL, NUL, NUL>>, <<"g", NUL, " ", "a">>, <<"g", " ", "a", NUL>>,
      <<"g", " ", "%", NUL>>, <<NUL, NUL, NUL, NUL>>, <<"x", NUL, NUL, NUL>>,
      <<"f", "a", "b", NUL>> }
\* Every entry's name, a name that agrees with "fab" only in its first
\* NAME_SIZE-1 bytes, a missing name and the empty name.
MC_OPEN_NAMES == { <<".">>, <<"r">>, <<"f", "a", "b">>, <<"g">>,
                   <<"f", "a", "x">>, <<"x">>, <<>> }
MC_NBYTES == {-1, 0, 1}
MC_RTC_VALUES == {3, 4, 512}
MC_POINTERS == {0, USER_PAGE, PROGADDR, USER_PAGE + FOUR_MB - 4, PROGADDR + FOUR_MB}
====
