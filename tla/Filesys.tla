-------------------------------- MODULE Filesys --------------------------------
(***************************************************************************)
(* The read-only file system image, student-distrib/filesys.c, and what    *)
(* system_execute of syscall.c does with a command before it claims a slot: *)
(* the block walk of read_data, the look-up of names, completion, and the  *)
(* split of a command into a name and its arguments.                       *)
(*                                                                         *)
(* The functions keep nothing from one call to the next, so a behaviour is *)
(* one call, as in Lib.  read_data is a machine with its loop variables;   *)
(* the look-ups are functions.                                             *)
(***************************************************************************)
EXTENDS Lib

CONSTANTS BlockSize,  \* FOUR_KB
          NameLen,    \* MAX_FILE_LEN, FILE_TYPE_OFFSET
          NumDirs,    \* BOOT_NUM_DIRS
          LineSize,   \* BUFSIZE of the line that is completed
          MaxBlock,   \* MAX_DATA_BLK_IDX
          InodeCount, \* inode_count of the boot block
          Dir,        \* the names in the boot block, in order
          Disk        \* Disk[b]: the bytes of data block b

NUL   == "nul"
Space == " "

\* Names: no NUL in them.
Names == Seq(STRING \ {NUL})

ASSUME FilesysAssumption ==
    /\ BlockSize \in Nat \ {0} /\ NameLen \in Nat \ {0}
    /\ NumDirs \in Nat /\ Len(Dir) < NumDirs
    /\ LineSize \in Nat \ {0} /\ MaxBlock \in Nat /\ InodeCount \in Nat
    /\ Dir \in Seq(Names) /\ \A k \in 1 .. Len(Dir) : Len(Dir[k]) \in 1 .. NameLen
    /\ \A b \in 0 .. MaxBlock : Len(Disk[b]) = BlockSize

\* The table of an inode has the blocks of its file; a line fits its buffer.
ASSUME FsCallsAssumption ==
    \A c \in Calls :
        /\ c.fn = "read_data" =>
               /\ c.inode \in Nat /\ c.size \in Nat /\ c.offset \in Nat /\ c.length \in Nat
               /\ c.blocks \in Seq(Nat) /\ c.size <= Len(c.blocks) * BlockSize
        /\ c.fn = "open" => c.name \in Names
        /\ c.fn = "fs_search" => c.line \in Names /\ Len(c.line) < LineSize
        /\ c.fn = "execute" => c.command \in Seq(STRING)

VARIABLES i, j,         \* read_data: the block and the byte in it
          offset_left, data_left,
          buf           \* what it has delivered

loop == << i, j, offset_left, data_left, buf >>

FsInit ==
    /\ i = 0 /\ j = 0
    /\ offset_left = 0 /\ data_left = 0
    /\ buf = << >>

-----------------------------------------------------------------------------
(* read_data(inode, offset, buf, length): call.size is the length of the    *)
(* inode and call.blocks its table.  The check lets the number InodeCount   *)
(* pass, behind the last inode: size and table are then the words of the    *)
(* first data block.                                                        *)

\* What is left to copy: a read that ends behind the file is cut.
Cut(offset, length, size) == IF offset + length > size THEN size - offset ELSE length

num_blocks_Down(bytes) == bytes \div BlockSize
num_blocks(bytes) ==
    IF bytes % BlockSize = 0 THEN bytes \div BlockSize ELSE bytes \div BlockSize + 1

Blocks == num_blocks(Cut(call.offset, call.length, call.size) + call.offset)

ReadRefused ==
    /\ at = "call" /\ call.fn = "read_data"
    /\ call.inode > InodeCount
    /\ Returned(-1)
    /\ UNCHANGED << call, loop >>

ReadStart ==
    /\ at = "call" /\ call.fn = "read_data"
    /\ call.inode <= InodeCount
    /\ data_left' = Cut(call.offset, call.length, call.size)
    /\ offset_left' = call.offset
    /\ at' = "block"
    /\ UNCHANGED << call, i, j, buf, res >>

\* The head of the loop over the blocks.
ReadBlock ==
    /\ at = "block"
    /\ j' = 0
    /\ \/ /\ i = Blocks
          /\ Returned(Len(buf))
          /\ UNCHANGED << i, offset_left >>
       \/ /\ i < Blocks
          /\ call.blocks[i + 1] > MaxBlock
          /\ Returned(-1)
          /\ UNCHANGED << i, offset_left >>
       \/ /\ i < Blocks
          /\ call.blocks[i + 1] <= MaxBlock
          /\ IF offset_left > BlockSize
             THEN /\ offset_left' = offset_left - BlockSize
                  /\ i' = i + 1
                  /\ UNCHANGED at
             ELSE /\ at' = "byte"
                  /\ UNCHANGED << i, offset_left >>
          /\ UNCHANGED res
    /\ UNCHANGED << call, data_left, buf >>

\* The loop over the bytes of a block.
ReadByte ==
    /\ at = "byte"
    /\ \/ /\ j < BlockSize /\ data_left > 0 /\ offset_left > 0
          /\ offset_left' = offset_left - 1
          /\ j' = j + 1
          /\ UNCHANGED << i, data_left, buf, at >>
       \/ /\ j < BlockSize /\ data_left > 0 /\ offset_left <= 0
          /\ buf' = Append(buf, Disk[call.blocks[i + 1]][j + 1])
          /\ data_left' = data_left - 1
          /\ j' = j + 1
          /\ UNCHANGED << i, offset_left, at >>
       \/ /\ j = BlockSize \/ data_left <= 0
          /\ i' = i + 1
          /\ at' = "block"
          /\ UNCHANGED << j, offset_left, data_left, buf >>
    /\ UNCHANGED << call, res >>

-----------------------------------------------------------------------------
(* Names.  A string is read as the C array it is in, NUL behind its end.     *)

Chr(s, k) == IF k < Len(s) THEN s[k + 1] ELSE NUL

\* The name of an entry; the entries behind the last one are empty.
filename(index) == IF index < Len(Dir) THEN Dir[index + 1] ELSE << >>

matches_Prefix(f, g) ==
    \E m \in 0 .. NameLen :
        Chr(f, m) = NUL /\ \A k \in 0 .. m - 1 : Chr(f, k) = Chr(g, k)

\* The loop over the characters of a name and an entry ends at m: they agree so
\* far, and the name ends there or with the last character of an entry.
matches(f, g) ==
    \E m \in 0 .. NameLen - 1 :
        /\ \A k \in 0 .. m : Chr(f, k) = Chr(g, k)
        /\ Chr(f, m) = NUL \/ (m = NameLen - 1 /\ Chr(f, m + 1) = NUL)

\* The first entry that matches, or -1.
first_match(f) ==
    LET found == {k \in 0 .. NumDirs - 1 : matches(f, filename(k))}
    IN  IF found = {} THEN -1 ELSE Min(found)

read_dentry_by_name(f) == IF Len(f) > NameLen THEN -1 ELSE first_match(f)

get_filetype(f) == IF Len(f) > NameLen \/ Len(f) = 0 THEN -1 ELSE first_match(f)

\* system_open looks a name up twice: for its type, then for its inode.
Lookup ==
    /\ at = "call" /\ call.fn = "open"
    /\ Returned(<< get_filetype(call.name), read_dentry_by_name(call.name) >>)
    /\ UNCHANGED << call, loop >>

-----------------------------------------------------------------------------
(* fs_search: the last word of a line is completed to the first longer name *)

\* Where the last word begins: the scan goes down to a space.
word_start(s) == Max({0} \cup {k \in 1 .. Len(s) : s[k] = Space})

\* The loop over the characters of an entry ends at m: the line ends inside of
\* the name, and they agree so far.
extends(g, s, start) ==
    \E m \in 0 .. NameLen - 1 :
        /\ start + m = Len(s) /\ Chr(g, m) # NUL
        /\ \A k \in 0 .. m - 1 : Chr(g, k) = s[start + k + 1]

room_Any(s) == NameLen
\* How many characters the line can take.
room(s) == LineSize - 1 - Len(s)

fs_search(s) ==
    LET start == word_start(s)
        found == {k \in 1 .. Len(Dir) : extends(Dir[k], s, start)}
        name  == Dir[Min(found)]
        rest  == SubSeq(name, Len(s) - start + 1, Len(name))
    IN  IF s = << >> \/ s[Len(s)] = Space \/ found = {} THEN s
        ELSE s \o SubSeq(rest, 1, Min({Len(rest), room(s)}))

Complete ==
    /\ at = "call" /\ call.fn = "fs_search"
    /\ Returned(fs_search(call.line))
    /\ UNCHANGED << call, loop >>

-----------------------------------------------------------------------------
(* system_execute: the command and its arguments *)

\* The first position from k that holds no space, and that holds one or ends.
skip(s, k) == Min({n \in k .. Len(s) + 1 : n > Len(s) \/ s[n] # Space})
word(s, k) == Min({n \in k .. Len(s) + 1 : n > Len(s) \/ s[n] = Space})

parse_KeepsSpace(s) ==
    LET b == skip(s, 1)
        e == word(s, b)
    IN  << SubSeq(s, b, e - 1), SubSeq(s, e, Len(s)) >>

parse(s) ==
    LET b == skip(s, 1)
        e == word(s, b)
    IN  << SubSeq(s, b, e - 1), SubSeq(s, skip(s, e), Len(s)) >>

Parse ==
    /\ at = "call" /\ call.fn = "execute"
    /\ Returned(parse(call.command))
    /\ UNCHANGED << call, loop >>

FsNext ==
    /\ \/ ReadRefused \/ ReadStart \/ ReadBlock \/ ReadByte
       \/ Lookup \/ Complete \/ Parse
    /\ UNCHANGED copyvars

-----------------------------------------------------------------------------
(* Properties *)

\* The bytes of a file, and how many a read has to deliver.
Byte(k) == Disk[call.blocks[k \div BlockSize + 1]][(k % BlockSize) + 1]
Due     == Max({0, Min({call.length, call.size - call.offset})})
InRange == call.inode <= InodeCount
Sound   == InRange /\ \A k \in 1 .. Blocks : call.blocks[k] <= MaxBlock

\* read_data delivers the bytes of the file from the offset on, as many as were
\* asked for or the file has, whatever blocks they lie in and wherever the
\* offset falls in a block, and returns how many (its header, filesys.c:356, says
\* "0 on success"); it fails for an inode number above inode_count and for a block
\* that does not exist, and for nothing else.  The number inode_count itself, one
\* behind the last inode, passes the test at filesys.c:363.
ReadsSlice ==
    Done("read_data") =>
        IF Sound THEN res = Due /\ buf = [k \in 1 .. Due |-> Byte(call.offset + k - 1)]
        ELSE res = -1

\* The look-up finds the entry that has exactly the name, also a name that fills
\* its 32 bytes and has no NUL there, and both look-ups of an open agree.  The
\* empty name is refused by the first of them, so no open takes the unused entry
\* that the second would find.
FindsTheName ==
    Done("open") =>
        LET named == {k \in 1 .. Len(Dir) : Dir[k] = call.name}
            index == IF named = {} THEN -1 ELSE Min(named) - 1
        IN  /\ res[1] = index
            /\ res[2] = IF call.name = << >> THEN Len(Dir) ELSE index

\* Completion keeps what was typed, stays inside of the line buffer, and makes
\* the last word a file's name unless the buffer ended first.
CompletesToName ==
    Done("fs_search") =>
        /\ SubSeq(res, 1, Len(call.line)) = call.line
        /\ Len(res) < LineSize
        /\ Len(res) > Len(call.line) /\ Len(res) < LineSize - 1 =>
               \E k \in 1 .. Len(Dir), n \in 0 .. Len(call.line) :
                   /\ SubSeq(res, n + 1, Len(res)) = Dir[k]
                   /\ n > 0 => res[n] = Space

\* The command is its name and its arguments again, up to the spaces before them:
\* nothing else of it is lost, and neither begins with a space.  Spaces behind the
\* arguments stay in them.
ParsesBack ==
    Done("execute") =>
        LET name == res[1]
            args == res[2]
            s    == call.command
            a    == Len(s) - Len(args)
        IN  /\ Space \notin {name[k] : k \in 1 .. Len(name)}
            /\ args # << >> => args[1] # Space
            /\ SubSeq(s, a + 1, Len(s)) = args
            /\ \E b \in 0 .. a :
                  /\ SubSeq(s, b + 1, b + Len(name)) = name
                  /\ \A k \in (1 .. b) \cup (b + Len(name) + 1 .. a) : s[k] = Space
                  /\ name # << >> /\ args # << >> => b + Len(name) < a
=============================================================================
