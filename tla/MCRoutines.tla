------------------------------- MODULE MCRoutines -------------------------------
(* Instances of Routines for TLC: blocks of two bytes, names of up to two     *)
(* characters, every string of up to MaxString characters, a word of two      *)
(* hexadecimal digits, copies of up to seven bytes at every alignment.        *)
EXTENDS Routines

CONSTANTS MaxString,
          MaxFile      \* the longest file that is searched

MCDir  == << << "f" >>, << "g", "f" >>, << "g" >>, << "f", "g" >> >>
MCDisk == [b \in 0 .. 2 |-> << 2 * b, 2 * b + 1 >>]

UpTo(max, chars) == UNION {[1 .. n -> chars] : n \in 0 .. max}
Strings(chars) == UpTo(MaxString, chars)

\* Files of up to five bytes over any three blocks, one of which may be missing;
\* and numbers that no inode has.
MCReads ==
    [fn : {"read_data"}, inode : {0}, size : 0 .. 5, blocks : [1 .. 3 -> 0 .. 3],
     offset : 0 .. 6, length : 0 .. 6]
    \cup [fn : {"read_data"}, inode : {InodeCount, InodeCount + 1}, size : {4},
          blocks : {<< 0, 3 >>, << 2, 1 >>}, offset : 0 .. 4, length : 0 .. 4]

\* Copies inside of the memory; memcpy is called for areas apart from each other.
MCCopies == {c \in [fn : {"memcpy", "memset", "memmove"}, dest : 0 .. MemTop,
                    src : 0 .. MemTop, n : 0 .. 7, c : {-1}] :
                /\ c.dest + c.n - 1 <= MemTop /\ c.src + c.n - 1 <= MemTop
                /\ c.fn = "memset" => c.src = 0
                /\ c.fn = "memcpy" => c.dest + c.n <= c.src \/ c.src + c.n <= c.dest}

\* Every frequency that is accepted, and some that are not.
MCFreqs == {2 ^ k : k \in 0 .. 14} \cup {0, 3}

MCCalls ==
    MCReads
    \cup [fn : {"open"}, name : Strings({"f", "g"})]
    \cup [fn : {"fs_search"}, line : {s \in Strings({"f", "g", Space}) : Len(s) < LineSize}]
    \cup [fn : {"execute"}, command : Strings({"f", "g", Space})]
    \cup [fn : {"printf"}, conv : {"x", "#x", "u", "d"}, word : 0 .. WordSpan - 1]
    \cup MCCopies
    \cup [fn : {"grep"}, file : UpTo(MaxFile, {"f", "g", Newline}), junk : {Newline, "f"},
          pattern : {<< >>, << "f" >>, << "g", "f" >>}]
    \cup [fn : {"rtc_write"}, freq : [Writers -> MCFreqs], nbytes : [Writers -> {2, 4}]]
=============================================================================
