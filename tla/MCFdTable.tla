------------------------------ MODULE MCFdTable ------------------------------
(* Instances of FdTable for TLC: the directory, the rtc and two files.      *)
EXTENDS FdTable

TypeOf(names) == [m \in names |-> CASE m = "." -> "dir" [] m = "rtc" -> "rtc"
                                    [] OTHER -> "file"]
\* The file b has the inode number that the directory and the rtc also have.
InodeOf(names) == [m \in names |-> IF m = "a" THEN 1 ELSE 0]

MCNames == {".", "rtc", "a", "b"}
MCType  == TypeOf(MCNames)
MCInode == InodeOf(MCNames)

\* One program uses everything, the other one file.
MCOpens == [p \in {3, 4} |-> IF p = 3 THEN MCNames ELSE {"a"}]

MCSize == [i \in 0 .. 1 |-> i + 2]
=============================================================================
