--------------------------------- MODULE Grep ----------------------------------
(***************************************************************************)
(* do_one_file of syscalls/ece391grep.c: a file is read into a buffer of    *)
(* fixed size, the lines in it are searched, and the part of a line that    *)
(* the buffer ends in is moved down before the next read.                   *)
(*                                                                         *)
(* The buffer has one byte more than is ever read into it.  It is a local  *)
(* variable without an initial value; the test for a partial line looks at  *)
(* the byte behind what was read.  call.junk is what the stack held.        *)
(***************************************************************************)
EXTENDS Lib

CONSTANT BufSize      \* BUFSIZE of the buffer of grep

Newline == "nl"
Null    == "nul"

ASSUME GrepAssumption == BufSize \in Nat \ {0}

\* A text file, and a pattern that is a string.
ASSUME GrepCallsAssumption ==
    \A c \in Calls :
        c.fn = "grep" => /\ c.file \in Seq(STRING \ {Null})
                         /\ c.pattern \in Seq(STRING \ {Null})
                         /\ c.junk \in STRING

VARIABLES data, last, line_start, cnt,
          pos,       \* what has been read of the file
          printed    \* the lines that were written

grepvars == << data, last, line_start, cnt, pos, printed >>

GrepInit ==
    /\ data = [k \in 0 .. BufSize |->
                  IF call.fn = "grep" THEN call.junk ELSE Null]
    /\ last = 0 /\ line_start = 0 /\ cnt = 0
    /\ pos = 0
    /\ printed = << >>

\* The open may fail.
GrepOpen ==
    /\ at = "call" /\ call.fn = "grep"
    /\ \/ at' = "read" /\ UNCHANGED res
       \/ Returned(-1)
    /\ UNCHANGED << call, copyvars, grepvars >>

\* A read delivers what there is of the file up to the end of the buffer; it
\* may fail.
GrepRead ==
    /\ at = "read"
    /\ \/ /\ cnt' = Min({BufSize - last, Len(call.file) - pos})
          /\ data' = [k \in 0 .. BufSize |->
                         IF k \in last .. last + cnt' - 1
                         THEN call.file[pos + (k - last) + 1] ELSE data[k]]
          /\ last' = last + cnt'
          /\ pos' = pos + cnt'
          /\ line_start' = 0
          /\ at' = "line"
          /\ UNCHANGED << printed, res >>
       \/ /\ Returned(-1)
          /\ UNCHANGED grepvars
    /\ UNCHANGED << call, copyvars >>

\* ece391_strcpy(data, data + start): up to and with the NUL.
strcpy_down(d, start) ==
    LET len == Min({k \in 0 .. BufSize - start : d[start + k] = Null})
    IN  [k \in 0 .. BufSize |-> IF k <= len THEN d[start + k] ELSE d[k]]

\* The string at a place of the buffer, up to its NUL.
StringAt(d, start) ==
    LET len == Min({k \in 0 .. BufSize - start : d[start + k] = Null})
    IN  [k \in 1 .. len |-> d[start + k - 1]]

\* ece391_strncmp(d + check, s, s_len): s has no NUL, so one in d is a difference.
same(d, check, s) ==
    \A k \in 1 .. Len(s) : check + k - 1 <= BufSize /\ d[check + k - 1] = s[k]

search(d, from, to, s) ==
    s # << >> /\ \E check \in from .. to - 1 : same(d, check, s)

line_end == Min({k \in line_start .. last : k = last \/ data[k] = Newline})

partial_AtStart == data[line_end] # Newline /\ cnt # 0
\* The buffer ends in this line and there may be more of it to read.
partial == data[line_end] # Newline /\ cnt # 0 /\ line_start # 0

Ended == [data EXCEPT ![line_end] = Null]

GrepLine ==
    /\ at = "line"
    /\ \/ /\ partial
          /\ data' = strcpy_down(Ended, line_start)
          /\ last' = last - line_start
          /\ at' = "read"
          /\ UNCHANGED << line_start, printed >>
       \/ /\ ~ partial
          /\ data' = Ended
          /\ printed' = IF search(Ended, line_start, line_end, call.pattern)
                        THEN Append(printed, StringAt(Ended, line_start)) ELSE printed
          /\ line_start' = line_end + 1
          /\ IF line_end + 1 >= last
             THEN last' = 0 /\ at' = (IF cnt = 0 THEN "close" ELSE "read")
             ELSE UNCHANGED << last, at >>
    /\ UNCHANGED << call, res, cnt, pos, copyvars >>

GrepClose ==
    /\ at = "close"
    /\ Returned(0) \/ Returned(-1)
    /\ UNCHANGED << call, copyvars, grepvars >>

GrepNext == GrepOpen \/ GrepRead \/ GrepLine \/ GrepClose

-----------------------------------------------------------------------------
(* Properties *)

\* The lines of a file: where they end, and what they are.
Ends(f) == {k \in 1 .. Len(f) : f[k] = Newline} \cup {Len(f) + 1}
LineUpTo(f, e) ==
    LET b == Max({0} \cup {k \in Ends(f) : k < e})
    IN  SubSeq(f, b + 1, e - 1)
Holds(line, s) ==
    s # << >> /\ \E b \in 0 .. Len(line) - Len(s) : SubSeq(line, b + 1, b + Len(s)) = s

\* The ends of the lines that hold a pattern, and the place of one among them.
Matching(f, s) == {e \in Ends(f) : Holds(LineUpTo(f, e), s)}
Rank(e, S) == Cardinality({h \in S : h <= e})

Fits(f) == \A e \in Ends(f) : Len(LineUpTo(f, e)) <= BufSize

\* In a file whose lines fit the buffer, grep writes every line that holds the
\* pattern, once, whole and in order, wherever the reads cut the file, also a
\* last line without a newline; when a call fails it has written the first of
\* them.  The byte behind the buffer, never written, must not be a newline.
GrepsLines ==
    Done("grep") /\ Fits(call.file) /\ call.junk # Newline =>
        LET due == Matching(call.file, call.pattern)
        IN  /\ \A e \in due : Rank(e, due) <= Len(printed) =>
                   printed[Rank(e, due)] = LineUpTo(call.file, e)
            /\ Len(printed) <= Cardinality(due)
            /\ res = 0 => Len(printed) = Cardinality(due)
=============================================================================
