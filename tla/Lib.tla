---------------------------------- MODULE Lib ----------------------------------
(***************************************************************************)
(* Routines of student-distrib/lib.c that keep nothing from one call to    *)
(* the next: the number conversions of printf and the assembly loops of    *)
(* memcpy, memset and memmove.                                             *)
(*                                                                         *)
(* A behaviour is one call: Init chooses it, the actions compute its       *)
(* result.  The modules Filesys and Grep extend this one with their own    *)
(* calls, and Routines puts them together.                                 *)
(***************************************************************************)
EXTENDS Integers, Sequences, FiniteSetsExt

CONSTANTS Calls,      \* the calls that are made
          HexDigits,  \* the hexadecimal digits of a word, 8
          WordSize,   \* the bytes that rep movsl and rep stosl move, 4
          MemTop      \* the last address of the memory that is copied in

ASSUME LibAssumption ==
    /\ HexDigits \in Nat \ {0} /\ WordSize \in Nat \ {0} /\ MemTop \in Nat

\* How many numbers a word can hold: 16 for each digit.
WordSpan ==
    LET span[n \in 0 .. HexDigits] == IF n = 0 THEN 1 ELSE 16 * span[n - 1]
    IN  span[HexDigits]

ASSUME PrintfAssumption ==
    \A c \in Calls :
        c.fn = "printf" => c.conv \in {"x", "#x", "u", "d"} /\ c.word \in 0 .. WordSpan - 1

\* The areas lie in the memory, and the kernel calls memcpy for areas apart from
\* each other.  The source of memset is not used.
ASSUME CopyAssumption ==
    \A c \in Calls :
        /\ c.fn \in {"memcpy", "memset", "memmove"} =>
               /\ c.dest \in Nat /\ c.src \in Nat /\ c.n \in Nat
               /\ c.dest + c.n - 1 <= MemTop
        /\ c.fn \in {"memcpy", "memmove"} => c.src + c.n - 1 <= MemTop
        /\ c.fn = "memcpy" => c.dest + c.n <= c.src \/ c.src + c.n <= c.dest

VARIABLES call,  \* the call: its function and arguments
          at,    \* where it is
          res,   \* what it returned
          mem,   \* the memory of the copying routines
          reg    \* their registers

copyvars == << mem, reg >>

\* Every cell holds its address before the call.
LibInit ==
    /\ call \in Calls
    /\ at = "call"
    /\ res = << >>
    /\ mem = [a \in 0 .. MemTop |-> a]
    /\ reg = [edi |-> 0, esi |-> 0, ecx |-> 0, edx |-> 0, step |-> 1]

Returned(r) == at' = "done" /\ res' = r
Done(fn)    == at = "done" /\ call.fn = fn

-----------------------------------------------------------------------------
(* printf: the conversions of a word *)

lookup == << "0", "1", "2", "3", "4", "5", "6", "7",
             "8", "9", "A", "B", "C", "D", "E", "F" >>

\* The loop over the characters: the b-th is swapped with the b-th from the end.
strrev(s) ==
    LET swapped[b \in 0 .. Len(s)] ==
            IF b = 0 THEN s
            ELSE LET t == swapped[b - 1]
                     e == Len(s) - b + 1
                 IN  IF b < e THEN [t EXCEPT ![b] = t[e], ![e] = t[b]] ELSE t
    IN  swapped[Len(s)]

\* The digits are found from the lowest place on.
itoa(value, radix) ==
    LET places[n \in 0 .. value] ==
            IF n = 0 THEN << >>
            ELSE << lookup[(n % radix) + 1] >> \o places[n \div radix]
    IN  IF value = 0 THEN << "0" >> ELSE strrev(places[value])

padded_Short(s) == [k \in 1 .. HexDigits - Len(s) - 1 |-> "0"] \o s
\* %#x: the digits are written at conv_buf[8] and zeros in front of them, from
\* the index that leaves eight characters.
padded(s) == [k \in 1 .. HexDigits - Len(s) |-> "0"] \o s

\* %d: the word is signed, and so is its negation, which is the word itself for
\* the smallest number.
signed(word) ==
    IF word >= WordSpan \div 2 THEN << "-" >> \o itoa((WordSpan - word) % WordSpan, 10)
    ELSE itoa(word, 10)

Convert ==
    /\ at = "call" /\ call.fn = "printf"
    /\ \/ call.conv = "x"  /\ Returned(itoa(call.word, 16))
       \/ call.conv = "#x" /\ Returned(padded(itoa(call.word, 16)))
       \/ call.conv = "u"  /\ Returned(itoa(call.word, 10))
       \/ call.conv = "d"  /\ Returned(signed(call.word))
    /\ UNCHANGED << call, copyvars >>

-----------------------------------------------------------------------------
(* memcpy and memset go byte by byte up to an address that is a multiple of *)
(* a word, then word by word, then byte by byte again; memmove goes byte by *)
(* byte from the end that is safe.                                          *)

Copying == call.fn \in {"memcpy", "memset"}

\* The n cells at edi become those at esi, or the byte that memset stores.
Moved(n) ==
    [a \in DOMAIN mem |->
        IF a \notin reg.edi .. reg.edi + n - 1 THEN mem[a]
        ELSE IF call.fn = "memset" THEN call.c
        ELSE mem[reg.esi + (a - reg.edi)]]

Advanced(n) == [reg EXCEPT !.edi = @ + n * reg.step, !.esi = @ + n * reg.step]

CopyStart ==
    /\ at = "call" /\ Copying
    /\ reg' = [reg EXCEPT !.edi = call.dest, !.esi = call.src, !.ecx = call.n]
    /\ at' = "top"
    /\ UNCHANGED << call, res, mem >>

tail_bytes_None(n) == 0
\* The bytes behind the last whole word.
tail_bytes(n) == n % WordSize

CopyTop ==
    /\ at = "top"
    /\ \/ /\ reg.ecx = 0
          /\ Returned(call.dest)
          /\ UNCHANGED copyvars
       \/ /\ reg.ecx > 0 /\ reg.edi % WordSize # 0
          /\ mem' = Moved(1)
          /\ reg' = [Advanced(1) EXCEPT !.ecx = @ - 1]
          /\ UNCHANGED << at, res >>
       \/ /\ reg.ecx > 0 /\ reg.edi % WordSize = 0
          /\ reg' = [reg EXCEPT !.ecx = @ \div WordSize, !.edx = tail_bytes(reg.ecx)]
          /\ at' = "words"
          /\ UNCHANGED << res, mem >>
    /\ UNCHANGED call

CopyWords ==
    /\ at = "words"
    /\ \/ /\ reg.ecx > 0
          /\ mem' = Moved(WordSize)
          /\ reg' = [Advanced(WordSize) EXCEPT !.ecx = @ - 1]
          /\ UNCHANGED at
       \/ /\ reg.ecx = 0
          /\ at' = "bottom"
          /\ UNCHANGED copyvars
    /\ UNCHANGED << call, res >>

CopyBottom ==
    /\ at = "bottom"
    /\ \/ /\ reg.edx > 0
          /\ mem' = Moved(1)
          /\ reg' = [Advanced(1) EXCEPT !.edx = @ - 1]
          /\ UNCHANGED << at, res >>
       \/ /\ reg.edx = 0
          /\ Returned(call.dest)
          /\ UNCHANGED copyvars
    /\ UNCHANGED call

MoveStart ==
    /\ at = "call" /\ call.fn = "memmove"
    /\ reg' = IF call.src >= call.dest
              THEN [reg EXCEPT !.edi = call.dest, !.esi = call.src, !.ecx = call.n]
              ELSE [reg EXCEPT !.edi = call.dest + call.n - 1,
                               !.esi = call.src + call.n - 1,
                               !.ecx = call.n, !.step = -1]
    /\ at' = "move"
    /\ UNCHANGED << call, res, mem >>

MoveByte ==
    /\ at = "move"
    /\ \/ /\ reg.ecx > 0
          /\ mem' = Moved(1)
          /\ reg' = [Advanced(1) EXCEPT !.ecx = @ - 1]
          /\ UNCHANGED << at, res >>
       \/ /\ reg.ecx = 0
          /\ Returned(call.dest)
          /\ UNCHANGED copyvars
    /\ UNCHANGED call

LibNext ==
    \/ Convert
    \/ CopyStart \/ CopyTop \/ CopyWords \/ CopyBottom
    \/ MoveStart \/ MoveByte

-----------------------------------------------------------------------------
(* Properties *)

\* The number that a string of digits writes, and the one that was to be written.
DigitOf(c) == CHOOSE k \in 0 .. 15 : lookup[k + 1] = c
Number(s, radix) ==
    LET upto[k \in 0 .. Len(s)] ==
            IF k = 0 THEN 0 ELSE radix * upto[k - 1] + DigitOf(s[k])
    IN  upto[Len(s)]

\* What printf writes for a word reads back as that word in each of its formats,
\* the smallest signed number included, without a leading zero, or, with "#", in
\* exactly the digits of a word.
ReadsBack ==
    Done("printf") =>
        LET minus  == res[1] = "-"
            digits == IF minus THEN Tail(res) ELSE res
            value  == IF call.conv = "d" /\ call.word >= WordSpan \div 2
                      THEN call.word - WordSpan ELSE call.word
            shown  == Number(digits, IF call.conv \in {"x", "#x"} THEN 16 ELSE 10)
        IN  /\ value = IF minus THEN -shown ELSE shown
            /\ IF call.conv = "#x" THEN Len(res) = HexDigits
               ELSE digits[1] = "0" => Len(digits) = 1

\* memcpy, memset and memmove write the bytes they are asked for and no other,
\* whatever the alignment and length; memmove also when the areas overlap.
CopiesBytes ==
    at = "done" /\ call.fn \in {"memcpy", "memset", "memmove"} =>
        mem = [a \in 0 .. MemTop |->
                  IF a \notin call.dest .. call.dest + call.n - 1 THEN a
                  ELSE IF call.fn = "memset" THEN call.c
                  ELSE call.src + (a - call.dest)]
=============================================================================
