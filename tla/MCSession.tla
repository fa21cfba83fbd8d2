------------------------------- MODULE MCSession -------------------------------
(* A small instance of Session for TLC: a six-bit word for the parameters of  *)
(* the key derivation, headers with one field changed, two pages.             *)
EXTENDS Session

MCExtents == {{1}, {1, 2}}
MCCurrent == [memory |-> 20, iterations |-> 2, parallelism |-> 2]

\* Command lines that are refused, that need a pipe, one stream, two files.
MCCommandLines ==
    {[op |-> o, files |-> 0, options |-> {}, terminal |-> FALSE] : o \in {"none", "help"}}
    \cup
    [op : {"encrypt", "decrypt"}, files : {0}, options : {{}, {"force"}}, terminal : BOOLEAN]
    \cup
    [op : {"encrypt", "decrypt"}, files : {2}, options : {{"output"}, {"shred"}, {"force", "progress"}},
     terminal : {TRUE}]

Smallest == [memory |-> 8, iterations |-> 1, parallelism |-> 1]
Largest == [memory |-> 24, iterations |-> 2, parallelism |-> 2]

\* Sizes around every boundary: the prefix, both headers, the limit.
Originals ==
    {WrittenLegacy(Smallest, n, l) : n \in {0, 2}, l \in {0, 11}}
    \cup {WrittenLegacy(Largest, 2, 12)}
    \cup {Written(kdf, 3, 1, 0) : kdf \in {Smallest, Largest}} \cup {Written(Smallest, 2, 2, 1)}

\* One field changed, to the values around its limits; 8 * 8 wraps to 0.
Changed(s) ==
    {[s EXCEPT !.header.kdf.memory = w] : w \in {7, 9, 24, 25}}
    \cup {[s EXCEPT !.header.kdf.iterations = w] : w \in {0, 1, 2, 3}}
    \cup {[s EXCEPT !.header.kdf.parallelism = w] : w \in {0, 2, 3, 8}}
    \cup {[s EXCEPT !.header.version = v, !.header.chunk = 3] : v \in 1 .. 3}
    \cup {[s EXCEPT !.header.chunk = c] : c \in {1, 4, 5}}
    \cup {[s EXCEPT !.header.name = n] : n \in {0, 3, 60}}
    \cup {[s EXCEPT !.header.magic = FALSE], [s EXCEPT !.header.utf8 = FALSE]}
    \cup {[s EXCEPT !.body = b] : b \in {"metadata", "later"}}
    \cup {[s EXCEPT !.size = n] : n \in {8, 9, 52, 66, s.size - 1, s.size + 1}}

MCStreams == Originals \cup UNION {Changed(s) : s \in {WrittenLegacy(Smallest, 2, 11),
                                        Written(Largest, 2, 1, 1)}}
===============================================================================
