------------------------------- MODULE MCBatch --------------------------------
(* Small instances of Batch for TLC: two sources, one of them in a          *)
(* subdirectory, encrypted and decrypted.                                   *)
EXTENDS Batch

CONSTANTS plain1, plain2, cipher1, cipher2, cipher3, odd, broken, old, link, into, new1, new2, new3

in == <<"in">>
sub == <<"in", "s">>
out == <<"out">>
outsub == <<"out", "s">>

aIl == <<"in", "a.il">>
aTxt == <<"in", "a.txt">>
aMd == <<"in", "a.md">>
bIl == <<"in", "s", "b.il">>

MCDirs == {in, sub, out, outsub}
MCSpare == {<<"in", "r.il">>, <<"in", "t.il">>, <<"in", "s", "r.il">>}
MCNames == {aTxt, aMd, bIl} \cup MCSpare \cup {Append(d, c) : d \in MCDirs, c \in {"a.il", "n"}}
MCEncrypted == {"a.il", "b.il", "r.il", "t.il"}
MCDefaultName == [c \in {"a.il", "a.txt", "a.md", "b.il", "n", "r.il", "t.il"} |->
    CASE c = "b.il" -> "b.il"
      [] c = "n" -> "n.il" [] c \in {"r.il", "t.il"} -> c [] OTHER -> "a.il"]
MCFiles == {plain1, plain2, cipher1, cipher2, cipher3, odd, broken, old, link, into, new1, new2, new3}
MCLinks == {link, into}
\* One leads to a source to encrypt, the other to one to decrypt.
MCLinkTo == (link :> aTxt) @@ (into :> bIl)
MCProduct == <<new1, new2, new3>>
\* Two ciphertexts hold one name, one that of a pending input, one no file's.
MCInside == [f \in MCFiles |->
    CASE f = cipher1 -> <<"n">> [] f = cipher2 -> <<"..", "n", ".">>
      [] f = cipher3 -> <<"a.il">> [] f = odd -> <<"n", "..">> [] OTHER -> None]

Ordered == <<aIl, <<"in", ".", "a.il">>, aMd, aTxt, <<"in", "s", "..", "a.txt">>,
             <<"in", "n">>, <<"in", "r.il">>, <<"in", "t.il">>, bIl, <<"in", "s", "n">>>>
MCRank == [p \in MCNames \cup Range(Ordered) |->
    IF p \in Range(Ordered) THEN CHOOSE i \in DOMAIN Ordered : Ordered[i] = p
    ELSE Len(Ordered) + 1]

MCCommands ==
    [op : {"encrypt"}, output : {None}, force : BOOLEAN, shred : BOOLEAN,
     inputs : {<<aTxt>>, <<aTxt, aMd>>, <<aIl, aTxt>>, <<aTxt, <<"in", "s", "..", "a.txt">>>>}]
    \cup
    [op : {"decrypt"}, output : {None, out}, force : BOOLEAN, shred : {FALSE},
     inputs : {<<in>>, <<bIl, <<"in", ".", "a.il">>>>}]

Holding(f) == [n \in MCNames |-> IF n \in DOMAIN f THEN f[n] ELSE None]
MCDirectories ==
    {Holding(aTxt :> plain1 @@ aMd :> plain2 @@ aIl :> c) : c \in {None, old, link, into}}
    \cup
    {Holding(aIl :> abn[1] @@ bIl :> abn[2] @@ <<"out", "n">> :> abn[3]) :
        abn \in {<<cipher1, cipher2, None>>, <<cipher1, cipher2, old>>,
                 <<cipher3, cipher2, None>>, <<broken, cipher3, None>>,
                 <<odd, broken, None>>}}
    \cup {Holding(aIl :> cipher1 @@ bIl :> cipher2 @@ <<"in", "n">> :> into)}
===============================================================================
