------------------------------ MODULE MCTraversal ------------------------------
(* A small instance of Traversal for TLC: in/a, in/s/a and, outside, s/a.    *)
EXTENDS Traversal

CONSTANTS top, dirIn, dirSub, dirOut, new1, new2, new3, plain1, plain2, plain3,
          outward, upward, shortcut, across, pipe

MCTarget == (outward :> <<"s">>) @@ (upward :> <<"in">>) @@ (shortcut :> <<"s", "a">>)
            @@ (across :> <<"s", "in">>)

Tree(f) == [e \in Dirs \X Names |-> IF e \in DOMAIN f THEN f[e] ELSE None]
base == (<<top, "in">> :> dirIn) @@ (<<dirIn, "s">> :> dirSub) @@ (<<dirIn, "a">> :> plain1)
        @@ (<<dirSub, "a">> :> plain2)
        @@ (<<top, "s">> :> dirOut) @@ (<<dirOut, "a">> :> plain3)
MCTrees == {Tree(base @@ (<<d, n>> :> o)) :
    d \in {dirSub, top}, n \in {"in", "a"}, o \in {outward, upward}}
    \cup {Tree(base @@ (<<dirSub, "in">> :> o)) : o \in {shortcut, pipe}}
    \cup {Tree(base @@ (<<top, "a">> :> across) @@ (<<dirOut, "in">> :> upward))}

MCRequests ==
    [op : {"collect"}, path : {<<"in">>, <<"a", "s">>}]
    \cup [op : {"ensure"}, path : {<<"in", "s", "s">>, <<"a", "s">>, <<"in", "s", "in">>}]
===============================================================================
