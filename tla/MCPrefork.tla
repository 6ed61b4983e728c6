------------------------------- MODULE MCPrefork ------------------------------
EXTENDS Prefork

P == <<"p">>
A == <<"a">>
BC == <<"b", "c">>
Empty == <<>>

\* Every command line of up to five words, and those with two children.
Short == UNION {[1 .. n -> {A, BC, Empty, Marker}] : n \in 0 .. 4}
Two == {first \o <<Marker>> \o second \o <<Marker>> \o third :
            first \in {<<A>>, <<BC, A>>}, second \in {<<>>, <<A>>, <<A, BC>>},
            third \in {<<BC>>, <<A, Empty>>, <<A, Marker>>}}
MCArgvs == {<<P>> \o v : v \in Short} \cup {<<P, Marker>> \o v : v \in Two}
MCOpened == {{0, 1, 2}, {0, 1}, {1, 2}, {0}}
=============================================================================
