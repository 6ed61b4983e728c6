------------------------- MODULE MCProcessCreation -------------------------
(* Users, records and delegates for ProcessCreation. *)
EXTENDS ProcessCreation

MCFactories == <<"fork", "local">>

MCPasswd == (0 :> [gid |-> 0, groups |-> {0}]) @@ (1 :> [gid |-> 1, groups |-> {1, 9}])

\* root, reniced, and an ordinary user
MCParents ==
    {[uid |-> u, gid |-> u, groups |-> Passwd[u].groups, umask |-> 18,
      nice |-> IF u = 0 THEN 5 ELSE 0, env |-> [HOME |-> "h", OWN |-> "o"],
      argv |-> <<"parent", "-x">>, deathsig |-> FALSE] : u \in {0, 1}}

MCRecords ==
    {Empty,
     [program |-> "prog", arguments |-> <<"a">>, environment |-> [HOME |-> "c"], uid |-> 1]}

MCOffered ==
    [uid |-> {0, 1, 2}, gid |-> {0, 1}, umask |-> {-1, 0, 63}, priority |-> {-5, 0, 9},
     program |-> {"other"}, arguments |-> {<<>>, <<"b">>},
     environment |-> {[HOME |-> "h"], [VAR |-> "v"]}, identifier |-> {"i"}]

MCMatchers ==
    {[type |-> "all"], [type |-> "none"], [type |-> "key", key |-> "uid", values |-> {1}],
     [type |-> "info", info |-> [environment |-> [HOME |-> "h"]]]}
=============================================================================
