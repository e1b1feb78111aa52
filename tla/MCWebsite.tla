------------------------------ MODULE MCWebsite ------------------------------
(* The instance of Website for TLC: two clients, a path without a view and *)
(* two with one, and environments of which at most one or two values are   *)
(* not plain.                                                              *)
EXTENDS Website

CONSTANTS c1, c2

MCClient == {c1, c2}
MCPath == {"/tweets/past24hours", "/tweets/ward", "/hashtags/ward"}

V(o) == <<o \o "'s">>
Odd(o) == {None, <<>>, <<o, " ", "x">>, <<"'", "x">>, <<"x", "\\">>}
Usual == [o \in Option \ {"search_path"} |-> V(o)]
Options == <<"user", "password", "host", "port", "dbname">>
Following(o) == Options[1 + ((CHOOSE j \in 1..Len(Options) : Options[j] = o) % Len(Options))]
MCAtom == Option \cup {V(o)[1] : o \in Option}
              \cup {"x", " ", "=", "'", "\\", "tweetwatcher", "localhost", "5432"}
MCEnvironments ==
    {Usual} \cup UNION {{[Usual EXCEPT ![o] = v] : v \in Odd(o)} : o \in DOMAIN Usual}
        \cup {[Usual EXCEPT ![o] = <<>>, ![Following(o)] = <<>>] : o \in DOMAIN Usual}
=============================================================================
