--------------------------- MODULE MCUpdateRecord ---------------------------
(***************************************************************************)
(* Instances of UpdateRecord for TLC: repository "git" has commits 1, 2    *)
(* and 3, the last two two branches; "bad" has commit 4 that is malformed  *)
(* and its child 5.                                                        *)
(***************************************************************************)
EXTENDS UpdateRecord

MCEvent == 1..5
MCRepoOf == [c \in MCEvent |-> IF c <= 3 THEN "git" ELSE "bad"]
MCHistory == <<{1}, {1, 2}, {1, 3}, {4}, {4, 5}>>
MCDayOf == [c \in MCEvent |-> IF c = 3 THEN 2 ELSE 1]
=============================================================================
