--------------------------- MODULE MCRecordFolder ---------------------------
(***************************************************************************)
(* Instances of RecordFolder for TLC.                                      *)
(***************************************************************************)
EXTENDS RecordFolder

\* One event on the last day, the others on the first.
MCDayOf ==
  LET last == CHOOSE e \in Event : TRUE
      Latest == CHOOSE d \in Day : \A c \in Day : c <= d
      First == CHOOSE d \in Day : \A c \in Day : d <= c
  IN  [e \in Event |-> IF e = last THEN Latest ELSE First]
=============================================================================
