--------------------------- MODULE LineDiscipline ----------------------------
(***************************************************************************)
(* What the console promises its readers: a line is edited until a newline *)
(* or ^D ends it or the buffer is full; from then on its characters stay   *)
(* as they are, and are handed out once each and in order.                 *)
(***************************************************************************)
EXTENDS Sequences, Naturals

CONSTANTS Size, Letters
VARIABLES ready, edit   \* ended, not yet read; the line being typed

Init == ready = <<>> /\ edit = <<>>

Key(ch) ==
  LET line == Append(edit, ch)
      full == Len(ready) + Len(line) = Size
  IN /\ Len(ready) + Len(edit) < Size
     /\ IF ch \in {"newline", "^D"} \/ full
          THEN ready' = ready \o line /\ edit' = <<>>
          ELSE ready' = ready /\ edit' = line

Erase == /\ edit # <<>>
         /\ \E n \in {0, Len(edit) - 1} : edit' = SubSeq(edit, 1, n)
         /\ UNCHANGED ready

Read == /\ ready # <<>>
        /\ ready' = Tail(ready)
        /\ UNCHANGED edit

Next == Erase \/ Read \/ \E ch \in Letters \cup {"newline", "^D"} : Key(ch)

Spec == Init /\ [][Next]_<<ready, edit>>
=============================================================================
