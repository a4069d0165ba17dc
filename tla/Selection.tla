----------------------------- MODULE Selection -----------------------------
(***************************************************************************)
(* A list comprehension with a condition: what is kept of a sequence, in   *)
(* its order.  SelectSeq of places instead of a test, because the provers  *)
(* can be given the definition of a function, and a set, but neither the   *)
(* definition of SelectSeq nor its test.                                   *)
(***************************************************************************)
EXTENDS Naturals, Sequences

IsList(list) == list \in Seq({list[i] : i \in DOMAIN list})

Selected(s, places) ==
    LET kept[n \in 0..Len(s)] ==
            IF n = 0 THEN <<>>
            ELSE IF n \in places THEN Append(kept[n - 1], s[n]) ELSE kept[n - 1]
    IN kept[Len(s)]
=============================================================================
