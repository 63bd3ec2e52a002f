----------------------------- MODULE ShelfContract -----------------------------
(***************************************************************************)
(* What the rest of the program may rely on about one funder's stored      *)
(* awards, whoever writes them and however many writers overlap.  Readers  *)
(* (grant search, prospects, the funder screens) only ever see whole       *)
(* replacements, and a read that was cut short never costs awards.         *)
(***************************************************************************)
EXTENDS Naturals

CONSTANT MaxAwards      \* bound: awards one read of a publisher can keep

VARIABLE shelf          \* [awards held, whether they come from a whole read]

Shelves == [n : 0..MaxAwards, whole : BOOLEAN]
Empty == [n |-> 0, whole |-> FALSE]

Init == shelf = Empty

(* A read that reached the publisher's last page replaces what was held. *)
WholeRead == \E n \in 0..MaxAwards : shelf' = [n |-> n, whole |-> TRUE]

(* A read that stopped part way replaces only what is no larger than itself. *)
CutShortRead == \E n \in shelf.n..MaxAwards : shelf' = [n |-> n, whole |-> FALSE]

(* An operator removes the funder, and by cascade everything held for them. *)
Removed == shelf' = Empty

Next == WholeRead \/ CutShortRead \/ Removed

Spec == Init /\ [][Next]_shelf
=============================================================================
