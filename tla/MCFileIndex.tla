----------------------------- MODULE MCFileIndex -----------------------------
(* The constants of FileIndex for TLC. *)
EXTENDS FileIndex, TLC

CONSTANTS ann, bob, c1, c2, p1, p2

\* A file, one whose name begins with the first one's, of the month before, and
\* one of the other user.
Key(owner, month, name) == [owner |-> owner, year |-> 2024, month |-> month, name |-> name]
MCKeys == {Key(ann, 2, <<"a">>), Key(ann, 2, <<"a", "b">>), Key(bob, 1, <<"a">>)}

Day(month, day) == [year |-> 2024, month |-> month, day |-> day]
MCCalendar == <<Day(1, 31), Day(2, 1)>>

MCScopes == {[year |-> 0, month |-> 0, day |-> 0], [year |-> 0, month |-> 1, day |-> 0],
             [year |-> 2024, month |-> 2, day |-> 0], Day(2, 1)}

MCMarks == {[type |-> "text", note |-> "tax"]}

SlotSymmetry == Permutations(Slots)
=============================================================================
