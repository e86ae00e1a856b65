--------------------------- MODULE MCAppLifecycle ---------------------------
(* The constants of AppLifecycle for TLC. *)
EXTENDS AppLifecycle

CONSTANTS r1

\* The process starts with a groupcache group, and each edit does without, but one
\* that cannot be read: the app is built again from what there was.
GroupAtFirst == [n \in 0 .. MaxEdits |-> IF n = 0 THEN Names ELSE {}]

\* The groupcache group is in every configuration, as it is by default.
GroupAlways == [n \in 0 .. MaxEdits |-> Names]
=============================================================================
