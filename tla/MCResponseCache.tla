--------------------------- MODULE MCResponseCache ---------------------------
(* The constants of ResponseCache for TLC. *)
EXTENDS ResponseCache, TLC

CONSTANTS appKey, s1, s2, v1, en, zh

\* Two requests for one route that differ in one vary header.
Request(lang) ==
    [method |-> "GET", route |-> "/files", bypass |-> FALSE,
     headers |-> [n \in Names |-> IF n = Low THEN lang ELSE ""]]
MCRequests == {Request(en), Request(zh)}

MCKeys == {KeyOf(q, n1, n2) : q \in MCRequests, n1, n2 \in Names} \union {appKey}
MCAppKeys == {appKey}

MCAnswers == {[ok |-> TRUE, shared |-> TRUE, maxAge |-> 2],
              [ok |-> TRUE, shared |-> FALSE, maxAge |-> 0]}

\* Bound: once two requests met at the list out of order, whose keys are then of no
\* account for SameVariant, the clock runs on to the next half second only.
OverlapIsBrief == overlap => now <= Second + 1

MCSymmetry == Permutations(Slots) \cup Permutations({en, zh})
=============================================================================
