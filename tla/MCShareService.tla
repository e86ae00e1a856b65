---------------------------- MODULE MCShareService ----------------------------
(* The constants of ShareService for TLC. *)
EXTENDS ShareService, TLC

CONSTANTS r1, r2, s1, alice, bob, secret

MCForm(days, download, password, objects) ==
    [days |-> days, allowDownload |-> download, password |-> password,
     objects |-> objects]

\* An open share for ever, one with a password for a day, and one refused.
MCForms == {MCForm(0, TRUE, "", 1), MCForm(1, FALSE, secret, 2),
            MCForm(0, TRUE, " ", 0)}

\* Permissions an owner may set; the second leaves the owner out.
MCPermissionForms == {[allowAnonymous |-> FALSE, users |-> {}]}

\* For the expiry: shares that can be downloaded, for ever and for a day, and an update
\* that leaves the permissions as a remove of the owner does.
MCExpiryForms == {MCForm(0, TRUE, "", 1), MCForm(1, TRUE, "", 1)}
MCExpiryPermissionForms == {[allowAnonymous |-> TRUE, users |-> {}]}

MCSymmetry == Permutations({r1, r2}) \cup Permutations({alice, bob})
=============================================================================
