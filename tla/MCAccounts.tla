----------------------------- MODULE MCAccounts -----------------------------
(***************************************************************************)
(* One account, a few links, two requests at a time.                       *)
(***************************************************************************)
EXTENDS Accounts, TLC

Change(role, active, pwd) == [role |-> role, active |-> active, pwd |-> pwd]

\* One field at a time: a password, or whether the account is active.
MCEdits == {Change({}, {}, {p}) : p \in Passwords} \cup {Change({}, {b}, {}) : b \in BOOLEAN}

\* Roles and activity only.
RoleEdits == {Change({}, {FALSE}, {}), Change({"STAFF"}, {}, {})}

Symmetry == Permutations(Passwords) \cup Permutations(Calls) \cup Permutations(Links)
=============================================================================
