-------------------------- MODULE MCSnapshotStore --------------------------
(***************************************************************************)
(* Small instances of SnapshotStore: two owners, two rows of the first and *)
(* one that both share, which shadows one of the others.                   *)
(***************************************************************************)
EXTENDS SnapshotStore, TLC

CONSTANTS alice, bob, own1, own2, shared, h1, h2

\* own2 and the shared row are read by a later query than own1.
MCRow == {own1, own2, shared}
MCScopeOf == [r \in Row |-> IF r \in {own1, own2} THEN alice ELSE Global]
MCKeyOf == [r \in Row |-> IF r = own1 THEN 1 ELSE 2]
MCRankOf == [r \in Row |-> IF r = shared THEN 2 ELSE 1]
MCPartOf == [r \in Row |-> IF r = own1 THEN 1 ELSE 2]
MCOwners == <<alice, bob>>

\* One handler serves a user and an admin, the other a user.
MCMay == [t \in Handler |->
            IF t = h1 THEN {"own", "global"} ELSE {"own", "rebuild", "rollback"}]
=============================================================================
