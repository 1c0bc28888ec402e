------------------------- MODULE MCProductLaunches -------------------------
(***************************************************************************)
(* An instance of ProductLaunches for TLC: a launcher, a target inside the *)
(* installation and one outside, and two changes.  Four records between    *)
(* the ledgers are enough to approve and revoke under both policies, or to *)
(* approve, revoke and approve again under one.                            *)
(***************************************************************************)
EXTENDS ProductLaunches

Changes == 0..2

MaxTotal == 4

FewRecords == Len(strict) + Len(installed) <= MaxTotal
=============================================================================
