---------------------------- MODULE MCBondStore -----------------------------
(* Small instances of BondStore for TLC. *)
EXTENDS BondStore

TwoTables == <<"our", "peer">>

=============================================================================
