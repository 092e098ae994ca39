---------------------------- MODULE MCCrateCycles ----------------------------
(***************************************************************************)
(* Every graph of up to four crates, one of which may also import itself   *)
(* and a path that starts with `::`.                                       *)
(***************************************************************************)
EXTENDS CrateCycles

MCImports == {p \in Crate \X Crate : p[1] # p[2]} \cup {<<1, 1>>, <<1, Empty>>}
=============================================================================
