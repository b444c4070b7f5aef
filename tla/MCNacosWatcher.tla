--------------------------- MODULE MCNacosWatcher ---------------------------
(***************************************************************************)
(* Finite instances of NacosWatcher: one usable instance the registry may  *)
(* hold now, one usable instance a previous run left on disk, and one      *)
(* instance usable_instances drops.                                        *)
(***************************************************************************)
EXTENDS NacosWatcher, TLC

CONSTANTS live, old, sick

MCInstance == {live, old, sick}
MCHealthy == {live, old}
MCRegistryLists == {{live}, {sick}}
MCDiskLists == {NoEntry, {}, {old}}
MCLiveDiskLists == {NoEntry, {old}}

QuerySymmetry == Permutations(Query)
=============================================================================
