-------------------------- MODULE MCVaultLifecycle --------------------------
(***************************************************************************)
(* Model-checking instance of VaultLifecycle.  With one provider a         *)
(* behaviour has two logged mutations and a direct one of this tab, or one *)
(* logged mutation beside the trash and another device.  With two it has   *)
(* mutations of rows, over several sessions, or edits of the manifest, in  *)
(* one: the two write different files and different state.                 *)
(***************************************************************************)
EXTENDS VaultLifecycle

OwnOrShared ==
    \/ issued' \subseteq Logged \cup Direct /\ remoteDb' = NoRows
    \/ issued' \cap Direct = {} /\ Cardinality(issued' \cap Logged) <= 1

EitherKind ==
    \/ issued' \subseteq Mutations
    \/ issued' \subseteq Edits /\ sessions' <= 1

ProvidersNext == RunNext \/ ((OpenNext \/ StartNext) /\ EitherKind)
ProvidersSpec == Init /\ [][ProvidersNext]_vars
=============================================================================
