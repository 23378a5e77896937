---------------------------- MODULE MCNamedLock ----------------------------
(* NamedLock for TLC: a process that connects or else overwrites, as       *)
(* SHMResourceManager does; one that creates; one that does either.        *)
EXTENDS NamedLock, TLC
CONSTANTS p1, p2, p3
Uses == p1 :> {"CONNECT_TO_EXISTING", "CREATE_NEW_OVERWRITE"}
        @@ p2 :> {"CREATE_NEW_OVERWRITE", "CREATE_NEW_EXCLUSIVE"}
        @@ p3 :> {"CONNECT_OR_CREATE"}
=============================================================================
