--------------------------- MODULE MCRemoteDataTracks ---------------------------
(***************************************************************************)
(* Small instances of RemoteDataTracks for TLC.                            *)
(***************************************************************************)
EXTENDS RemoteDataTracks, TLC

CONSTANTS a1, a2, b1   \* SIDs: one publisher reconnects, another does not

MCKey == a1 :> "a" @@ a2 :> "a" @@ b1 :> "b"
MCMeta == a1 :> "same" @@ a2 :> "same" @@ b1 :> "same"
\* The reconnected publisher changed its track: a new publication.
MCMetaChanged == a1 :> "same" @@ a2 :> "other" @@ b1 :> "same"

Symmetry == Permutations(Callers) \cup Permutations(Handles) \cup Permutations(Tracks)
=============================================================================
