-------------------------- MODULE MCArtifactStore --------------------------
(* Two threads, an address that matters and one that serves as wrong       *)
(* content; threads and metadata are interchangeable.                      *)
EXTENDS ArtifactStore, TLC

CONSTANTS A1, A2, V1, V2, M1, M2

MCActor == {A1, A2}
MCValue == {V1, V2}
MCMedia == {M1, M2}
Interchangeable == Permutations(MCActor) \cup Permutations(MCMedia)
=============================================================================
