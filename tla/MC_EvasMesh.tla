------------------------------ MODULE MC_EvasMesh -----------------------------
(* Model-checking instance of EvasMesh: two frames, two materials, two    *)
(* nodes; the plain settings are left out of the state TLC compares, as   *)
(* no action other than their setters reads them.                         *)
EXTENDS EvasMesh, TLC

\* The nodes, and the materials, are interchangeable.
MeshSymmetry == Permutations(Nodes) \cup Permutations(Materials)

MCMeshView == <<frames, material, vb, vertex_count, index, index_mapped, nodes, alive,
                users, mat_meshes, mat_refs>>
=============================================================================
