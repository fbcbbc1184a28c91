------------------------------ MODULE MCRelease ------------------------------
(* The pipeline with two tags: v1, and v2 pushed on a commit that still says *)
(* v1 in Cargo.toml (as v0.10.4 was).                                        *)
EXTENDS Release

Unbumped == [t \in Tags |-> "v1"]
=============================================================================
