---------------------------- MODULE MCUpdateWasm ----------------------------
(* The script beside the pipeline: every tag's Cargo.toml is as it should be *)
(* (a run that is not is MCRelease's subject).                               *)
EXTENDS UpdateWasm

Bumped == [t \in Tags |-> t]
=============================================================================
