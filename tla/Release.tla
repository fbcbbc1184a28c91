------------------------------- MODULE Release ------------------------------
(***************************************************************************)
(* The release pipeline, .github/workflows/release.yml: one job per pushed *)
(* v* tag (concurrency group per ref, so one run at a time of one tag; runs *)
(* of two tags interleave), its steps in order, each of which may fail and  *)
(* end the run, and the re-runs that resume a release which is partly out.  *)
(*                                                                         *)
(* A version and its tag are one value.  A build is named by the commit it *)
(* was made of and a number: no two builds are alike (the SBOM carries a   *)
(* timestamp), so a set of files is one build's or it is a mixture.        *)
(***************************************************************************)
EXTENDS Naturals

CONSTANTS
  Tags,           \* the tags that may be pushed, and the versions they name
  CargoVersion,   \* what Cargo.toml says at the commit of each tag
  MaxFaults       \* bound: failures, lost answers, needless re-runs

ASSUME ReleaseAssumption ==
  /\ CargoVersion \in [Tags -> Tags]
  /\ Tags \cap {"none", "torn"} = {}
  /\ MaxFaults \in Nat

VARIABLES
  step,     \* where the run of each tag is
  pkg,      \* the build in the run's pkg directory
  builds,   \* how many builds were made in all
  crates,   \* crates.io: the commit each version was published from
  npm,      \* the npm registry: the build published as each version
  assets,   \* the files of each tag's GitHub Release
  faults    \* faults so far

runVars     == <<step, pkg, builds>>
publicVars  == <<crates, npm, assets>>
releaseVars == <<runVars, publicVars, faults>>

Files   == {"js", "wasm", "sbom", "sums"}
Working == {"guard", "gates", "crates", "build", "npm", "release"}
NoBuild == [of |-> "none", n |-> 0]
None    == "none"

ReleaseInit ==
  /\ step = [t \in Tags |-> "untagged"]
  /\ pkg = [t \in Tags |-> NoBuild]
  /\ builds = 0
  /\ crates = [v \in Tags |-> None]
  /\ npm = [v \in Tags |-> NoBuild]
  /\ assets = [t \in Tags |-> [f \in Files |-> NoBuild]]
  /\ faults = 0

Fault == faults < MaxFaults /\ faults' = faults + 1

-----------------------------------------------------------------------------
(* The steps of a run *)

Goto(t, from, to) == step[t] = from /\ step' = [step EXCEPT ![t] = to]

PushTag(t) ==
  /\ Goto(t, "untagged", "guard")
  /\ UNCHANGED <<pkg, builds, publicVars, faults>>

(* Faulty variant: no guard.                                                 *)
VerifyNothing(t) ==
  /\ Goto(t, "guard", "gates")
  /\ UNCHANGED <<pkg, builds, publicVars, faults>>

(* Verify Cargo.toml version matches tag.                                    *)
VerifyVersion(t) ==
  /\ Goto(t, "guard", IF CargoVersion[t] = t THEN "gates" ELSE "failed")
  /\ UNCHANGED <<pkg, builds, publicVars, faults>>

(* Formatting, lints, tests, audit.                                          *)
QualityGates(t) ==
  /\ Goto(t, "gates", "crates")
  /\ UNCHANGED <<pkg, builds, publicVars, faults>>

Crate(t) == CargoVersion[t]

(* Faulty variant: cargo's "already exists" is an error like any other.      *)
PublishCrateOnce(t) ==
  /\ Goto(t, "crates", IF crates[Crate(t)] = None THEN "build" ELSE "failed")
  /\ crates' = IF crates[Crate(t)] = None THEN [crates EXCEPT ![Crate(t)] = t] ELSE crates
  /\ UNCHANGED <<pkg, builds, npm, assets, faults>>

(* cargo publish: a version that is on crates.io already is left as it is    *)
(* and the run goes on.                                                      *)
PublishCrate(t) ==
  /\ Goto(t, "crates", "build")
  /\ crates' = IF crates[Crate(t)] = None THEN [crates EXCEPT ![Crate(t)] = t] ELSE crates
  /\ UNCHANGED <<pkg, builds, npm, assets, faults>>

(* wasm-pack, SBOM, checksums, cosign, attestation: all of one build.        *)
BuildPackage(t) ==
  /\ Goto(t, "build", "npm")
  /\ builds' = builds + 1
  /\ pkg' = [pkg EXCEPT ![t] = [of |-> t, n |-> builds']]
  /\ UNCHANGED <<publicVars, faults>>

OnNpm(v) == npm[v] # NoBuild

(* npm publish, with the same resumption.                                    *)
PublishNpm(t) ==
  /\ Goto(t, "npm", "release")
  /\ npm' = IF OnNpm(Crate(t)) THEN npm ELSE [npm EXCEPT ![Crate(t)] = pkg[t]]
  /\ UNCHANGED <<pkg, builds, crates, assets, faults>>

(* npm publish refused with status 403 for a reason of its own (a trusted    *)
(* publisher not set up, two-factor policy): the step reads any 403 as       *)
(* "already published" and the run goes on.                                  *)
NpmForbids(t) ==
  /\ Goto(t, "npm", "release")
  /\ ~OnNpm(Crate(t))
  /\ Fault
  /\ UNCHANGED <<pkg, builds, publicVars>>

(* action-gh-release uploads the files in any order (the two cosign bundles  *)
(* like the rest); a file of that name from an earlier run is deleted first. *)
UploadAsset(t, f) ==
  /\ step[t] = "release"
  /\ assets[t][f] # pkg[t]
  /\ assets' = [assets EXCEPT ![t][f] = IF @ = NoBuild THEN pkg[t] ELSE NoBuild]
  /\ UNCHANGED <<runVars, crates, npm, faults>>

FinishRelease(t) ==
  /\ Goto(t, "release", "done")
  /\ \A f \in Files : assets[t][f] = pkg[t]
  /\ UNCHANGED <<pkg, builds, publicVars, faults>>

-----------------------------------------------------------------------------
(* Faults and re-runs *)

(* A step fails before it did anything to the outside.                       *)
StepFails(t) ==
  /\ step[t] \in Working
  /\ step' = [step EXCEPT ![t] = "failed"]
  /\ Fault
  /\ UNCHANGED <<pkg, builds, publicVars>>

(* A registry took the upload and its answer was lost: the step fails.       *)
CrateAnswerLost(t) ==
  /\ Goto(t, "crates", "failed")
  /\ crates[Crate(t)] = None
  /\ crates' = [crates EXCEPT ![Crate(t)] = t]
  /\ Fault
  /\ UNCHANGED <<pkg, builds, npm, assets>>

NpmAnswerLost(t) ==
  /\ Goto(t, "npm", "failed")
  /\ ~OnNpm(Crate(t))
  /\ npm' = [npm EXCEPT ![Crate(t)] = pkg[t]]
  /\ Fault
  /\ UNCHANGED <<pkg, builds, crates, assets>>

(* Faulty variant: a runner that still has the last run's pkg directory.     *)
RestartedDirty(t) == UNCHANGED <<pkg, builds, publicVars>>

(* Re-running a failed run starts the job over on a clean runner.            *)
Restarted(t) == pkg' = [pkg EXCEPT ![t] = NoBuild] /\ UNCHANGED <<builds, publicVars>>

Rerun(t) == Goto(t, "failed", "guard") /\ Restarted(t) /\ UNCHANGED faults

(* A run that succeeded can be re-run as well.                               *)
RerunDone(t) == Goto(t, "done", "guard") /\ Restarted(t) /\ Fault

Advance(t) ==
  \/ VerifyVersion(t) \/ QualityGates(t) \/ PublishCrate(t) \/ BuildPackage(t)
  \/ PublishNpm(t) \/ FinishRelease(t)
  \/ \E f \in Files : UploadAsset(t, f)

Disturb(t) ==
  \/ StepFails(t) \/ CrateAnswerLost(t) \/ NpmAnswerLost(t) \/ NpmForbids(t)
  \/ RerunDone(t)

ReleaseNext == \E t \in Tags : PushTag(t) \/ Advance(t) \/ Rerun(t) \/ Disturb(t)

(* GitHub carries a run on to its end; somebody re-runs a failed release.    *)
ReleaseFairness == \A t \in Tags : WF_releaseVars(Advance(t)) /\ WF_releaseVars(Rerun(t))

ReleaseSpec == ReleaseInit /\ [][ReleaseNext]_releaseVars /\ ReleaseFairness

-----------------------------------------------------------------------------
(* Properties *)

BuildType == [of : Tags, n : Nat \ {0}] \cup {NoBuild}

(* Types of the variables; a run holds a build from its build step on, never *)
(* before (a fresh runner for every run).                                    *)
ReleaseTypeOK ==
  /\ step \in [Tags -> Working \cup {"untagged", "failed", "done"}]
  /\ pkg \in [Tags -> BuildType]
  /\ builds \in Nat
  /\ crates \in [Tags -> Tags \cup {None}]
  /\ npm \in [Tags -> BuildType]
  /\ assets \in [Tags -> [Files -> BuildType]]
  /\ \A t \in Tags :
        /\ step[t] \in {"npm", "release", "done"} => pkg[t] # NoBuild
        /\ step[t] \in {"untagged", "guard", "gates", "crates", "build"} => pkg[t] = NoBuild
  /\ faults \in 0..MaxFaults

(* Whatever is out under a version, on either registry or on the release     *)
(* page, was made of the commit that version's tag names, and nothing of a   *)
(* version is out before its crate is: a run on a commit whose Cargo.toml    *)
(* names another version publishes nothing, and a failed publish stops the   *)
(* run before npm and the release page (the version guard, the step order).  *)
PublishedAsTagged ==
  \A t \in Tags :
    /\ crates[t] \in {t, None}
    /\ npm[t].of \in {t, None}
    /\ \A f \in Files : assets[t][f].of \in {t, None}
    /\ (OnNpm(t) \/ \E f \in Files : assets[t][f] # NoBuild) => crates[t] = t

(* The files of a finished release are all of one build, and npm has that    *)
(* build of the version or one before it, never a later one: what a resumed  *)
(* run leaves behind on npm is at most old, whatever was lost on the way and *)
(* whichever other tags were released beside it.                             *)
DonePageIsLatest ==
  \A t \in Tags : step[t] = "done" =>
    /\ \A f, g \in Files : assets[t][f] = assets[t][g]
    /\ \A f \in Files : assets[t][f] # NoBuild /\ npm[t].n <= assets[t][f].n

(* How far a run has to go: the steps ahead of it, and what its release page *)
(* has to see, two uploads for a file of another build, one for a missing    *)
(* file.  A failed run has all of it before it.                              *)
StepsAhead(t) ==
  CASE step[t] = "guard"   -> 6 [] step[t] = "gates" -> 5 [] step[t] = "crates" -> 4
    [] step[t] = "build"   -> 3 [] step[t] = "npm"   -> 2 [] step[t] = "release" -> 1
    [] step[t] = "done"    -> 0 [] OTHER -> 7

Uploads(t, f) ==
  IF assets[t][f] = pkg[t] THEN 0 ELSE IF assets[t][f] = NoBuild THEN 1 ELSE 2

ToGo(t) ==
  9 * StepsAhead(t)
    + Uploads(t, "js") + Uploads(t, "wasm") + Uploads(t, "sbom") + Uploads(t, "sums")

(* Short of a fault, whatever changes a run of a rightly versioned tag       *)
(* brings it nearer to its end: neither what an earlier run put on crates.io, *)
(* npm or the page, nor another tag's run, sets it back or makes it fail, and *)
(* it never exchanges files with itself for ever.                            *)
RunsGetNearer ==
  [][\A t \in Tags :
       CargoVersion[t] = t /\ step[t] \in Working /\ faults' = faults =>
         \/ ToGo(t)' < ToGo(t)
         \/ UNCHANGED <<step[t], pkg[t], assets[t]>>]_releaseVars

(* A release that stopped half way completes once it is re-run without       *)
(* faults: what is out already never makes a later run fail ("idempotent by  *)
(* design").                                                                 *)
ResumedReleaseCompletes ==
  \A t \in Tags : CargoVersion[t] = t => (step[t] = "failed" ~> step[t] = "done")

(* What the comments of the two publish steps say: only "already published"  *)
(* lets a run go on, any other publish error fails fast.  So a run that      *)
(* finished has its version on npm.                                          *)
DoneIsOnNpm == \A t \in Tags : step[t] = "done" => OnNpm(Crate(t))
=============================================================================
