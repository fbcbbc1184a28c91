--------------------------- MODULE ReleaseProofs ----------------------------
(***************************************************************************)
(* What is out was made as tagged, and a finished update left the project  *)
(* whole: for any set of tags, whatever each commit's Cargo.toml says, and *)
(* any number of faults.                                                   *)
(***************************************************************************)
EXTENDS UpdateWasm, TLAPS

USE DEF NoBuild, None

-----------------------------------------------------------------------------
(* The pipeline.  A run gets past the guard only on a commit whose Cargo.toml *)
(* says what its tag says; from there on its crate is Crate(t) = t.          *)

PastGuard == {"gates", "crates", "build", "npm", "release", "done"}
CrateOut  == {"build", "npm", "release", "done"}

RunInv(t) ==
  /\ step[t] \in PastGuard => CargoVersion[t] = t
  /\ step[t] \in CrateOut => crates[t] = t

PageInv(t) ==
  /\ crates[t] \in {t, "none"}
  /\ npm[t].of \in {t, "none"}
  /\ \A f \in Files : assets[t][f].of \in {t, "none"}
  /\ (npm[t] # NoBuild \/ \E f \in Files : assets[t][f] # NoBuild) => crates[t] = t

PkgInv(t) == pkg[t] \in [of : {t}, n : Nat \ {0}] \cup {NoBuild}

ReleaseInv ==
  /\ ReleaseTypeOK
  /\ \A t \in Tags : RunInv(t) /\ PageInv(t) /\ PkgInv(t)

LEMMA ReleaseInvInit == ReleaseInit => ReleaseInv
  BY ReleaseAssumption DEF ReleaseInit, ReleaseInv, ReleaseTypeOK, RunInv, PageInv, PkgInv,
       BuildType, PastGuard, CrateOut, Working, Files

(* The runs' own steps, one by one.                                          *)
LEMMA ReleaseInvStep == ReleaseInv /\ [ReleaseNext]_releaseVars => ReleaseInv'
<1> SUFFICES ASSUME ReleaseInv, [ReleaseNext]_releaseVars PROVE ReleaseInv'
  OBVIOUS
<1> USE ReleaseAssumption
<1> USE DEF ReleaseInv, ReleaseTypeOK, RunInv, PageInv, PkgInv, BuildType, PastGuard,
            CrateOut, Working, publicVars, runVars, releaseVars
<1>1. ASSUME NEW t \in Tags, PushTag(t) PROVE ReleaseInv'
  BY <1>1 DEF PushTag, Goto
<1>2. ASSUME NEW t \in Tags, VerifyVersion(t) PROVE ReleaseInv'
  BY <1>2 DEF VerifyVersion, Goto
<1>3. ASSUME NEW t \in Tags, QualityGates(t) PROVE ReleaseInv'
  BY <1>3 DEF QualityGates, Goto
<1>4. ASSUME NEW t \in Tags, PublishCrate(t) PROVE ReleaseInv'
  BY <1>4 DEF PublishCrate, Goto, Crate
<1>5. ASSUME NEW t \in Tags, BuildPackage(t) PROVE ReleaseInv'
  BY <1>5 DEF BuildPackage, Goto
<1>6. ASSUME NEW t \in Tags, PublishNpm(t) PROVE ReleaseInv'
  BY <1>6 DEF PublishNpm, Goto, Crate, OnNpm
<1>7. ASSUME NEW t \in Tags, FinishRelease(t) PROVE ReleaseInv'
  BY <1>7 DEF FinishRelease, Goto
<1>8. ASSUME NEW t \in Tags, StepFails(t) PROVE ReleaseInv'
  BY <1>8 DEF StepFails, Fault
<1>9. ASSUME NEW t \in Tags, CrateAnswerLost(t) PROVE ReleaseInv'
  BY <1>9 DEF CrateAnswerLost, Goto, Crate, Fault
<1>10. ASSUME NEW t \in Tags, NpmAnswerLost(t) PROVE ReleaseInv'
  BY <1>10 DEF NpmAnswerLost, Goto, Crate, OnNpm, Fault
<1>11. ASSUME NEW t \in Tags, NpmForbids(t) PROVE ReleaseInv'
  BY <1>11 DEF NpmForbids, Goto, Fault
<1>12. ASSUME NEW t \in Tags, Rerun(t) PROVE ReleaseInv'
  BY <1>12 DEF Rerun, Goto, Restarted
<1>13. ASSUME NEW t \in Tags, RerunDone(t) PROVE ReleaseInv'
  BY <1>13 DEF RerunDone, Goto, Restarted, Fault
<1>14. ASSUME NEW t \in Tags, NEW f \in Files, UploadAsset(t, f) PROVE ReleaseInv'
  BY <1>14 DEF UploadAsset
<1>15. CASE UNCHANGED releaseVars
  BY <1>15
<1>16. QED
  BY <1>1, <1>2, <1>3, <1>4, <1>5, <1>6, <1>7, <1>8, <1>9, <1>10, <1>11, <1>12, <1>13, <1>14, <1>15 DEF ReleaseNext, Advance, Disturb

LEMMA ReleaseInvAlways == ReleaseSpec => []ReleaseInv
  BY ReleaseInvInit, ReleaseInvStep, PTL DEF ReleaseSpec

(* PublishedAsTagged is the page part of the invariant.                      *)
LEMMA PageIsTagged == ReleaseInv => PublishedAsTagged
  BY DEF ReleaseInv, PageInv, PublishedAsTagged, OnNpm

(* Nothing is ever out under a version that was not made of that version's   *)
(* commit, whatever Cargo.toml says there (the version guard).               *)
THEOREM ReleaseAsTagged == ReleaseSpec => []PublishedAsTagged
BY ReleaseInvAlways, PageIsTagged, PTL

(* The pipeline's variables are always typed; a run has a build from its     *)
(* build step on and not before.                                             *)
THEOREM ReleaseTypeCorrect == ReleaseSpec => []ReleaseTypeOK
BY ReleaseInvAlways, PTL DEF ReleaseInv

-----------------------------------------------------------------------------
(* Builds are numbered in the order they were made, and only t's own run     *)
(* (Crate(u) = t past the guard only for u = t) puts anything on npm as t.   *)

NumberInv(t) ==
  /\ npm[t].n <= builds /\ pkg[t].n <= builds
  /\ step[t] \in {"npm", "release", "done"} => npm[t].n <= pkg[t].n
  /\ step[t] = "done" => \A f \in Files : assets[t][f] = pkg[t]

NumbersInv == \A t \in Tags : NumberInv(t)

LEMMA NumberInvInit == ReleaseInit => NumbersInv
<1> SUFFICES ASSUME ReleaseInit, NEW t \in Tags PROVE NumberInv(t)
  BY DEF NumbersInv
<1>1. step[t] = "untagged" /\ npm[t].n = 0 /\ pkg[t].n = 0 /\ builds = 0
  BY DEF ReleaseInit
<1>2. QED
  BY <1>1 DEF NumberInv

LEMMA NumberInvStep == ReleaseInv /\ NumbersInv /\ [ReleaseNext]_releaseVars => NumbersInv'
<1> SUFFICES ASSUME ReleaseInv, \A t \in Tags : NumberInv(t), [ReleaseNext]_releaseVars,
                    NEW v \in Tags
             PROVE  NumberInv(v)'
  BY DEF NumbersInv
<1> USE DEF NumberInv, publicVars, runVars, releaseVars
<1>0. /\ npm \in [Tags -> BuildType] /\ pkg \in [Tags -> BuildType]
      /\ step \in [Tags -> Working \cup {"untagged", "failed", "done"}]
      /\ builds \in Nat /\ assets \in [Tags -> [Files -> BuildType]]
      /\ npm[v].n \in Nat /\ pkg[v].n \in Nat
      /\ \A t \in Tags : step[t] \in PastGuard => CargoVersion[t] = t
  BY DEF ReleaseInv, ReleaseTypeOK, BuildType, RunInv
<1>1. ASSUME NEW t \in Tags, Goto(t, step[t], step'[t]), step'[t] \notin {"npm", "release", "done"},
             UNCHANGED <<pkg, builds, npm, assets>>
      PROVE  NumberInv(v)'
  BY <1>0, <1>1 DEF Goto
<1>2. ASSUME NEW t \in Tags, BuildPackage(t) PROVE NumberInv(v)'
  BY <1>0, <1>2 DEF BuildPackage, Goto
<1>3. ASSUME NEW t \in Tags, PublishNpm(t) PROVE NumberInv(v)'
  BY <1>0, <1>3 DEF PublishNpm, Goto, Crate, OnNpm, PastGuard
<1>4. ASSUME NEW t \in Tags, NpmForbids(t) PROVE NumberInv(v)'
  BY <1>0, <1>4 DEF NpmForbids, Goto
<1>5. ASSUME NEW t \in Tags, NpmAnswerLost(t) PROVE NumberInv(v)'
  BY <1>0, <1>5 DEF NpmAnswerLost, Goto, Crate, OnNpm, PastGuard
<1>6. ASSUME NEW t \in Tags, Rerun(t) \/ RerunDone(t) PROVE NumberInv(v)'
  BY <1>0, <1>6 DEF Rerun, RerunDone, Goto, Restarted
<1>7. ASSUME NEW t \in Tags, NEW f \in Files, UploadAsset(t, f) PROVE NumberInv(v)'
  BY <1>0, <1>7 DEF UploadAsset
<1>8. ASSUME NEW t \in Tags, FinishRelease(t) PROVE NumberInv(v)'
  BY <1>0, <1>8 DEF FinishRelease, Goto
<1>9. CASE UNCHANGED releaseVars
  BY <1>9
<1>10. ASSUME NEW t \in Tags, PushTag(t) \/ VerifyVersion(t) \/ QualityGates(t) \/ PublishCrate(t)
                               \/ StepFails(t) \/ CrateAnswerLost(t)
       PROVE NumberInv(v)'
  BY <1>0, <1>1, <1>10
     DEF PushTag, VerifyVersion, QualityGates, PublishCrate, StepFails, CrateAnswerLost, Goto
<1>11. QED
  BY <1>2, <1>3, <1>4, <1>5, <1>6, <1>7, <1>8, <1>9, <1>10 DEF ReleaseNext, Advance, Disturb

(* The page of a finished release is of one build, and npm is not ahead of   *)
(* it, whatever was lost and whichever other tags were released beside it.   *)
THEOREM DonePageIsNewest == ReleaseSpec => []DonePageIsLatest
<1>1. ReleaseInv /\ NumbersInv => DonePageIsLatest
  BY DEF ReleaseInv, ReleaseTypeOK, NumbersInv, NumberInv, DonePageIsLatest
<1>2. QED
  BY <1>1, NumberInvInit, NumberInvStep, ReleaseInvAlways, PTL DEF ReleaseSpec

-----------------------------------------------------------------------------
(* ToGo is a rank of t's run that every faultless step lowers or leaves: the *)
(* argument by which a resumed release completes.                            *)

UploadsToGo(t) ==
  Uploads(t, "js") + Uploads(t, "wasm") + Uploads(t, "sbom") + Uploads(t, "sums")

LEMMA ToGoRange ==
  ASSUME NEW t \in Tags
  PROVE  /\ StepsAhead(t) \in 0..7 /\ StepsAhead(t)' \in 0..7
         /\ \A f : Uploads(t, f) \in 0..2 /\ Uploads(t, f)' \in 0..2
         /\ UploadsToGo(t) \in 0..8 /\ UploadsToGo(t)' \in 0..8
         /\ ToGo(t) = 9 * StepsAhead(t) + UploadsToGo(t)
         /\ ToGo(t)' = 9 * StepsAhead(t)' + UploadsToGo(t)'
<1>1. StepsAhead(t) \in 0..7 /\ StepsAhead(t)' \in 0..7
  BY DEF StepsAhead
<1>2. \A f : Uploads(t, f) \in 0..2 /\ Uploads(t, f)' \in 0..2
  BY DEF Uploads
<1>3. QED
  BY <1>1, <1>2 DEF UploadsToGo, ToGo

(* One file moved nearer, the others left alone.                             *)
LEMMA UploadGetsNearer ==
  ASSUME ReleaseTypeOK, NEW t \in Tags, NEW f \in Files, UploadAsset(t, f)
  PROVE  ToGo(t)' < ToGo(t)
<1> USE DEF Files
<1>1. /\ assets \in [Tags -> [Files -> BuildType]] /\ UNCHANGED <<step, pkg>>
      /\ pkg[t] # NoBuild /\ assets[t][f] # pkg[t]
      /\ assets'[t][f] = IF assets[t][f] = NoBuild THEN pkg[t] ELSE NoBuild
      /\ \A g \in Files \ {f} : assets'[t][g] = assets[t][g]
  BY DEF ReleaseTypeOK, UploadAsset, runVars
<1>2. Uploads(t, f)' < Uploads(t, f)
  BY <1>1 DEF Uploads
<1>3. \A g \in Files \ {f} : Uploads(t, g)' = Uploads(t, g)
  BY <1>1 DEF Uploads
<1>4. StepsAhead(t)' = StepsAhead(t)
  BY <1>1 DEF StepsAhead
<1>5. \A g : Uploads(t, g) \in Nat /\ Uploads(t, g)' \in Nat
  BY ToGoRange
<1>6. QED
  BY <1>2, <1>3, <1>4, <1>5, ToGoRange DEF ToGo

(* Short of a fault, whatever changes a run of a rightly versioned tag       *)
(* brings it nearer to its end: what is out already never makes it fail, and *)
(* no other tag's run sets it back.  From the guard it has 62 at most.        *)
THEOREM RunsComeToAnEnd == ReleaseSpec => RunsGetNearer
<1> DEFINE Same(t) == UNCHANGED <<step[t], pkg[t], assets[t]>>
           Nearer == \A t \in Tags :
                       CargoVersion[t] = t /\ step[t] \in Working /\ faults' = faults =>
                         \/ ToGo(t)' < ToGo(t)
                         \/ UNCHANGED <<step[t], pkg[t], assets[t]>>
<1>1. ReleaseInv /\ [ReleaseNext]_releaseVars => [Nearer]_releaseVars
  <2> SUFFICES ASSUME ReleaseInv, [ReleaseNext]_releaseVars, NEW v \in Tags,
                      CargoVersion[v] = v, step[v] \in Working, faults' = faults
               PROVE  ToGo(v)' < ToGo(v) \/ Same(v)
    OBVIOUS
  <2>0. ReleaseTypeOK /\ faults \in Nat
    BY ReleaseAssumption DEF ReleaseInv, ReleaseTypeOK
  <2>1. ASSUME StepsAhead(v)' < StepsAhead(v) PROVE ToGo(v)' < ToGo(v)
    BY <2>1, ToGoRange
  <2>2. ASSUME NEW t \in Tags, t # v, Advance(t) \/ PushTag(t) \/ Rerun(t) PROVE Same(v)
    <3>1. ASSUME NEW f \in Files, UploadAsset(t, f) PROVE Same(v)
      BY <2>0, <2>2, <3>1 DEF UploadAsset, runVars, ReleaseTypeOK
    <3>2. QED
      BY <2>0, <2>2, <3>1 DEF Advance, PushTag, Rerun, Restarted, VerifyVersion, QualityGates,
         PublishCrate, BuildPackage, PublishNpm, FinishRelease, Goto, publicVars, ReleaseTypeOK
  <2>3. ASSUME NEW t \in Tags, Disturb(t) PROVE FALSE
    BY <2>0, <2>3 DEF Disturb, StepFails, CrateAnswerLost, NpmAnswerLost, NpmForbids, RerunDone, Fault
  <2>4. ASSUME VerifyVersion(v) \/ QualityGates(v) \/ PublishCrate(v) \/ BuildPackage(v)
               \/ PublishNpm(v) \/ FinishRelease(v)
        PROVE  StepsAhead(v)' < StepsAhead(v)
    BY <2>0, <2>4 DEF VerifyVersion, QualityGates, PublishCrate, BuildPackage, PublishNpm,
       FinishRelease, Goto, StepsAhead, ReleaseTypeOK
  <2>5. ~PushTag(v) /\ ~Rerun(v)
    BY DEF PushTag, Rerun, Goto, Working
  <2>6. CASE UNCHANGED releaseVars
    BY <2>6 DEF releaseVars, runVars, publicVars
  <2>7. QED
    BY <2>0, <2>1, <2>2, <2>3, <2>4, <2>5, <2>6, UploadGetsNearer DEF ReleaseNext, Advance
<1>2. QED
  BY <1>1, ReleaseInvAlways, PTL DEF ReleaseSpec, RunsGetNearer

-----------------------------------------------------------------------------
(* The script.  What was fetched so far is there and of the tag wanted; what *)
(* is copied passed the check, so it is one build; what was copied so far is *)
(* what Copy says.                                                           *)

FetchInv ==
  at = "fetch" => \A i \in 1..n : tmp[FetchOrder[i]] # NoBuild

CopyInv ==
  at \in {"copy", "finished"} =>
    /\ tmp["js"] = tmp["wasm"] /\ tmp["js"] = tmp["sums"] /\ tmp["js"] = tmp["sbom"]
    /\ tmp["js"] # NoBuild
    /\ \A i \in 1..n : project[CopyOrder[i]] = Copy(CopyOrder[i])

ScriptInv ==
  /\ at \in {"idle", "fetch", "copy", "finished"}
  /\ want \in Tags
  /\ n \in 0..5
  /\ at = "fetch" => n <= 4
  /\ at = "finished" => n = 5
  /\ tmp \in [Fetched -> BuildType]
  /\ \A f \in Fetched : tmp[f].of \in {want, "none"}
  /\ DOMAIN project = Copied
  /\ project = [f \in Copied |-> project[f]]
  /\ FetchInv
  /\ CopyInv

UpdateInv == ReleaseInv /\ ScriptInv

(* The types of the project's files, an invariant beside ScriptInv.          *)
ProjectInv ==
  /\ project.sums \in FileType \X FileType
  /\ \A f \in Copied \ {"sums"} : project[f] \in FileType

LEMMA UpdateInvInit == Init => UpdateInv
  BY ReleaseInvInit DEF Init, UpdateInv, ScriptInv, FetchInv, CopyInv, Fetched, Copied,
       Empty, BuildType

(* The pipeline's steps leave the script's files alone.                      *)
LEMMA ScriptInvKept == ScriptInv /\ UNCHANGED scriptVars => ScriptInv'
  BY DEF ScriptInv, FetchInv, CopyInv, scriptVars, Copy

(* A step of the script leaves the pipeline's variables alone.               *)
LEMMA ReleaseInvKept ==
  ReleaseInv /\ UNCHANGED <<runVars, publicVars>> /\ (faults' = faults \/ Fault) => ReleaseInv'
  BY ReleaseAssumption DEF ReleaseInv, ReleaseTypeOK, RunInv, PageInv, PkgInv, runVars,
       publicVars, Fault, BuildType

LEMMA Orders ==
  /\ Len(FetchOrder) = 4 /\ Len(CopyOrder) = 5
  /\ FetchOrder[1] = "js" /\ FetchOrder[2] = "wasm"
  /\ FetchOrder[3] = "sbom" /\ FetchOrder[4] = "sums"
  /\ CopyOrder[1] = "js" /\ CopyOrder[2] = "wasm" /\ CopyOrder[3] = "sums"
  /\ CopyOrder[4] = "version" /\ CopyOrder[5] = "served"
  BY DEF FetchOrder, CopyOrder

LEMMA ScriptInvStep == UpdateInv /\ [Next]_vars => ScriptInv'
<1> SUFFICES ASSUME ReleaseInv, ScriptInv, [Next]_vars PROVE ScriptInv'
  BY DEF UpdateInv
<1> USE DEF ScriptInv
<1>1. CASE ReleaseNext /\ UNCHANGED scriptVars
  BY <1>1, ScriptInvKept
<1>2. ASSUME NEW t \in Tags, StartUpdate(t) PROVE ScriptInv'
  BY <1>2 DEF StartUpdate, FetchInv, CopyInv, Empty, Fetched, BuildType
<1>3. CASE FetchNext
  <2> DEFINE file == assets[want][FetchOrder[n + 1]]
  <2>1. FetchOrder[n + 1] \in Fetched /\ n \in 0..3
    BY <1>3, Orders DEF FetchNext, Fetched
  <2>2. file \in BuildType /\ file.of \in {want, "none"}
    BY <2>1 DEF Fetched, Files, ReleaseInv, ReleaseTypeOK, PageInv
  <2>3. CASE file = NoBuild
    BY <1>3, <2>3 DEF FetchNext, FetchInv, CopyInv
  <2>4. CASE file # NoBuild
    <3>1. tmp' = [tmp EXCEPT ![FetchOrder[n + 1]] = file] /\ n' = n + 1
          /\ UNCHANGED <<at, want, project>>
      BY <1>3, <2>4 DEF FetchNext
    <3>2. tmp' \in [Fetched -> BuildType] /\ \A f \in Fetched : tmp'[f].of \in {want', "none"}
      BY <2>1, <2>2, <3>1
    <3>3. at' = "fetch" /\ n' \in 0..4
      BY <1>3, <2>1, <3>1 DEF FetchNext
    <3>4. FetchInv'
      BY <2>1, <2>4, <3>1, Orders DEF FetchInv, Fetched
    <3>5. CopyInv'
      BY <3>3 DEF CopyInv
    <3>6. QED
      BY <3>1, <3>2, <3>3, <3>4, <3>5
  <2>5. QED
    BY <2>3, <2>4
<1>4. CASE VerifyChecksums
  BY <1>4, Orders DEF VerifyChecksums, ChecksumsMatch, FetchInv, CopyInv
<1>5. CASE CopyNext
  <2>1. n \in 0..4 /\ CopyOrder[n + 1] \in Copied
    BY <1>5, Orders DEF CopyNext, Copied
  <2>2. at = "copy" /\ n' = n + 1 /\ UNCHANGED <<at, want, tmp>>
        /\ project' = [project EXCEPT ![CopyOrder[n + 1]] = Copy(CopyOrder[n + 1])]
    BY <1>5 DEF CopyNext
  <2>3. DOMAIN project' = Copied /\ project' = [f \in Copied |-> project'[f]]
    BY <2>1, <2>2
  <2>4. \A f : Copy(f)' = Copy(f)
    BY <2>2 DEF Copy
  <2>5. \A i \in 1..n + 1 : project'[CopyOrder[i]] = Copy(CopyOrder[i])
    BY <2>1, <2>2, Orders DEF CopyInv, Copied
  <2>6. CopyInv'
    BY <2>2, <2>4, <2>5 DEF CopyInv, CopyOrder
  <2>7. QED
    BY <2>1, <2>2, <2>3, <2>6 DEF FetchInv
<1>6. CASE FinishUpdate
  BY <1>6, Orders DEF FinishUpdate, FetchInv, CopyInv, Copy
<1>7. CASE Interrupted
  <2>1. DOMAIN project' = Copied /\ project' = [f \in Copied |-> project'[f]]
    BY <1>7 DEF Interrupted
  <2>2. QED
    BY <1>7, <2>1 DEF Interrupted, FetchInv, CopyInv, Empty, Fetched, BuildType
<1>8. CASE UNCHANGED vars
  BY <1>8, ScriptInvKept DEF vars
<1>9. QED
  BY <1>1, <1>2, <1>3, <1>4, <1>5, <1>6, <1>7, <1>8 DEF Next, Script

LEMMA UpdateInvStep == UpdateInv /\ [Next]_vars => UpdateInv'
<1> SUFFICES ASSUME UpdateInv, [Next]_vars PROVE ReleaseInv'
  BY ScriptInvStep DEF UpdateInv
<1>1. CASE ReleaseNext
  BY <1>1, ReleaseInvStep DEF UpdateInv
<1>2. CASE UNCHANGED <<runVars, publicVars>> /\ (faults' = faults \/ Fault)
  BY <1>2, ReleaseInvKept DEF UpdateInv
<1>3. QED
  BY <1>1, <1>2 DEF Next, Script, StartUpdate, FetchNext, VerifyChecksums, CopyNext,
       FinishUpdate, Interrupted, vars, releaseVars

LEMMA UpdateInvAlways == Spec => []UpdateInv
  BY UpdateInvInit, UpdateInvStep, PTL DEF Spec

(* However often updates were interrupted, and however the release page      *)
(* changed while files were being fetched, a finished update is of one build *)
(* of the tag asked for (checksums before copying, copying in order).        *)
THEOREM UpdateIsWhole == Spec => []FinishedIsWhole
<1>1. UpdateInv => FinishedIsWhole
  <2> SUFFICES ASSUME ScriptInv, at = "finished"
               PROVE  tmp["js"].of = want /\ WholeOf(tmp["js"])
    BY DEF UpdateInv, FinishedIsWhole
  <2>1. tmp["js"].of = want
    BY ReleaseAssumption DEF ScriptInv, CopyInv, Fetched, BuildType
  <2>2. /\ project["js"] = tmp["js"] /\ project["wasm"] = tmp["js"]
        /\ project["sums"] = <<tmp["js"], tmp["js"]>>
        /\ project["version"] = Label(want) /\ project["served"] = tmp["js"]
    BY Orders, SMTT(30) DEF ScriptInv, CopyInv, Copy
  <2>3. QED
    BY <2>1, <2>2 DEF ScriptInv, WholeOf, Copied
<1>2. QED
  BY <1>1, UpdateInvAlways, PTL

(* VERSION is the fourth file to be copied, and the first three are then in  *)
(* place; nothing else makes it name a tag.                                  *)
THEOREM VersionIsLast == Spec => VersionComesLast
<1> DEFINE Last == \A t \in Tags :
                     (project.version' = Label(t) /\ project.version # Label(t)) =>
                        /\ project.js.of = t /\ project.js.n # 0
                        /\ project.wasm = project.js
                        /\ project.sums = <<project.js, project.wasm>>
<1>1. UpdateInv /\ [Next]_vars => [Last]_vars
  <2> SUFFICES ASSUME UpdateInv, [Next]_vars, NEW t \in Tags,
                      project.version' = Label(t), project.version # Label(t)
               PROVE  /\ project.js.of = t /\ project.js.n # 0
                      /\ project.wasm = project.js
                      /\ project.sums = <<project.js, project.wasm>>
    OBVIOUS
  <2> USE ReleaseAssumption
  <2>1. CASE CopyNext
    <3>1. n \in 0..4 /\ at = "copy"
          /\ project' = [project EXCEPT ![CopyOrder[n + 1]] = Copy(CopyOrder[n + 1])]
      BY <2>1, Orders DEF CopyNext, UpdateInv, ScriptInv
    <3>2. CopyOrder[n + 1] = "version"
      BY <3>1
    <3>3. n = 3 /\ want = t
      BY <3>1, <3>2, Orders DEF Copy, Label, UpdateInv, ScriptInv, Copied
    <3>4. /\ project["js"] = tmp["js"] /\ project["wasm"] = tmp["js"]
          /\ project["sums"] = <<tmp["js"], tmp["js"]>>
          /\ tmp["js"] # NoBuild /\ tmp["js"].of \in {want, "none"} /\ tmp["js"] \in BuildType
      BY <3>1, <3>3, Orders DEF Copy, UpdateInv, ScriptInv, CopyInv, Fetched
    <3>5. QED
      BY <3>3, <3>4 DEF BuildType
  <2>2. CASE Interrupted
    <3>1. Torn # Label(t)
      BY DEF Torn, Label
    <3>2. QED
      BY <2>2, <3>1, Orders DEF Interrupted, Half, UpdateInv, ScriptInv, Copied
  <2>3. CASE project' = project
    BY <2>3
  <2>4. QED
    BY <2>1, <2>2, <2>3
       DEF Next, Script, StartUpdate, FetchNext, VerifyChecksums, FinishUpdate, vars, scriptVars
<1>2. QED
  BY <1>1, UpdateInvAlways, PTL DEF Spec, VersionComesLast

(* What the script copies is a file, a label or a pair of files, and so is   *)
(* what an interruption leaves.                                              *)
LEMMA ProjectInvStep == UpdateInv /\ ProjectInv /\ [Next]_vars => ProjectInv'
<1> SUFFICES ASSUME UpdateInv, ProjectInv, [Next]_vars PROVE ProjectInv'
  OBVIOUS
<1> USE DEF ProjectInv
<1>1. DOMAIN project = Copied /\ want \in Tags /\ tmp \in [Fetched -> BuildType] /\ n \in 0..5
  BY DEF UpdateInv, ScriptInv
<1>2. ASSUME NEW c, NEW f \in Copied, project' = [project EXCEPT ![f] = c],
             IF f = "sums" THEN c \in FileType \X FileType ELSE c \in FileType
      PROVE  ProjectInv'
  BY <1>1, <1>2 DEF Copied
<1>3. CASE CopyNext
  <2> DEFINE f == CopyOrder[n + 1]
  <2>1. f \in Copied /\ project' = [project EXCEPT ![f] = Copy(f)]
    BY <1>1, <1>3, Orders DEF CopyNext, Copied
  <2>2. IF f = "sums" THEN Copy(f) \in FileType \X FileType ELSE Copy(f) \in FileType
    BY <1>1, <2>1 DEF Copy, FileType, Fetched, Copied
  <2>3. QED
    BY <1>2, <2>1, <2>2
<1>4. CASE Interrupted
  <2> DEFINE f == CopyOrder[n + 1]
  <2>1. CASE project' = project
    BY <2>1
  <2>2. CASE at = "copy" /\ n < Len(CopyOrder) /\ project' = [project EXCEPT ![f] = Half(f)]
    <3>1. f \in Copied
      BY <1>1, <2>2, Orders DEF Copied
    <3>2. IF f = "sums" THEN Half(f) \in FileType \X FileType ELSE Half(f) \in FileType
      BY DEF Half, FileType
    <3>3. QED
      BY <1>2, <2>2, <3>1, <3>2
  <2>3. QED
    BY <1>4, <2>1, <2>2 DEF Interrupted
<1>5. CASE project' = project
  BY <1>5
<1>6. QED
  BY <1>3, <1>4, <1>5
     DEF Next, Script, StartUpdate, FetchNext, VerifyChecksums, FinishUpdate, vars, scriptVars

(* The script's variables are always typed, and it copies nothing before it  *)
(* has fetched everything.                                                   *)
THEOREM UpdateTypeCorrect == Spec => []TypeOK
<1>1. Init => ProjectInv
  BY DEF Init, ProjectInv, FileType, BuildType, Copied
<1>2. UpdateInv /\ ProjectInv => TypeOK
  BY DEF UpdateInv, ReleaseInv, ScriptInv, ProjectInv, CopyInv, TypeOK, Fetched
<1>3. QED
  BY <1>1, <1>2, ProjectInvStep, UpdateInvAlways, PTL DEF Spec
=============================================================================
