----------------------------- MODULE UpdateWasm -----------------------------
(***************************************************************************)
(* A project that vendors the WASM build: scripts/update-wasm.sh, reading  *)
(* release pages that the pipeline of Release.tla may be filling, or       *)
(* refilling, at that very moment.  The script fetches four files one by   *)
(* one, checks them against the release's SHA512SUMS, patches the JS glue, *)
(* writes checksums of its own and copies five files one by one; it may be *)
(* killed, or cp may fail, anywhere.  Files are named by the build they    *)
(* come from, as in Release.                                               *)
(***************************************************************************)
EXTENDS Release, Sequences

VARIABLES
  at,        \* where the script is
  want,      \* its <version-tag> argument
  n,         \* how many files the current loop is through with
  tmp,       \* $TMPDIR: the files downloaded
  project    \* the project's vendored files and the .wasm it serves

scriptVars == <<at, want, n, tmp, project>>
vars       == <<releaseVars, scriptVars>>

(* Faulty variants: VERSION first; the served copy forgotten.                *)
CopyVersionFirst == <<"version", "js", "wasm", "sums", "served">>
CopyVendorOnly   == <<"js", "wasm", "sums", "version">>

FetchOrder == <<"js", "wasm", "sbom", "sums">>
CopyOrder  == <<"js", "wasm", "sums", "version", "served">>
Fetched    == {"js", "wasm", "sbom", "sums"}
Copied     == {"js", "wasm", "sums", "version", "served"}

Empty == [f \in Fetched |-> NoBuild]
Torn  == [of |-> "torn", n |-> 0]

(* The VERSION file of a tag. *)
Label(t) == [of |-> t, n |-> 0]

Init ==
  /\ ReleaseInit
  /\ at = "idle"
  /\ want \in Tags
  /\ n = 0
  /\ tmp = Empty
  /\ project = [f \in Copied |-> IF f = "sums" THEN <<NoBuild, NoBuild>> ELSE NoBuild]

-----------------------------------------------------------------------------
(* The script *)

(* It is run for a tag that exists; a run that failed is run again.          *)
StartUpdate(t) ==
  /\ at \in {"idle", "finished"}
  /\ step[t] # "untagged"
  /\ at' = "fetch" /\ want' = t /\ n' = 0 /\ tmp' = Empty
  /\ UNCHANGED <<releaseVars, project>>

(* Faulty variant: curl without -f, an error page is a file.                 *)
FetchErrorPage ==
  /\ at = "fetch" /\ n < Len(FetchOrder)
  /\ tmp' = [tmp EXCEPT ![FetchOrder[n + 1]] = assets[want][FetchOrder[n + 1]]]
  /\ n' = n + 1
  /\ UNCHANGED <<releaseVars, at, want, project>>

(* curl -fsSL: a file that is not on the page ends the script.               *)
FetchNext ==
  /\ at = "fetch" /\ n < Len(FetchOrder)
  /\ LET file == assets[want][FetchOrder[n + 1]]
     IN IF file = NoBuild
        THEN at' = "idle" /\ UNCHANGED <<n, tmp>>
        ELSE tmp' = [tmp EXCEPT ![FetchOrder[n + 1]] = file] /\ n' = n + 1 /\ UNCHANGED at
  /\ UNCHANGED <<releaseVars, want, project>>

(* Faulty variant: only the .wasm is checked.                                *)
ChecksumsMatchWasm == tmp["wasm"] = tmp["sums"]

(* sha512sum -c SHA512SUMS: the sums of a build list its JS, .wasm and SBOM. *)
ChecksumsMatch == \A f \in {"js", "wasm", "sbom"} : tmp[f] = tmp["sums"]

VerifyChecksums ==
  /\ at = "fetch" /\ n = Len(FetchOrder)
  /\ at' = IF ChecksumsMatch THEN "copy" ELSE "idle"
  /\ n' = 0
  /\ UNCHANGED <<releaseVars, want, tmp, project>>

(* What is copied: the patched JS, the .wasm, the sums of those two, the     *)
(* VERSION file, and the .wasm once more, to where it is served from.        *)
Copy(file) ==
  CASE file = "sums"    -> <<tmp["js"], tmp["wasm"]>>
    [] file = "version" -> Label(want)
    [] file = "served"  -> tmp["wasm"]
    [] OTHER            -> tmp[file]

CopyNext ==
  /\ at = "copy" /\ n < Len(CopyOrder)
  /\ project' = [project EXCEPT ![CopyOrder[n + 1]] = Copy(CopyOrder[n + 1])]
  /\ n' = n + 1
  /\ UNCHANGED <<releaseVars, at, want, tmp>>

FinishUpdate ==
  /\ at = "copy" /\ n = Len(CopyOrder)
  /\ at' = "finished"
  /\ UNCHANGED <<releaseVars, want, n, tmp, project>>

(* Killed, no disk space, no network: $TMPDIR is gone, the project stays as  *)
(* it is, but for the file that was being written.                           *)
Half(file) == IF file = "sums" THEN <<Torn, Torn>> ELSE Torn

Interrupted ==
  /\ at \in {"fetch", "copy"}
  /\ Fault
  /\ at' = "idle" /\ n' = 0 /\ tmp' = Empty
  /\ \/ UNCHANGED project
     \/ /\ at = "copy" /\ n < Len(CopyOrder)
        /\ project' = [project EXCEPT ![CopyOrder[n + 1]] = Half(CopyOrder[n + 1])]
  /\ UNCHANGED <<runVars, publicVars, want>>

Script == FetchNext \/ VerifyChecksums \/ CopyNext \/ FinishUpdate

Retry == at = "idle" /\ StartUpdate(want)

Next ==
  \/ ReleaseNext /\ UNCHANGED scriptVars
  \/ \E t \in Tags : StartUpdate(t)
  \/ Script
  \/ Interrupted

(* A shell runs a script on to its end; who ran it and saw it fail runs it   *)
(* again.                                                                    *)
ScriptFairness == WF_vars(Script) /\ WF_vars(Retry)

PipelineFairness == \A t \in Tags : WF_vars(Advance(t) /\ UNCHANGED scriptVars)
                                    /\ WF_vars(Rerun(t) /\ UNCHANGED scriptVars)

Spec == Init /\ [][Next]_vars /\ PipelineFairness /\ ScriptFairness

-----------------------------------------------------------------------------
(* Properties *)

FileType == BuildType \cup {Torn} \cup {Label(t) : t \in Tags}

(* Types of the variables; nothing is copied unless all of it was fetched.   *)
TypeOK ==
  /\ ReleaseTypeOK
  /\ at \in {"idle", "fetch", "copy", "finished"}
  /\ want \in Tags
  /\ n \in 0..5
  /\ tmp \in [Fetched -> BuildType]
  /\ at = "copy" => \A f \in Fetched : tmp[f] # NoBuild
  /\ DOMAIN project = Copied
  /\ project.sums \in FileType \X FileType
  /\ \A f \in Copied \ {"sums"} : project[f] \in FileType

(* The project holds one build of one tag throughout, under that tag's name, *)
(* with checksums that match it, and serves that build's .wasm.              *)
WholeOf(b) ==
  project = [js |-> b, wasm |-> b, sums |-> <<b, b>>,
             version |-> Label(b.of), served |-> b]

(* When the script says it is done, the project is whole, and of the tag     *)
(* that was asked for, whatever an interrupted update left behind and        *)
(* however the release page changed between the downloads.                   *)
FinishedIsWhole ==
  at = "finished" => tmp["js"].of = want /\ WholeOf(tmp["js"])

(* The VERSION file is written only over files that are all in place: it     *)
(* never changes to a tag before the JS, the .wasm and the checksums in the  *)
(* vendor directory are one build of that tag.                               *)
VersionComesLast ==
  [][\A t \in Tags :
       (project.version' = Label(t) /\ project.version # Label(t)) =>
          /\ project.js.of = t /\ project.js.n # 0
          /\ project.wasm = project.js
          /\ project.sums = <<project.js, project.wasm>>]_vars

(* An update that was begun gets done in the end, the releases it reads      *)
(* being resumed until they are complete: neither waits for ever on files    *)
(* the other leaves missing or mixed.                                        *)
UpdateLands == (at \in {"fetch", "copy"}) ~> (at = "finished")
=============================================================================
