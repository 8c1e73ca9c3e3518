------------------------------ MODULE Release ------------------------------
(***************************************************************************)
(* The release transaction on the Git side: the publish job of             *)
(* .github/workflows/release.yml with scripts/create-release-commit.sh and *)
(* scripts/promote-release.sh.  From a tested base B it makes a commit C,  *)
(* keeps it on a staging ref, then advances main from B to C and puts the  *)
(* tag vX.Y.Z on C.  Any step may be the last one of a run: the job is     *)
(* killed, a call fails, or a check refuses; a rerun starts again from B   *)
(* and has to recognise what earlier runs left.                            *)
(*                                                                         *)
(* GitHub serves the API and is external, as are the developers who push   *)
(* to main (never forced: docs/repository-rules.md), and release-it, which *)
(* decides the next version and writes the files of the release.  The      *)
(* concurrency group of the workflow lets one run at a time through; each  *)
(* action is one call to the API, with the checks that precede it.         *)
(***************************************************************************)
EXTENDS Naturals, Sequences

CONSTANTS
  MaxVersion,  \* bound: versions are 0, the initial one, to MaxVersion
  Edition,     \* the files release-it may write for one base: several if
               \* they depend on the day
  MaxCommits   \* bound: the commits of the repository

ASSUME VersionAssumption == MaxVersion \in Nat
ASSUME EditionAssumption == Edition # {}
ASSUME MaxCommitsAssumption == MaxCommits \in Nat \ {0}

VARIABLES
  commits,  \* the commits, by number
  main,     \* the branch main
  staging,  \* staging[b]: release-staging/<tag>-<b>, None if absent
  tags,     \* tags[v]: the commit of the tag of version v, None if absent
  step,     \* the next step of the run
  base,     \* github.sha, the commit the run tests
  edition,  \* what release-it has written in this run
  chosen    \* RELEASE_SHA, None before it is known

runVars == <<step, base, edition, chosen>>
gitVars == <<commits, main, staging, tags>>
releaseVars == <<gitVars, runVars>>

None == 0
Id == 1..MaxCommits
Version == 1..MaxVersion

(* A commit: its ancestors, the version of its Cargo.toml, whether a       *)
(* developer made it or the release App, and then from which edition and   *)
(* whether GitHub has signed it.  `next` is the version release-it gives   *)
(* to a release based on it, None when there is nothing to release.        *)
Commit ==
  [past : SUBSET Id, parent : Id \cup {None}, released : BOOLEAN,
   version : Version \cup {0}, next : Version \cup {None},
   edition : Edition \cup {None}, verified : BOOLEAN]

History(c) == commits[c].past \cup {c}

(* The versions release-it can choose after version v. *)
Bumps(v) == {None} \cup {w \in Version : w > v}

Pushed(parent, past, version, next) ==
  [past |-> past, parent |-> parent, released |-> FALSE, version |-> version,
   next |-> next, edition |-> None, verified |-> TRUE]

(* Faulty variant: the version is not bumped. *)
ReleaseOfUnbumped(b, e, verified) ==
  [past |-> History(b), parent |-> b, released |-> TRUE,
   version |-> commits[b].version, next |-> None, edition |-> e,
   verified |-> verified]

(* The commit the App makes on b from the files prepared. *)
ReleaseOf(b, e, verified) ==
  [past |-> History(b), parent |-> b, released |-> TRUE,
   version |-> commits[b].next, next |-> None, edition |-> e,
   verified |-> verified]

(* The tag this run is to create. *)
Tag == commits[base].next

(* verify_commit_identity: parent, tree, message and signature.  The tree  *)
(* is the base's with the files of an edition.                             *)
Identity(c) ==
  /\ commits[c].released
  /\ commits[c].parent = base
  /\ commits[c].version = Tag
  /\ commits[c].edition = edition
  /\ commits[c].verified

GoOn(next) == step' = next /\ UNCHANGED <<base, edition, chosen>>
Choose(c, next) == step' = next /\ chosen' = c /\ UNCHANGED <<base, edition>>

(* The run fails: nothing is undone and the staging ref is kept. *)
Stop(how) == step' = how /\ base' = None /\ edition' = None /\ chosen' = None
Refuse == Stop("refused")

Ended == {"none", "refused", "killed", "done"}

ReleaseInit ==
  /\ \E next \in Bumps(0) : commits = <<Pushed(None, {}, 0, next)>>
  /\ main = 1
  /\ staging = [b \in Id |-> None]
  /\ tags = [v \in Version |-> None]
  /\ step = "none" /\ base = None /\ edition = None /\ chosen = None

----------------------------------------------------------------------------
(* Around the run: developers push, someone deletes the staging ref, and   *)
(* the job is killed between two calls.                                    *)
Push ==
  /\ Len(commits) < MaxCommits
  /\ \E next \in Bumps(commits[main].version) :
       commits' = Append(commits,
                         Pushed(main, History(main), commits[main].version, next))
  /\ main' = Len(commits) + 1
  /\ UNCHANGED <<staging, tags, runVars>>

LoseStaging(b) ==
  /\ staging[b] # None
  /\ staging' = [staging EXCEPT ![b] = None]
  /\ UNCHANGED <<commits, main, tags, runVars>>

Kill ==
  /\ step \notin Ended
  /\ Stop("killed")
  /\ UNCHANGED gitVars

----------------------------------------------------------------------------
(* A run, or a rerun, for a commit that was pushed: it was tested, it      *)
(* calls for a release, and release-it prepares the files.                 *)
Start(b) ==
  /\ step \in Ended
  /\ ~commits[b].released
  /\ commits[b].next # None
  /\ step' = "lookStaging"
  /\ base' = b
  /\ edition' \in Edition
  /\ chosen' = None
  /\ UNCHANGED gitVars

(* create-release-commit.sh, 5a: the staging ref. *)
LookStaging ==
  /\ step = "lookStaging"
  /\ IF staging[base] = None THEN GoOn("lookTag")
     ELSE IF Identity(staging[base]) THEN Choose(staging[base], "ensureStaging")
     ELSE Refuse
  /\ UNCHANGED gitVars

(* 5b: the tag. *)
LookTag ==
  /\ step = "lookTag"
  /\ IF tags[Tag] = None THEN GoOn("lookMain")
     ELSE IF Identity(tags[Tag]) THEN Choose(tags[Tag], "ensureStaging")
     ELSE Refuse
  /\ UNCHANGED gitVars

(* 5c: main. *)
LookMain ==
  /\ step = "lookMain"
  /\ IF main # base /\ Identity(main) THEN Choose(main, "ensureStaging")
     ELSE GoOn("create")
  /\ UNCHANGED gitVars

(* A call that fails reads as an absent ref in 5a and 5b, and in 5c as a   *)
(* commit that is not the expected one.                                    *)
Overlook ==
  /\ \/ step = "lookStaging" /\ staging[base] # None /\ GoOn("lookTag")
     \/ step = "lookTag" /\ tags[Tag] # None /\ GoOn("lookMain")
     \/ step = "lookMain" /\ main # base /\ GoOn("create")
  /\ UNCHANGED gitVars

(* ensure_staging_ref, on a commit that is reused. *)
EnsureStaging ==
  /\ step = "ensureStaging"
  /\ IF staging[base] \in {None, chosen}
       THEN /\ staging' = [staging EXCEPT ![base] = chosen]
            /\ GoOn("checkout")
       ELSE Refuse /\ UNCHANGED staging
  /\ UNCHANGED <<commits, main, tags>>

(* 6 and 7: a commit on the base, which must be Verified. *)
CreateCommit ==
  /\ step = "create"
  /\ Len(commits) < MaxCommits
  /\ commits' = Append(commits, ReleaseOf(base, edition, TRUE))
  /\ Choose(Len(commits) + 1, "stage")
  /\ UNCHANGED <<main, staging, tags>>

CreateUnverified ==
  /\ step = "create"
  /\ Len(commits) < MaxCommits
  /\ commits' = Append(commits, ReleaseOf(base, edition, FALSE))
  /\ Refuse
  /\ UNCHANGED <<main, staging, tags>>

(* 8: the new staging ref; GitHub refuses it if 5a has overlooked one.     *)
Stage ==
  /\ step = "stage"
  /\ IF staging[base] = None
       THEN staging' = [staging EXCEPT ![base] = chosen] /\ GoOn("checkout")
       ELSE Refuse /\ UNCHANGED staging
  /\ UNCHANGED <<commits, main, tags>>

(* The checkout of C through the staging ref; then everything is built,    *)
(* packaged, signed and validated in the runner.                           *)
Checkout ==
  /\ step = "checkout"
  /\ IF staging[base] = None THEN Refuse ELSE GoOn("promote")
  /\ UNCHANGED gitVars

----------------------------------------------------------------------------
(* main must be the base still, or C already (rl_remote_base_ok). *)
Promotable == main \in {chosen, base}

(* Faulty variant: the tag is made before main advances. *)
ReadMainTagFirst ==
  /\ step = "promote"
  /\ IF Promotable THEN GoOn("tag") ELSE Refuse
  /\ UNCHANGED gitVars

(* promote-release.sh, 1. *)
ReadMain ==
  /\ step = "promote"
  /\ IF ~Promotable THEN Refuse
     ELSE GoOn(IF main = chosen THEN "tag" ELSE "advance")
  /\ UNCHANGED gitVars

(* Faulty variant: force=true. *)
FastForwardForced ==
  /\ step = "advance"
  /\ main' = chosen
  /\ GoOn("tag")
  /\ UNCHANGED <<commits, staging, tags>>

(* The update of main, force=false: GitHub refuses what is not a fast      *)
(* forward, when main has moved since it was read.                         *)
FastForward ==
  /\ step = "advance"
  /\ IF main \in History(chosen) THEN main' = chosen /\ GoOn("tag")
     ELSE Refuse /\ UNCHANGED main
  /\ UNCHANGED <<commits, staging, tags>>

(* 2 and 3: the tag, created once; GitHub keeps v* tags immutable. *)
CreateTag ==
  /\ step = "tag"
  /\ IF tags[Tag] \in {None, chosen}
       THEN tags' = [tags EXCEPT ![Tag] = chosen] /\ GoOn("publish")
       ELSE Refuse /\ UNCHANGED tags
  /\ UNCHANGED <<commits, main, staging>>

(* publish-github-release.sh, seen from here; module Publication details   *)
(* it.  It goes nowhere unless the tag is on C.                            *)
Publish ==
  /\ step = "publish"
  /\ tags[Tag] = chosen
  /\ GoOn("cleanup")
  /\ UNCHANGED gitVars

(* The staging ref is deleted after a complete success, best effort. *)
Cleanup ==
  /\ step = "cleanup"
  /\ \/ staging' = [staging EXCEPT ![base] = None]
     \/ UNCHANGED staging
  /\ Stop("done")
  /\ UNCHANGED <<commits, main, tags>>

(* Faulty variant: a failed publication takes the tag back. *)
PublishRefusedUndoing ==
  /\ step = "publish"
  /\ tags' = [tags EXCEPT ![Tag] = None]
  /\ Refuse
  /\ UNCHANGED <<commits, main, staging>>

(* A check of publish-github-release.sh fails. *)
PublishRefused == step = "publish" /\ Refuse /\ UNCHANGED gitVars

CommitStep ==
  LookStaging \/ LookTag \/ LookMain \/ EnsureStaging \/ CreateCommit \/ Stage
PromoteStep == ReadMain \/ FastForward \/ CreateTag

ReleaseNext ==
  \/ Push \/ Kill \/ \E b \in Id : LoseStaging(b)
  \/ \E b \in DOMAIN commits : Start(b)
  \/ CommitStep \/ Overlook \/ CreateUnverified \/ Checkout
  \/ PromoteStep \/ Publish \/ PublishRefused \/ Cleanup

ReleaseSpec == ReleaseInit /\ [][ReleaseNext]_releaseVars

----------------------------------------------------------------------------
Steps == Ended \cup
  {"lookStaging", "lookTag", "lookMain", "ensureStaging", "create", "stage",
   "checkout", "promote", "advance", "tag", "publish", "cleanup"}

(* Every variable keeps its type. *)
ReleaseTypeOK ==
  /\ commits \in Seq(Commit) /\ Len(commits) \in Id
  /\ main \in DOMAIN commits
  /\ staging \in [Id -> DOMAIN commits \cup {None}]
  /\ tags \in [Version -> DOMAIN commits \cup {None}]
  /\ step \in Steps
  /\ base \in DOMAIN commits \cup {None}
  /\ edition \in Edition \cup {None}
  /\ chosen \in DOMAIN commits \cup {None}

(* A tag is on a Verified release commit of its version, made on a tested  *)
(* base, and main contains it - whatever was pushed, killed, rerun or lost *)
(* in between (docs/release.md, lifecycle).                                *)
TagsReleased ==
  \A v \in Version :
    tags[v] # None =>
      LET c == tags[v]
      IN /\ c \in History(main)
         /\ commits[c].released /\ commits[c].verified
         /\ commits[c].version = v
         /\ commits[commits[c].parent].next = v
         /\ ~commits[commits[c].parent].released

(* main holds at most one release of a version, although reruns may make   *)
(* several commits for it: only one of them is ever promoted.              *)
OneReleasePerVersion ==
  \A c, d \in History(main) :
    commits[c].released /\ commits[d].released
      /\ commits[c].version = commits[d].version => c = d

(* No push is ever lost: main only moves forward, although developers push *)
(* between the run's look at main and its update (release.yml:12-14).      *)
MainOnlyAdvances == [][(main \in History(main)')]_releaseVars

(* A tag is never moved or removed (promote-release.sh:13-14). *)
TagsImmutable ==
  [][\A v \in Version : tags[v] # None => tags'[v] = tags[v]]_releaseVars

(* The promise of Ledger, read off main and the tags. *)
Releases(v) ==
  {c \in History(main) : commits[c].released /\ commits[c].version = v}

The(S) == IF S = {} THEN None ELSE CHOOSE c \in S : TRUE

Held == [v \in Version |-> The(Releases(v))]

Promise == INSTANCE Ledger WITH held <- Held

(* However runs are killed, rerun or overtaken by pushes: main takes one   *)
(* release at a time, in the order of the versions, whose tag is put once, *)
(* on it, and stays (promote-release.sh:13-14, release.yml:12-14).         *)
ImplementsLedger == Promise!Spec

(* "JAMAIS fabriquer un second commit C2 après perte de la ref de staging" *)
(* (create-release-commit.sh:92; docs/release.md:128): the same files on   *)
(* the same base make one commit.                                          *)
NoSecondCommit ==
  \A c, d \in DOMAIN commits :
    /\ commits[c].released /\ commits[d].released
    /\ commits[c].parent = commits[d].parent
    /\ commits[c].edition = commits[d].edition
    => c = d
=============================================================================
