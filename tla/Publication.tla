---------------------------- MODULE Publication ----------------------------
(***************************************************************************)
(* The GitHub Release of a version, filled by publish-github-release.sh    *)
(* inside the transaction of module Release.  Its assets are processed in  *)
(* a fixed order, by class: payloads, signatures, provenance bundles and   *)
(* the intoto aggregate.  What is there already is verified and reused,    *)
(* what is missing is uploaded; nothing is ever replaced.                  *)
(*                                                                         *)
(* Payloads are reproducible: built again from C they are the same.  A     *)
(* signature or a provenance bundle differs each time it is made; `by`     *)
(* tells the bundles of different runs apart.  Upload, download and cosign *)
(* are external; an upload that is cut may leave a partial asset.          *)
(***************************************************************************)
EXTENDS Release

CONSTANTS
  Payloads,  \* how many assets are payloads
  Signed,    \* how many of them are signed and attested
  Run        \* bound: tokens that tell provenance bundles apart

ASSUME AssetAssumption == Payloads \in Nat \ {0} /\ Signed \in Nat \ {0}
ASSUME RunAssumption == Run # {}

VARIABLES
  remote,  \* remote[v][a]: asset a of the Release of version v
  at,      \* the asset being processed, 0 before the first
  made     \* the token of the bundles this run has made

publicationVars == <<remote, at, made>>
vars == <<releaseVars, publicationVars>>

Intoto == Payloads + 2 * Signed + 1
Asset == 1..Intoto
Provenance == (Payloads + Signed + 1)..(Payloads + 2 * Signed)

Absent == [kind |-> "absent"]
Partial == [kind |-> "partial"]
Built(c) == [kind |-> "built", from |-> c]
Attested(c, run) == [kind |-> "attested", from |-> c, by |-> run]
Aggregate(bundles) == [kind |-> "aggregate", of |-> bundles]
Complete(content) == content.kind \notin {"absent", "partial"}

(* Faulty variant: built from the tested base, without the checkout of C. *)
LocalFromBase(a) ==
  IF a \in Provenance THEN Attested(base, made) ELSE Built(base)

(* What this run has made from C.  Signatures are told apart by nothing    *)
(* but what they sign.                                                     *)
Local(a) ==
  IF a \in Provenance THEN Attested(chosen, made) ELSE Built(chosen)

(* The aggregate of the bundles that are in the Release. *)
Canonical == Aggregate([a \in Provenance |-> remote[Tag][a]])

(* Faulty variant: the aggregate of the bundles this run has made. *)
CandidateLocal(a) ==
  IF a = Intoto THEN Aggregate([p \in Provenance |-> Local(p)]) ELSE Local(a)

(* What is uploaded when the asset is missing. *)
Candidate(a) == IF a = Intoto THEN Canonical ELSE Local(a)

(* Faulty variant: a proof is compared byte by byte with this run's own. *)
AcceptedSameBytes(a) == remote[Tag][a] = Candidate(a)

(* rl_sha_match of a payload and of the aggregate; verify_signature and    *)
(* verify_provenance: a bundle of another run is good if it is for C.      *)
Accepted(a) ==
  IF a \in Provenance
    THEN remote[Tag][a].kind = "attested" /\ remote[Tag][a].from = chosen
    ELSE remote[Tag][a] = Candidate(a)

Init ==
  /\ ReleaseInit
  /\ remote = [v \in Version |-> [a \in Asset |-> Absent]]
  /\ at = 0
  /\ made \in Run

----------------------------------------------------------------------------
(* sign-release.sh, on the way to the promotion: the bundles of this run   *)
(* are unlike those that are already published for the version.            *)
Fresh ==
  {run \in Run :
     \A a \in Provenance : remote[Tag][a].kind = "attested" => remote[Tag][a].by # run}

Sign ==
  /\ Checkout
  /\ made' = CHOOSE run \in Run : Fresh = {} \/ run \in Fresh
  /\ UNCHANGED <<remote, at>>

(* The tag is on C; the Release is created if it is not there. *)
Open ==
  /\ step = "publish" /\ at = 0
  /\ tags[Tag] = chosen
  /\ at' = 1
  /\ UNCHANGED <<releaseVars, remote, made>>

(* The asset is there already, and verifies. *)
Reuse ==
  /\ step = "publish" /\ at \in Asset
  /\ remote[Tag][at] # Absent
  /\ Accepted(at)
  /\ at' = at + 1
  /\ UNCHANGED <<releaseVars, remote, made>>

Reject ==
  /\ PublishRefused
  /\ at \in Asset
  /\ remote[Tag][at] # Absent
  /\ ~Accepted(at)
  /\ at' = 0
  /\ UNCHANGED <<remote, made>>

(* Faulty variant: --clobber. *)
UploadClobbering ==
  /\ step = "publish" /\ at \in Asset
  /\ remote' = [remote EXCEPT ![Tag][at] = Candidate(at)]
  /\ at' = at + 1
  /\ UNCHANGED <<releaseVars, made>>

Upload ==
  /\ step = "publish" /\ at \in Asset
  /\ remote[Tag][at] = Absent
  /\ remote' = [remote EXCEPT ![Tag][at] = Candidate(at)]
  /\ at' = at + 1
  /\ UNCHANGED <<releaseVars, made>>

(* The upload breaks off: the run ends, and the asset may be incomplete. *)
UploadCut ==
  /\ step = "publish" /\ at \in Asset
  /\ remote[Tag][at] = Absent
  /\ remote' = [remote EXCEPT ![Tag][at] = Partial]
  /\ Refuse
  /\ at' = 0
  /\ UNCHANGED <<gitVars, made>>

(* The final check: every asset is there and not empty. *)
Close ==
  /\ Publish
  /\ at = Intoto + 1
  /\ \A a \in Asset : Complete(remote[Tag][a])
  /\ at' = 0
  /\ UNCHANGED <<remote, made>>

Killed == Kill /\ at' = 0 /\ UNCHANGED <<remote, made>>

Outside == Push \/ \E b \in Id : LoseStaging(b)
Begin(b) == b \in DOMAIN commits /\ Start(b) /\ UNCHANGED publicationVars

(* What the scripts do next. *)
Progress ==
  \/ (CommitStep \/ PromoteStep \/ Cleanup) /\ UNCHANGED publicationVars
  \/ Sign \/ Open \/ Reuse \/ Reject \/ Upload \/ Close

(* What interrupts them. *)
Interruption ==
  \/ Killed \/ UploadCut
  \/ (CreateUnverified \/ Overlook) /\ UNCHANGED publicationVars

Next ==
  \/ Outside /\ UNCHANGED publicationVars
  \/ \E b \in Id : Begin(b)
  \/ Progress
  \/ Interruption

Spec == Init /\ [][Next]_vars

(* A run that is not interrupted goes on, and the maintainers rerun what   *)
(* has failed for as long as it is possible.                               *)
FairSpec == Spec /\ WF_vars(Progress) /\ \A b \in Id : SF_vars(Begin(b))

----------------------------------------------------------------------------
Content ==
  {Absent, Partial} \cup {Built(c) : c \in Id}
    \cup {Attested(c, run) : c \in Id, run \in Run}
    \cup [kind : {"aggregate"},
          of : [Provenance -> {Attested(c, run) : c \in Id, run \in Run}]]

(* Every variable keeps its type. *)
TypeOK ==
  /\ ReleaseTypeOK
  /\ remote \in [Version -> [Asset -> Content]]
  /\ at \in 0..(Intoto + 1)
  /\ made \in Run

(* The published aggregate holds the provenance bundles that are           *)
(* published, although it may be uploaded by another run than theirs       *)
(* (publish-github-release.sh, E; docs/release.md, classification).        *)
AggregateMatches ==
  \A v \in Version :
    Complete(remote[v][Intoto]) =>
      \A a \in Provenance : remote[v][Intoto].of[a] = remote[v][a]

(* source commit = source attested = source built (docs/release.md): what  *)
(* is published for a version is made from the commit of its tag, in       *)
(* whichever runs it was made.                                             *)
AssetsOfTag ==
  \A v \in Version, a \in Asset \ {Intoto} :
    Complete(remote[v][a]) => tags[v] # None /\ remote[v][a].from = tags[v]

(* What is published is never replaced or removed (no --clobber). *)
AssetsImmutable ==
  [][\A v \in Version, a \in Asset :
       remote[v][a] # Absent => remote'[v][a] = remote[v][a]]_vars

(* However a release was interrupted, rerunning it finishes it - provided  *)
(* release-it writes the same files each time, main has not moved on, the  *)
(* staging ref was not lost and given to another commit after main was     *)
(* promoted, nothing interferes any more, and no upload was left           *)
(* incomplete (release.yml:338-341, docs/release.md "Idempotence / rerun").*)
Current(b) ==
  \/ main = b
  \/ /\ commits[main].released /\ commits[main].parent = b
     /\ staging[b] \in {None, main}

Releasable(b) ==
  b \in DOMAIN commits /\ ~commits[b].released /\ commits[b].next # None

Finishable(b) ==
  /\ Releasable(b)
  /\ Current(b)
  /\ Len(commits) < MaxCommits
  /\ \A a \in Asset : remote[commits[b].next][a] # Partial

Finished(b) ==
  /\ Releasable(b)
  /\ tags[commits[b].next] # None
  /\ \A a \in Asset : Complete(remote[commits[b].next][a])

RerunsFinish ==
  \A b \in Id, e \in Edition :
    /\ [](edition \in {None, e})
    /\ <>[]Finishable(b)
    /\ <>[][~(Outside \/ Interruption)]_vars
    => <>Finished(b)
=============================================================================
