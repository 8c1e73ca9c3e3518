------------------------- MODULE PublicationProofs -------------------------
(***************************************************************************)
(* Proofs about `Publication`, for any number of assets, runs and commits: *)
(* it keeps the promise of the transaction of module Release, and what it  *)
(* publishes is of the tagged commit, never replaced, and consistent with  *)
(* the aggregate.                                                          *)
(*                                                                         *)
(* A run that publishes has its tag on the release it holds, and every     *)
(* asset before the one it processes is complete.  Hence the bundles an    *)
(* aggregate is made of are there when it is made, and they never change.  *)
(***************************************************************************)
EXTENDS Publication, ReleaseProofs

AttestedContent == {Attested(c, run) : c \in Id, run \in Run}

(* Contents by class. *)
ContentsTyped ==
  \A v \in Version, a \in Asset :
    \/ remote[v][a] \in {Absent, Partial}
    \/ a \in Provenance /\ remote[v][a] \in AttestedContent
    \/ a = Intoto /\ remote[v][a] \in [kind : {"aggregate"}, of : [Provenance -> AttestedContent]]
    \/ a \notin Provenance \cup {Intoto} /\ remote[v][a] \in {Built(c) : c \in Id}

(* An aggregate holds complete bundles. *)
AggregateSound ==
  \A v \in Version :
    Complete(remote[v][Intoto]) =>
      \A a \in Provenance :
        /\ Complete(remote[v][a])
        /\ remote[v][Intoto].of[a] = remote[v][a]

Publishing ==
  at # 0 =>
    /\ step = "publish" /\ tags[Tag] = chosen
    /\ \A a \in Asset : a < at => Complete(remote[Tag][a])

AssetsTyped ==
  /\ remote \in [Version -> [Asset -> Content]]
  /\ at \in 0..(Intoto + 1)
  /\ made \in Run

PublicationInv ==
  /\ ReleaseInv /\ AssetsTyped /\ ContentsTyped
  /\ AssetsOfTag /\ AggregateSound /\ Publishing

----------------------------------------------------------------------------
LEMMA AssetNumbers ==
  /\ Intoto \in Nat \ {0} /\ Intoto \in Asset /\ Provenance \subseteq Asset
  /\ Intoto \notin Provenance /\ Asset \subseteq Nat
  /\ \A a \in Provenance : a < Intoto
BY AssetAssumption DEF Intoto, Asset, Provenance

LEMMA Incomplete == ~Complete(Absent) /\ ~Complete(Partial)
BY DEF Complete, Absent, Partial

LEMMA CompleteKinds ==
  /\ \A c \in Id : Complete(Built(c)) /\ Built(c).from = c
  /\ \A c \in Id, run \in Run : /\ Complete(Attested(c, run))
                                 /\ Attested(c, run).from = c
                                 /\ Attested(c, run) \in AttestedContent
  /\ \A bundles : Complete(Aggregate(bundles)) /\ Aggregate(bundles).of = bundles
BY DEF Complete, Built, Attested, Aggregate, AttestedContent

(* Every step is a step of the transaction, or leaves it alone. *)
LEMMA StepImplements == Next => [ReleaseNext]_releaseVars
<1> SUFFICES ASSUME Next PROVE ReleaseNext \/ UNCHANGED releaseVars
  OBVIOUS
<1>1. CASE Outside
  BY <1>1 DEF Outside, ReleaseNext
<1>2. CASE \E b \in Id : Begin(b)
  BY <1>2 DEF Begin, ReleaseNext
<1>3. CASE Progress
  BY <1>3 DEF Progress, ReleaseNext, Sign, Open, Reuse, Reject, Upload, Close
<1>4. CASE Interruption
  <2>1. CASE UploadCut
    BY <2>1 DEF UploadCut, PublishRefused, ReleaseNext
  <2>2. CASE Killed
    BY <2>2 DEF Killed, ReleaseNext
  <2>3. CASE CreateUnverified \/ Overlook
    BY <2>3 DEF ReleaseNext
  <2>4. QED
    BY <1>4, <2>1, <2>2, <2>3 DEF Interruption
<1>5. QED
  BY <1>1, <1>2, <1>3, <1>4 DEF Next

(* Each step of Publication is a step of the transaction or leaves it      *)
(* alone, so what is proved of ReleaseSpec holds here.                     *)
LEMMA PublicationRefines == Spec => ReleaseSpec
<1>1. Init => ReleaseInit
  BY DEF Init
<1>2. [Next]_vars => [ReleaseNext]_releaseVars
  BY StepImplements DEF vars
<1>3. QED
  BY <1>1, <1>2, PTL DEF Spec, ReleaseSpec

(* Nothing is replaced: only the asset at hand changes, when it is absent. *)
LEMMA OnlyAbsentChanges ==
  ASSUME PublicationInv, [Next]_vars
  PROVE  \/ UNCHANGED remote
         \/ /\ step = "publish" /\ at \in Asset /\ remote[Tag][at] = Absent
            /\ \/ Upload /\ remote' = [remote EXCEPT ![Tag][at] = Candidate(at)]
               \/ UploadCut /\ remote' = [remote EXCEPT ![Tag][at] = Partial]
<1>1. CASE Upload \/ UploadCut
  BY <1>1 DEF Upload, UploadCut
<1>2. CASE ~(Upload \/ UploadCut) /\ Next
  BY <1>2 DEF Next, Progress, Interruption, publicationVars, Begin, Sign, Open, Reuse, Reject, Close, Killed
<1>3. CASE UNCHANGED vars
  BY <1>3 DEF vars, publicationVars
<1>4. QED
  BY <1>1, <1>2, <1>3

LEMMA PublicationInitInv == Init => PublicationInv
<1> SUFFICES ASSUME Init PROVE PublicationInv
  OBVIOUS
<1>1. ReleaseInv
  BY ReleaseInitInv DEF Init
<1>2. \A v \in Version, a \in Asset : remote[v][a] = Absent
  BY DEF Init
<1>3. AssetsTyped
  <2>1. at \in 0..(Intoto + 1)
    BY AssetNumbers DEF Init
  <2>2. Absent \in Content
    BY DEF Content
  <2>3. QED
    BY <2>1, <2>2 DEF Init, AssetsTyped
<1>4. ContentsTyped /\ AssetsOfTag /\ AggregateSound
  <2>1. ContentsTyped
    BY <1>2 DEF ContentsTyped
  <2>2. AssetsOfTag /\ AggregateSound
    BY <1>2, Incomplete, AssetNumbers DEF AssetsOfTag, AggregateSound
  <2>3. QED
    BY <2>1, <2>2
<1>5. Publishing
  BY DEF Init, Publishing
<1>6. QED
  BY <1>1, <1>3, <1>4, <1>5 DEF PublicationInv

(* A step that leaves the assets alone keeps what is said of them, as tags *)
(* do not move.                                                            *)
LEMMA TagsStay ==
  ASSUME ReleaseInv, [ReleaseNext]_releaseVars, NEW v \in Version, tags[v] # None
  PROVE  tags'[v] = tags[v]
<1>1. CASE UNCHANGED tags
  BY <1>1
<1>2. CASE CreateTag
  BY <1>2 DEF CreateTag, ReleaseInv, ReleaseTypeOK
<1>3. QED
  BY <1>1, <1>2 DEF ReleaseNext, CommitStep, PromoteStep, LookStaging, LookTag,
     LookMain, Overlook, EnsureStaging, CreateCommit, CreateUnverified, Stage, Checkout,
     ReadMain, FastForward, Publish, PublishRefused, Cleanup, Start, Kill, LoseStaging,
     Push, gitVars, releaseVars

LEMMA AssetsUnchanged ==
  ASSUME PublicationInv, [ReleaseNext]_releaseVars, UNCHANGED remote,
         at' \in 0..(Intoto + 1), made' \in Run, Publishing'
  PROVE  PublicationInv'
<1>1. ReleaseInv'
  BY ReleaseNextInv DEF PublicationInv
<1>2. AssetsOfTag'
  BY TagsStay DEF PublicationInv, AssetsOfTag
<1>3. QED
  BY <1>1, <1>2 DEF PublicationInv, AssetsTyped, ContentsTyped, AggregateSound

(* What the run holds while it publishes. *)
LEMMA PublishingRun ==
  ASSUME PublicationInv, step = "publish", at # 0
  PROVE  /\ Tag \in Version /\ chosen \in Id /\ tags[Tag] = chosen /\ chosen # None
         /\ \A a \in Asset : a < at => Complete(remote[Tag][a])
<1>1. /\ ReleaseTypeOK /\ base \in DOMAIN commits /\ commits[base].next # None
      /\ chosen \in DOMAIN commits
  BY DEF PublicationInv, ReleaseInv, RunSound, Ended, IsRelease
<1>2. Tag \in Version /\ chosen \in Id
  BY <1>1, CommitFields DEF Tag
<1>3. chosen # None
  BY <1>2, MaxCommitsAssumption DEF Id, None
<1>4. QED
  BY <1>2, <1>3 DEF PublicationInv, Publishing

(* The asset made is complete, of its class, and of the tagged commit. *)
LEMMA CandidateContent ==
  ASSUME PublicationInv, step = "publish", at \in Asset
  PROVE  /\ Complete(Candidate(at)) /\ Candidate(at) \in Content
         /\ at \in Provenance => Candidate(at) \in AttestedContent
         /\ at \notin Provenance \cup {Intoto} => Candidate(at) \in {Built(c) : c \in Id}
         /\ at # Intoto => Candidate(at).from = chosen
         /\ at = Intoto =>
              /\ Candidate(at) \in [kind : {"aggregate"}, of : [Provenance -> AttestedContent]]
              /\ \A a \in Provenance : /\ Complete(remote[Tag][a])
                                       /\ Candidate(at).of[a] = remote[Tag][a]
<1>1. /\ Tag \in Version /\ chosen \in Id /\ made \in Run
      /\ \A a \in Asset : a < at => Complete(remote[Tag][a])
  <2>1. at # 0
    BY DEF Asset
  <2>2. QED
    BY <2>1, PublishingRun DEF PublicationInv, AssetsTyped
<1>2. CASE at \in Provenance
  <2>1. Candidate(at) = Attested(chosen, made) /\ at # Intoto
    BY <1>2, AssetNumbers DEF Candidate, Local
  <2>2. /\ Complete(Candidate(at)) /\ Candidate(at) \in AttestedContent
        /\ Candidate(at).from = chosen
    BY <1>1, <2>1, CompleteKinds
  <2>3. Candidate(at) \in Content
    BY <2>2 DEF Content, AttestedContent
  <2>4. QED
    BY <1>2, <2>1, <2>2, <2>3
<1>3. CASE at \notin Provenance \cup {Intoto}
  <2>1. Candidate(at) = Built(chosen)
    BY <1>3 DEF Candidate, Local
  <2>2. QED
    BY <1>1, <1>3, <2>1, CompleteKinds DEF Content
<1>4. CASE at = Intoto
  <2>1. Candidate(at) = Aggregate([a \in Provenance |-> remote[Tag][a]])
    BY <1>4 DEF Candidate, Canonical
  <2>2. \A a \in Provenance : Complete(remote[Tag][a]) /\ a \in Asset /\ a # Intoto
    BY <1>1, <1>4, AssetNumbers
  <2>3. \A a \in Provenance : remote[Tag][a] \in AttestedContent
    BY <1>1, <2>2, Incomplete DEF PublicationInv, ContentsTyped
  <2>4. [a \in Provenance |-> remote[Tag][a]] \in [Provenance -> AttestedContent]
    BY <2>3
  <2>5. Candidate(at) \in [kind : {"aggregate"}, of : [Provenance -> AttestedContent]]
    BY <2>1, <2>4 DEF Aggregate
  <2>6. Candidate(at) \in Content
    BY <2>5 DEF Content, AttestedContent
  <2>7. at \notin Provenance
    BY <1>4, AssetNumbers
  <2>8. Complete(Candidate(at)) /\ Candidate(at).of = [a \in Provenance |-> remote[Tag][a]]
    BY <2>1, CompleteKinds
  <2>9. QED
    BY <1>4, <2>2, <2>5, <2>6, <2>7, <2>8
<1>5. QED
  BY <1>2, <1>3, <1>4

LEMMA UploadInv == PublicationInv /\ Upload => PublicationInv'
<1> SUFFICES ASSUME PublicationInv, Upload PROVE PublicationInv'
  OBVIOUS
<1> DEFINE new == Candidate(at)
<1>1. /\ step = "publish" /\ at \in Asset /\ remote[Tag][at] = Absent /\ at # 0
      /\ remote' = [remote EXCEPT ![Tag][at] = Candidate(at)]
      /\ at' = at + 1 /\ UNCHANGED <<releaseVars, made>>
  BY DEF Upload, Asset
<1>2. UNCHANGED <<commits, main, staging, tags, step, base, edition, chosen>>
  BY <1>1 DEF releaseVars, gitVars, runVars
<1>3. /\ Tag \in Version /\ chosen \in Id /\ tags[Tag] = chosen /\ chosen # None
      /\ \A a \in Asset : a < at => Complete(remote[Tag][a])
  BY <1>1, PublishingRun
<1>4. /\ remote' \in [Version -> [Asset -> Content]]
      /\ \A v \in Version, a \in Asset :
           remote'[v][a] = IF v = Tag /\ a = at THEN Candidate(at) ELSE remote[v][a]
  BY <1>1, <1>3, CandidateContent DEF PublicationInv, AssetsTyped
<1>5. ReleaseInv'
  BY <1>1, ReleaseNextInv DEF PublicationInv
<1>6. AssetsTyped'
  <2>1. at' \in 0..(Intoto + 1)
    BY <1>1, AssetNumbers DEF Asset
  <2>2. QED
    BY <1>1, <1>4, <2>1 DEF PublicationInv, AssetsTyped
<1>7. ContentsTyped'
  BY <1>1, <1>4, CandidateContent, AssetNumbers DEF PublicationInv, ContentsTyped
<1>8. AssetsOfTag'
  BY <1>1, <1>2, <1>3, <1>4, CandidateContent DEF PublicationInv, AssetsOfTag
<1>9. AggregateSound'
  <2> SUFFICES ASSUME NEW v \in Version, Complete(remote'[v][Intoto]), NEW a \in Provenance
               PROVE  Complete(remote'[v][a]) /\ remote'[v][Intoto].of[a] = remote'[v][a]
    BY DEF AggregateSound
  <2>1. CASE v = Tag /\ at = Intoto
    BY <1>1, <1>4, <2>1, CandidateContent, AssetNumbers
  <2>2. CASE ~(v = Tag /\ at = Intoto)
    <3>1. remote'[v][Intoto] = remote[v][Intoto]
      BY <1>4, <2>2, AssetNumbers
    <3>2. Complete(remote[v][a]) /\ remote[v][Intoto].of[a] = remote[v][a]
      BY <3>1 DEF PublicationInv, AggregateSound
    <3>3. remote'[v][a] = remote[v][a]
      BY <1>1, <1>4, <3>2, Incomplete, AssetNumbers
    <3>4. QED
      BY <3>1, <3>2, <3>3
  <2>3. QED
    BY <2>1, <2>2
<1>10. Publishing'
  <2>1. Tag' = Tag
    BY <1>2 DEF Tag
  <2>2. \A a \in Asset : a < at + 1 => Complete(remote'[Tag][a])
    <3>1. \A a \in Asset : a < at + 1 => a = at \/ a < at
      BY <1>1, AssetNumbers
    <3>2. QED
      BY <1>1, <1>3, <1>4, <3>1, CandidateContent
  <2>3. QED
    BY <1>1, <1>2, <1>3, <2>1, <2>2 DEF Publishing
<1>11. QED
  BY <1>5, <1>6, <1>7, <1>8, <1>9, <1>10 DEF PublicationInv

LEMMA UploadCutInv == PublicationInv /\ UploadCut => PublicationInv'
<1> SUFFICES ASSUME PublicationInv, UploadCut PROVE PublicationInv'
  OBVIOUS
<1>1. /\ step = "publish" /\ at \in Asset /\ remote[Tag][at] = Absent /\ at # 0
      /\ remote' = [remote EXCEPT ![Tag][at] = Partial]
      /\ at' = 0 /\ Refuse /\ UNCHANGED <<gitVars, made>>
  BY DEF UploadCut, Asset
<1>2. Tag \in Version
  BY <1>1, PublishingRun
<1>3. Partial \in Content
  BY DEF Content
<1>4. /\ remote' \in [Version -> [Asset -> Content]]
      /\ \A v \in Version, a \in Asset :
           remote'[v][a] = IF v = Tag /\ a = at THEN Partial ELSE remote[v][a]
  BY <1>1, <1>2, <1>3 DEF PublicationInv, AssetsTyped
<1>5. ReleaseInv'
  BY <1>1, ReleaseNextInv DEF PublicationInv, ReleaseNext, PublishRefused
<1>6. AssetsTyped'
  BY <1>1, <1>4, AssetNumbers DEF PublicationInv, AssetsTyped
<1>7. ContentsTyped'
  BY <1>4 DEF PublicationInv, ContentsTyped
<1>8. AssetsOfTag'
  BY <1>1, <1>4, Incomplete DEF PublicationInv, AssetsOfTag, gitVars
<1>9. AggregateSound'
  BY <1>1, <1>4, Incomplete, AssetNumbers DEF PublicationInv, AggregateSound
<1>10. QED
  BY <1>1, <1>5, <1>6, <1>7, <1>8, <1>9 DEF PublicationInv, Publishing

(* The steps that do not touch the assets: the run moves along them, or    *)
(* was not publishing.                                                     *)
LEMMA MoveAlongInv ==
  ASSUME PublicationInv, Open \/ Reuse
  PROVE  PublicationInv'
<1>1. /\ step = "publish" /\ UNCHANGED <<releaseVars, remote, made>>
      /\ tags[Tag] = chosen /\ Tag \in Version
      /\ \/ at = 0 /\ at' = 1
         \/ at \in Asset /\ at' = at + 1 /\ remote[Tag][at] # Absent /\ Accepted(at)
  <2>1. CASE Open
    <3>1. Tag \in Version
      BY <2>1, CommitFields DEF Open, PublicationInv, ReleaseInv, RunSound, Ended, Tag
    <3>2. QED
      BY <2>1, <3>1 DEF Open
  <2>2. CASE Reuse
    BY <2>2, PublishingRun DEF Reuse, Asset
  <2>3. QED
    BY <2>1, <2>2
<1>2. UNCHANGED <<commits, tags, step, base, chosen>> /\ Tag' = Tag
  BY <1>1 DEF releaseVars, gitVars, runVars, Tag
<1>3. at \in Asset => remote[Tag][at] # Partial
  <2> SUFFICES ASSUME at \in Asset, remote[Tag][at] = Partial, Accepted(at) PROVE FALSE
    BY <1>1, AssetNumbers DEF Asset
  <2>1. at \notin Provenance
    BY DEF Accepted, Partial
  <2>2. Candidate(at) = Partial /\ Complete(Candidate(at))
    BY <1>1, <2>1, CandidateContent DEF Accepted
  <2>3. QED
    BY <2>2, Incomplete
<1>4. at \in Asset => Complete(remote[Tag][at])
  <2> SUFFICES ASSUME at \in Asset PROVE Complete(remote[Tag][at])
    OBVIOUS
  <2>1. remote[Tag][at] \notin {Absent, Partial}
    BY <1>1, <1>3, AssetNumbers DEF Asset
  <2>2. CASE at \in Provenance
    BY <1>1, <2>1, <2>2, CompleteKinds, AssetNumbers DEF PublicationInv, ContentsTyped, AttestedContent
  <2>3. CASE at = Intoto
    BY <1>1, <2>1, <2>3, AssetNumbers DEF PublicationInv, ContentsTyped, Complete
  <2>4. CASE at \notin Provenance \cup {Intoto}
    BY <1>1, <2>1, <2>4, CompleteKinds DEF PublicationInv, ContentsTyped
  <2>5. QED
    BY <2>2, <2>3, <2>4
<1>5. Publishing'
  <2>1. \A a \in Asset : a < at' => Complete(remote[Tag][a])
    <3>1. \A a \in Asset : a < at' => a = at \/ (at # 0 /\ a < at)
      BY <1>1, AssetNumbers DEF Asset
    <3>2. QED
      BY <1>1, <1>4, <3>1 DEF PublicationInv, Publishing
  <2>2. QED
    BY <1>1, <1>2, <2>1 DEF Publishing
<1>6. at' \in 0..(Intoto + 1)
  BY <1>1, AssetNumbers DEF Asset
<1>7. QED
  BY <1>1, <1>5, <1>6, AssetsUnchanged DEF PublicationInv, AssetsTyped

LEMMA ElsewhereInv ==
  ASSUME PublicationInv, [ReleaseNext]_releaseVars, UNCHANGED remote, made' \in Run,
         at' = 0 \/ (at' = at /\ step # "publish")
  PROVE  PublicationInv'
<1>1. at' = 0
  BY DEF PublicationInv, Publishing
<1>2. Publishing' /\ at' \in 0..(Intoto + 1)
  BY <1>1, AssetNumbers DEF Publishing
<1>3. QED
  BY <1>2, AssetsUnchanged

(* Outside moves neither the tags nor the run. *)
LEMMA OutsideInv == PublicationInv /\ Outside /\ UNCHANGED publicationVars => PublicationInv'
<1> SUFFICES ASSUME PublicationInv, Outside, UNCHANGED publicationVars PROVE PublicationInv'
  OBVIOUS
<1>1. /\ UNCHANGED <<tags, step, base, edition, chosen, remote, at, made>>
      /\ \A c \in DOMAIN commits : commits'[c] = commits[c]
  <2>1. CASE Push
    <3>1. PICK next : commits' = Append(commits, Pushed(main, History(main), commits[main].version, next))
      BY <2>1 DEF Push
    <3>2. \A c \in DOMAIN commits : commits'[c] = commits[c]
      BY <3>1 DEF PublicationInv, ReleaseInv, ReleaseTypeOK
    <3>3. QED
      BY <2>1, <3>2 DEF Push, runVars, publicationVars
  <2>2. CASE \E b \in Id : LoseStaging(b)
    BY <2>2 DEF LoseStaging, runVars, publicationVars
  <2>3. QED
    BY <2>1, <2>2 DEF Outside
<1>2. step = "publish" => Tag' = Tag
  BY <1>1 DEF PublicationInv, ReleaseInv, RunSound, Ended, Tag
<1>3. Publishing'
  BY <1>1, <1>2 DEF PublicationInv, Publishing
<1>4. [ReleaseNext]_releaseVars
  BY DEF Outside, ReleaseNext
<1>5. QED
  BY <1>1, <1>3, <1>4, AssetsUnchanged DEF PublicationInv, AssetsTyped

LEMMA SignKeepsToken == PublicationInv /\ Sign => made' \in Run
<1> SUFFICES ASSUME PublicationInv, Sign PROVE made' \in Run
  OBVIOUS
<1>1. \E run \in Run : Fresh = {} \/ run \in Fresh
  BY RunAssumption DEF Fresh
<1>2. QED
  BY <1>1 DEF Sign

LEMMA PublicationNextInv == PublicationInv /\ [Next]_vars => PublicationInv'
<1> SUFFICES ASSUME PublicationInv, [Next]_vars PROVE PublicationInv'
  OBVIOUS
<1>1. [ReleaseNext]_releaseVars
  BY StepImplements DEF vars
<1>2. made \in Run
  BY DEF PublicationInv, AssetsTyped
<1>3. CASE UNCHANGED vars
  <2>1. UNCHANGED <<remote, at, made>> /\ UNCHANGED <<tags, step, base, chosen, commits>>
    BY <1>3 DEF vars, publicationVars, releaseVars, gitVars, runVars
  <2>2. Publishing'
    BY <2>1 DEF PublicationInv, Publishing, Tag
  <2>3. QED
    BY <1>1, <2>1, <2>2, AssetsUnchanged DEF PublicationInv, AssetsTyped
<1>4. CASE Outside /\ UNCHANGED publicationVars
  BY <1>4, OutsideInv
<1>5. CASE \E b \in Id : Begin(b)
  BY <1>1, <1>2, <1>5, ElsewhereInv DEF Begin, Start, Ended, publicationVars
<1>6. CASE (CommitStep \/ PromoteStep \/ Cleanup) /\ UNCHANGED publicationVars
  <2>1. step # "publish"
    BY <1>6 DEF CommitStep, PromoteStep, LookStaging, LookTag, LookMain, EnsureStaging,
       CreateCommit, Stage, ReadMain, FastForward, CreateTag, Cleanup
  <2>2. QED
    BY <1>1, <1>2, <1>6, <2>1, ElsewhereInv DEF publicationVars
<1>7. CASE Sign
  BY <1>1, <1>7, SignKeepsToken, ElsewhereInv DEF Sign, Checkout
<1>8. CASE Open \/ Reuse
  BY <1>8, MoveAlongInv
<1>9. CASE Upload
  BY <1>9, UploadInv
<1>10. CASE Reject \/ Close \/ Killed
  BY <1>1, <1>2, <1>10, ElsewhereInv DEF Reject, Close, Killed
<1>11. CASE UploadCut
  BY <1>11, UploadCutInv
<1>12. CASE (CreateUnverified \/ Overlook) /\ UNCHANGED publicationVars
  BY <1>1, <1>2, <1>12, ElsewhereInv DEF CreateUnverified, Overlook, publicationVars
<1>13. QED
  BY <1>3, <1>4, <1>5, <1>6, <1>7, <1>8, <1>9, <1>10, <1>11, <1>12
     DEF Next, Progress, Interruption

(* Publishing does not break the promise of the transaction: main and the  *)
(* tags go the way of Ledger under the detailed publication too.           *)
COROLLARY PublicationKeepsLedger == Spec => ImplementsLedger
BY PublicationRefines, LedgerKept

(* What is published is of the tagged commit and agrees with the aggregate.*)
THEOREM PublishedAssets == Spec => [](TypeOK /\ AssetsOfTag /\ AggregateMatches)
<1>1. Init => PublicationInv
  BY PublicationInitInv
<1>2. PublicationInv /\ [Next]_vars => PublicationInv'
  BY PublicationNextInv
<1>3. PublicationInv => TypeOK /\ AssetsOfTag /\ AggregateMatches
  BY DEF PublicationInv, ReleaseInv, AssetsTyped, TypeOK, AggregateSound, AggregateMatches
<1>4. QED
  BY <1>1, <1>2, <1>3, PTL DEF Spec

(* The aggregate holds the bundles that are published, whichever runs      *)
(* uploaded them (publish-github-release.sh).                              *)
COROLLARY AggregateHolds == Spec => []AggregateMatches
BY PublishedAssets, PTL

(* What is published is never replaced or removed. *)
THEOREM AssetsStay == Spec => AssetsImmutable
<1>1. Init => PublicationInv
  BY PublicationInitInv
<1>2. PublicationInv /\ [Next]_vars => PublicationInv'
  BY PublicationNextInv
<1>3. PublicationInv /\ [Next]_vars =>
        [\A v \in Version, a \in Asset :
           remote[v][a] # Absent => remote'[v][a] = remote[v][a]]_vars
  <2> SUFFICES ASSUME PublicationInv, [Next]_vars, NEW v \in Version, NEW a \in Asset,
                      remote[v][a] # Absent
               PROVE  remote'[v][a] = remote[v][a]
    OBVIOUS
  <2>1. CASE UNCHANGED remote
    BY <2>1
  <2>2. CASE at \in Asset /\ remote[Tag][at] = Absent
             /\ \E content : remote' = [remote EXCEPT ![Tag][at] = content]
    BY <2>2 DEF PublicationInv, AssetsTyped
  <2>3. QED
    BY <2>1, <2>2, OnlyAbsentChanges
<1>4. QED
  BY <1>1, <1>2, <1>3, PTL DEF Spec, AssetsImmutable
=============================================================================
