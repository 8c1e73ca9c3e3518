--------------------------- MODULE ReleaseProofs ---------------------------
(***************************************************************************)
(* Proofs about `Release`, for any number of versions, editions and        *)
(* commits: what tags point at, that they and main are never taken back,   *)
(* and that main holds one release of a version at most.                   *)
(*                                                                         *)
(* The invariant has two parts.  The history is sound whatever the run     *)
(* does: commits are only appended, each on an existing one.  The run      *)
(* keeps hold of a release of its base from the moment it has chosen one,  *)
(* and main contains it from the moment the tag may be made - even when    *)
(* developers push in between, because they push on top of main.           *)
(***************************************************************************)
EXTENDS Release, SequenceTheorems, TLAPS

(* What a commit on parent p may look like: made by a developer, or a      *)
(* release of p.                                                           *)
OnParent(r, p) ==
  /\ r \in Commit
  /\ r.past = History(p)
  /\ r.parent = p
  /\ r.next # None => r.next > r.version
  /\ \/ ~r.released /\ r.version = commits[p].version
     \/ /\ r.released /\ ~commits[p].released
        /\ commits[p].next # None /\ r.version = commits[p].next

(* The history of commit c is a line that ends at its parent, along which  *)
(* versions grow, strictly at each release.                                *)
Sound(c) ==
  /\ commits[c].past \subseteq 1..(c - 1)
  /\ commits[c].next # None => commits[c].next > commits[c].version
  /\ \A a, b \in History(c) : a = b \/ a \in commits[b].past \/ b \in commits[a].past
  /\ \A a \in commits[c].past :
       /\ commits[a].past \subseteq commits[c].past
       /\ commits[a].version <= commits[c].version
       /\ commits[c].released => commits[a].version < commits[c].version
  /\ commits[c].released =>
       /\ commits[c].parent \in 1..(c - 1)
       /\ commits[commits[c].parent].next = commits[c].version
       /\ ~commits[commits[c].parent].released

HistorySound == \A c \in DOMAIN commits : Sound(c)

(* c is a Verified release of the base of the run. *)
IsRelease(c) ==
  /\ c \in DOMAIN commits
  /\ commits[c].released /\ commits[c].verified
  /\ commits[c].parent = base
  /\ commits[c].version = Tag

RunSound ==
  /\ step \notin Ended =>
       /\ base \in DOMAIN commits /\ ~commits[base].released
       /\ commits[base].next # None
  /\ step \in {"ensureStaging", "stage", "checkout", "promote", "advance",
               "tag", "publish", "cleanup"} => IsRelease(chosen)
  /\ step \in {"tag", "publish", "cleanup"} => chosen \in History(main)

ReleaseInv == ReleaseTypeOK /\ HistorySound /\ RunSound /\ TagsReleased

----------------------------------------------------------------------------
(* A commit is appended and what was there stays. *)
LEMMA AppendedCommit ==
  ASSUME ReleaseTypeOK, NEW r \in Commit, Len(commits) < MaxCommits,
         commits' = Append(commits, r)
  PROVE  /\ commits' \in Seq(Commit)
         /\ Len(commits') = Len(commits) + 1 /\ Len(commits') \in Id
         /\ DOMAIN commits = 1..Len(commits)
         /\ DOMAIN commits' = DOMAIN commits \cup {Len(commits')}
         /\ commits'[Len(commits')] = r
         /\ \A c \in DOMAIN commits : commits'[c] = commits[c]
BY MaxCommitsAssumption DEF ReleaseTypeOK, Id

LEMMA CommitFields ==
  ASSUME ReleaseTypeOK, NEW c \in DOMAIN commits
  PROVE  /\ commits[c] \in Commit
         /\ commits[c].past \subseteq Id
         /\ commits[c].version \in Nat /\ commits[c].next \in Nat
         /\ commits[c].next # None => commits[c].next \in Version
         /\ c \in Nat /\ c \in Id
<1>1. commits[c] \in Commit /\ c \in 1..Len(commits) /\ Len(commits) \in Id
  BY DEF ReleaseTypeOK
<1>2. c \in Nat /\ c \in Id
  BY <1>1, MaxCommitsAssumption DEF Id
<1>3. /\ \A v \in Version \cup {0} : v \in Nat
      /\ \A v \in Version \cup {None} : v \in Nat
  BY VersionAssumption DEF Version, None
<1>4. /\ commits[c].past \subseteq Id
      /\ commits[c].version \in Version \cup {0}
      /\ commits[c].next \in Version \cup {None}
  BY <1>1 DEF Commit
<1>5. commits[c].version \in Nat /\ commits[c].next \in Nat
  BY <1>3, <1>4
<1>6. commits[c].next # None => commits[c].next \in Version
  BY <1>4
<1>7. QED
  BY <1>1, <1>2, <1>4, <1>5, <1>6

LEMMA SoundAppend ==
  ASSUME ReleaseTypeOK, HistorySound, NEW p \in DOMAIN commits, NEW r,
         OnParent(r, p), Len(commits) < MaxCommits,
         commits' = Append(commits, r)
  PROVE  HistorySound'
<1>1. PICK n \in Nat :
      /\ n = Len(commits) + 1 /\ n = Len(commits')
      /\ DOMAIN commits = 1..Len(commits)
      /\ DOMAIN commits' = DOMAIN commits \cup {n}
      /\ commits'[n] = r
      /\ \A c \in DOMAIN commits : commits'[c] = commits[c]
      /\ Len(commits) \in Nat
  BY AppendedCommit DEF OnParent, ReleaseTypeOK, Id
<1>2. \A c \in DOMAIN commits :
        /\ History(c) \subseteq DOMAIN commits
        /\ History(c)' = History(c)
  BY <1>1 DEF HistorySound, Sound, History
<1>3. ASSUME NEW c \in DOMAIN commits PROVE Sound(c)'
  <2>1. Sound(c) /\ c \in Nat
    BY <1>1 DEF HistorySound
  <2>2. commits[c].past \subseteq DOMAIN commits /\ commits'[c] = commits[c]
    BY <1>1, <1>2 DEF History
  <2>3. commits[c].released => commits[c].parent \in DOMAIN commits
    BY <1>1, <2>1 DEF Sound
  <2>4. QED
    BY <1>1, <1>2, <2>1, <2>2, <2>3 DEF Sound
<1>4. Sound(n)'
  <2>1. Sound(p) /\ p \in Nat /\ p < n /\ commits'[p] = commits[p]
    BY <1>1 DEF HistorySound
  <2>2. r.past = History(p) /\ History(p) \subseteq DOMAIN commits /\ r.parent = p
    BY <1>2 DEF OnParent
  <2>3. \A a \in History(p) : /\ a \in Nat /\ a \in 1..(n - 1)
                              /\ commits'[a] = commits[a]
                              /\ commits[a].version \in Nat
                              /\ commits[a].version <= commits[p].version
    BY <1>1, <2>1, <2>2, CommitFields DEF Sound, History
  <2>4. \A a, b \in History(n)' :
          a = b \/ a \in commits'[b].past \/ b \in commits'[a].past
    <3>1. History(n)' = History(p) \cup {n}
      <4>1. History(n)' = commits'[n].past \cup {n}
        BY DEF History
      <4>2. QED
        BY <1>1, <2>2, <4>1
    <3>2. QED
      BY <1>1, <2>1, <2>2, <2>3, <3>1 DEF Sound
  <2>5. \A a \in r.past :
          /\ commits'[a].past \subseteq r.past
          /\ commits'[a].version <= r.version
          /\ r.released => commits'[a].version < r.version
    <3>1. commits[p].version \in Nat /\ commits[p].next \in Nat
      BY CommitFields
    <3>2. r.released => r.version > commits[p].version
      BY <2>1 DEF OnParent, Sound
    <3>3. ~r.released => r.version = commits[p].version
      BY DEF OnParent
    <3>4. r.version \in Nat
      BY <3>1, <3>3 DEF OnParent
    <3>5. \A a \in r.past : commits'[a].past \subseteq r.past
      BY <2>1, <2>2, <2>3 DEF Sound, History
    <3>6. QED
      BY <2>2, <2>3, <3>1, <3>2, <3>3, <3>4, <3>5
  <2>6. r.past \subseteq 1..(n - 1) /\ (r.next # None => r.next > r.version)
    BY <2>2, <2>3 DEF OnParent
  <2>7. r.released => /\ r.parent \in 1..(n - 1)
                      /\ commits'[r.parent].next = r.version
                      /\ ~commits'[r.parent].released
    BY <1>1, <2>1, <2>2 DEF OnParent
  <2>8. QED
    BY <1>1, <2>4, <2>5, <2>6, <2>7 DEF Sound
<1>5. QED
  BY <1>1, <1>3, <1>4 DEF HistorySound

LEMMA SoundUnchanged ==
  ASSUME HistorySound, UNCHANGED commits
  PROVE  HistorySound'
BY DEF HistorySound, Sound, History

(* Ancestors exist, and ancestors of an ancestor are ancestors. *)
LEMMA PastExists ==
  ASSUME ReleaseTypeOK, HistorySound, NEW c \in DOMAIN commits, NEW a \in commits[c].past
  PROVE  a \in DOMAIN commits /\ a < c
<1>1. Sound(c) /\ DOMAIN commits = 1..Len(commits) /\ Len(commits) \in Nat
  BY MaxCommitsAssumption DEF HistorySound, ReleaseTypeOK, Id
<1>2. QED
  BY <1>1 DEF Sound

LEMMA HistoryGrows ==
  ASSUME ReleaseTypeOK, HistorySound, NEW c \in DOMAIN commits, NEW a \in History(c)
  PROVE  History(a) \subseteq History(c)
<1> SUFFICES ASSUME a \in commits[c].past, NEW b \in commits[a].past
             PROVE  b \in commits[c].past
  BY DEF History
<1>1. QED
  BY DEF HistorySound, Sound

(* Tags keep pointing at releases that main contains when commits are      *)
(* appended and main moves forward.                                        *)
LEMMA TagsKept ==
  ASSUME ReleaseInv, UNCHANGED tags,
         \A c \in DOMAIN commits : commits'[c] = commits[c],
         (\A c \in History(main) : c \in History(main)')
  PROVE  TagsReleased'
<1> SUFFICES ASSUME NEW v \in Version, tags[v] # None
             PROVE  LET c == tags[v]
                    IN /\ c \in History(main)'
                       /\ commits'[c].released /\ commits'[c].verified
                       /\ commits'[c].version = v
                       /\ commits'[commits'[c].parent].next = v
                       /\ ~commits'[commits'[c].parent].released
  BY DEF TagsReleased
<1> DEFINE c == tags[v]
<1>1. /\ c \in History(main)
      /\ commits[c].released /\ commits[c].verified
      /\ commits[c].version = v
      /\ commits[commits[c].parent].next = v
      /\ ~commits[commits[c].parent].released
  BY DEF ReleaseInv, TagsReleased
<1>2. c \in DOMAIN commits /\ commits'[c] = commits[c]
  BY DEF ReleaseInv, ReleaseTypeOK
<1>3. commits[c].parent \in DOMAIN commits
  <2>1. Sound(c) /\ DOMAIN commits = 1..Len(commits) /\ Len(commits) \in Nat
    BY <1>2 DEF ReleaseInv, HistorySound, ReleaseTypeOK
  <2>2. QED
    BY <1>1, <1>2, <2>1 DEF Sound
<1>4. QED
  BY <1>1, <1>2, <1>3

----------------------------------------------------------------------------
LEMMA ReleaseInitInv == ReleaseInit => ReleaseInv
<1> SUFFICES ASSUME ReleaseInit PROVE ReleaseInv
  OBVIOUS
<1>1. PICK next \in Bumps(0) : commits = <<Pushed(None, {}, 0, next)>>
  BY DEF ReleaseInit
<1> DEFINE r == Pushed(None, {}, 0, next)
<1>2. next \in Version \cup {None} /\ (next # None => next > 0)
  BY DEF Bumps
<1>3. r \in Commit
  BY <1>2 DEF Pushed, Commit
<1>4. commits \in Seq(Commit) /\ Len(commits) = 1 /\ DOMAIN commits = {1} /\ commits[1] = r
  BY <1>1, <1>3
<1>5. ReleaseTypeOK
  BY <1>4, MaxCommitsAssumption DEF ReleaseInit, ReleaseTypeOK, Id, Steps, Ended
<1>6. Sound(1)
  BY <1>2, <1>4 DEF Sound, History, Pushed
<1>7. RunSound
  BY DEF ReleaseInit, RunSound, Ended
<1>8. TagsReleased
  BY DEF ReleaseInit, TagsReleased
<1>9. QED
  BY <1>4, <1>5, <1>6, <1>7, <1>8 DEF ReleaseInv, HistorySound

(* Developers: a new commit on top of main. *)
LEMMA PushInv == ReleaseInv /\ Push => ReleaseInv'
<1> SUFFICES ASSUME ReleaseInv, Push PROVE ReleaseInv'
  OBVIOUS
<1>1. ReleaseTypeOK /\ HistorySound /\ RunSound /\ TagsReleased
  BY DEF ReleaseInv
<1>2. PICK next \in Bumps(commits[main].version) :
        commits' = Append(commits, Pushed(main, History(main), commits[main].version, next))
  BY DEF Push
<1> DEFINE r == Pushed(main, History(main), commits[main].version, next)
<1>3. main \in DOMAIN commits /\ Len(commits) < MaxCommits /\ main' = Len(commits) + 1
  BY <1>1 DEF Push, ReleaseTypeOK
<1>4. OnParent(r, main)
  <2>1. next \in Version \cup {None} /\ (next # None => next > commits[main].version)
    BY DEF Bumps
  <2>2. History(main) \subseteq Id /\ commits[main] \in Commit /\ main \in Id
    BY <1>1, <1>3, CommitFields DEF History
  <2>3. r \in Commit
    BY <2>1, <2>2 DEF Pushed, Commit
  <2>4. QED
    BY <2>1, <2>3 DEF OnParent, Pushed
<1>5. HistorySound'
  BY <1>1, <1>2, <1>3, <1>4, SoundAppend
<1>6. /\ commits' \in Seq(Commit) /\ Len(commits') \in Id
      /\ Len(commits') = Len(commits) + 1
      /\ DOMAIN commits' = DOMAIN commits \cup {Len(commits')}
      /\ commits'[Len(commits')] = r
      /\ \A c \in DOMAIN commits : commits'[c] = commits[c]
  BY <1>1, <1>2, <1>3, <1>4, AppendedCommit DEF OnParent
<1>7. \A c \in History(main) : c \in History(main)'
  BY <1>2, <1>3, <1>6 DEF History, Pushed
<1>8. ReleaseTypeOK'
  BY <1>1, <1>3, <1>6 DEF ReleaseTypeOK, Push, runVars
<1>9. RunSound'
  <2>1. UNCHANGED <<step, base, edition, chosen>>
    BY DEF Push, runVars
  <2>2. step \notin Ended => Tag' = Tag
    BY <1>1, <1>6, <2>1 DEF RunSound, Tag
  <2>3. step \notin Ended /\ IsRelease(chosen) => IsRelease(chosen)'
    BY <1>6, <2>1, <2>2 DEF IsRelease
  <2>4. QED
    BY <1>1, <1>6, <1>7, <2>1, <2>3 DEF RunSound, Ended
<1>10. TagsReleased'
  BY <1>6, <1>7, TagsKept DEF Push
<1>11. QED
  BY <1>5, <1>8, <1>9, <1>10 DEF ReleaseInv

(* The run ends, and nothing in the repository changes but perhaps commits *)
(* and staging refs. *)
LEMMA StoppedRun ==
  ASSUME NEW how \in Ended, Stop(how)
  PROVE  /\ RunSound'
         /\ step' \in Steps /\ base' = None /\ edition' = None /\ chosen' = None
BY DEF Stop, RunSound, Ended, Steps

(* Steps that touch neither the commits, main nor the tags. *)
LEMMA QuietStep ==
  ASSUME ReleaseInv, UNCHANGED <<commits, main, tags>>,
         staging' \in [Id -> DOMAIN commits \cup {None}],
         step' \in Steps, base' \in DOMAIN commits \cup {None},
         edition' \in Edition \cup {None},
         chosen' \in DOMAIN commits \cup {None}, RunSound'
  PROVE  ReleaseInv'
<1>1. HistorySound'
  BY SoundUnchanged DEF ReleaseInv
<1>2. TagsReleased'
  BY TagsKept DEF History
<1>3. ReleaseTypeOK'
  BY DEF ReleaseInv, ReleaseTypeOK
<1>4. QED
  BY <1>1, <1>2, <1>3 DEF ReleaseInv

(* The run looks around: what it chooses has been identified. *)
LEMMA LookInv ==
  ASSUME ReleaseInv, LookStaging \/ LookTag \/ LookMain \/ Overlook
  PROVE  ReleaseInv'
<1>1. ReleaseTypeOK /\ RunSound
  BY DEF ReleaseInv
<1>2. UNCHANGED <<commits, main, tags, staging>>
  BY DEF LookStaging, LookTag, LookMain, Overlook, gitVars
<1>3. base \in DOMAIN commits /\ commits[base].next # None /\ ~commits[base].released
  BY <1>1 DEF LookStaging, LookTag, LookMain, Overlook, RunSound, Ended
<1>4. base \in Id /\ Tag \in Version
  BY <1>1, <1>3, CommitFields DEF Tag
<1>5. \A c \in DOMAIN commits \cup {None} : c # None => c \in DOMAIN commits
  OBVIOUS
<1>6. ASSUME NEW c \in DOMAIN commits, Identity(c), Choose(c, "ensureStaging")
      PROVE  ReleaseInv'
  <2>1. RunSound'
    BY <1>2, <1>3, <1>6 DEF RunSound, IsRelease, Identity, Choose, Tag, Ended
  <2>2. QED
    BY <1>1, <1>2, <1>6, <2>1, QuietStep DEF Choose, ReleaseTypeOK, Steps
<1>7. ASSUME NEW next \in {"lookTag", "lookMain", "create"}, GoOn(next)
      PROVE  ReleaseInv'
  <2>1. RunSound'
    BY <1>2, <1>3, <1>7 DEF RunSound, GoOn, Ended
  <2>2. QED
    BY <1>1, <1>2, <1>7, <2>1, QuietStep DEF GoOn, ReleaseTypeOK, Steps
<1>8. ASSUME Refuse PROVE ReleaseInv'
  <2>1. Stop("refused") /\ "refused" \in Ended
    BY <1>8 DEF Refuse, Ended
  <2>2. QED
    BY <1>1, <1>2, <2>1, StoppedRun, QuietStep DEF ReleaseTypeOK
<1>9. CASE LookStaging
  <2>1. staging[base] \in DOMAIN commits \cup {None}
    BY <1>1, <1>4 DEF ReleaseTypeOK
  <2>2. QED
    BY <1>6, <1>7, <1>8, <1>9, <2>1 DEF LookStaging
<1>10. CASE LookTag
  <2>1. tags[Tag] \in DOMAIN commits \cup {None}
    BY <1>1, <1>4 DEF ReleaseTypeOK
  <2>2. QED
    BY <1>6, <1>7, <1>8, <1>10, <2>1 DEF LookTag
<1>11. CASE LookMain
  BY <1>1, <1>6, <1>7, <1>11 DEF LookMain, ReleaseTypeOK
<1>12. CASE Overlook
  BY <1>7, <1>12 DEF Overlook
<1>13. QED
  BY <1>9, <1>10, <1>11, <1>12

(* The staging ref is put back, made, lost or deleted. *)
LEMMA StagingInv ==
  ASSUME ReleaseInv,
         EnsureStaging \/ Stage \/ Cleanup \/ \E b \in Id : LoseStaging(b)
  PROVE  ReleaseInv'
<1>1. ReleaseTypeOK /\ RunSound
  BY DEF ReleaseInv
<1>2. UNCHANGED <<commits, main, tags>>
  BY DEF EnsureStaging, Stage, Cleanup, LoseStaging
<1>3. staging' \in [Id -> DOMAIN commits \cup {None}]
  BY <1>1 DEF EnsureStaging, Stage, Cleanup, LoseStaging, ReleaseTypeOK
<1>4. ASSUME GoOn("checkout"), step \in {"ensureStaging", "stage"}
      PROVE  ReleaseInv'
  <2>1. RunSound'
    BY <1>1, <1>2, <1>4 DEF RunSound, IsRelease, GoOn, Tag, Ended
  <2>2. QED
    BY <1>1, <1>2, <1>3, <1>4, <2>1, QuietStep DEF GoOn, ReleaseTypeOK, Steps
<1>5. ASSUME NEW how \in Ended, Stop(how) PROVE ReleaseInv'
  BY <1>1, <1>2, <1>3, <1>5, StoppedRun, QuietStep DEF ReleaseTypeOK
<1>6. CASE EnsureStaging \/ Stage
  BY <1>4, <1>5, <1>6 DEF EnsureStaging, Stage, Refuse, Ended
<1>7. CASE Cleanup
  BY <1>5, <1>7 DEF Cleanup, Ended
<1>8. CASE \E b \in Id : LoseStaging(b)
  <2>1. UNCHANGED <<step, base, edition, chosen>>
    BY <1>8 DEF LoseStaging, runVars
  <2>2. RunSound'
    BY <1>1, <1>2, <2>1 DEF RunSound, IsRelease, History, Tag
  <2>3. QED
    BY <1>1, <1>2, <1>3, <2>1, <2>2, QuietStep DEF ReleaseTypeOK
<1>9. QED
  BY <1>6, <1>7, <1>8

(* A commit of the App; when it is Verified, it becomes the chosen one. *)
LEMMA CreateInv ==
  ASSUME ReleaseInv, CreateCommit \/ CreateUnverified
  PROVE  ReleaseInv'
<1>1. ReleaseTypeOK /\ HistorySound /\ RunSound /\ TagsReleased
  BY DEF ReleaseInv
<1>2. /\ base \in DOMAIN commits /\ commits[base].next # None /\ ~commits[base].released
      /\ Len(commits) < MaxCommits /\ UNCHANGED <<main, staging, tags>>
  BY <1>1 DEF CreateCommit, CreateUnverified, RunSound, Ended
<1>3. PICK verified \in BOOLEAN :
        /\ commits' = Append(commits, ReleaseOf(base, edition, verified))
        /\ \/ verified /\ Choose(Len(commits) + 1, "stage")
           \/ ~verified /\ Stop("refused")
  BY DEF CreateCommit, CreateUnverified, Refuse
<1> DEFINE r == ReleaseOf(base, edition, verified)
<1>4. OnParent(r, base)
  <2>1. commits[base].next \in Version /\ History(base) \subseteq Id /\ base \in Id
    BY <1>1, <1>2, CommitFields DEF History
  <2>2. edition \in Edition \cup {None}
    BY <1>1 DEF ReleaseTypeOK
  <2>3. r \in Commit
    BY <2>1, <2>2 DEF ReleaseOf, Commit
  <2>4. QED
    BY <1>2, <2>3 DEF OnParent, ReleaseOf
<1>5. HistorySound'
  BY <1>1, <1>2, <1>3, <1>4, SoundAppend
<1>6. /\ commits' \in Seq(Commit) /\ Len(commits') \in Id
      /\ Len(commits') = Len(commits) + 1
      /\ DOMAIN commits' = DOMAIN commits \cup {Len(commits')}
      /\ commits'[Len(commits')] = r
      /\ \A c \in DOMAIN commits : commits'[c] = commits[c]
  BY <1>1, <1>2, <1>3, <1>4, AppendedCommit DEF OnParent
<1>7. TagsReleased'
  <2>1. \A c \in History(main) : c \in History(main)'
    BY <1>1, <1>2, <1>6 DEF History, ReleaseTypeOK
  <2>2. QED
    BY <1>2, <1>6, <2>1, TagsKept
<1>8. CASE verified /\ Choose(Len(commits) + 1, "stage")
  <2>1. RunSound'
    BY <1>2, <1>6, <1>8 DEF RunSound, IsRelease, ReleaseOf, Choose, Tag, Ended
  <2>2. ReleaseTypeOK'
    BY <1>1, <1>2, <1>6, <1>8 DEF ReleaseTypeOK, Choose, Steps
  <2>3. QED
    BY <1>5, <1>7, <2>1, <2>2 DEF ReleaseInv
<1>9. CASE ~verified /\ Stop("refused")
  <2>1. RunSound' /\ step' \in Steps /\ base' = None /\ edition' = None /\ chosen' = None
    BY <1>9, StoppedRun DEF Ended
  <2>2. ReleaseTypeOK'
    BY <1>1, <1>2, <1>6, <2>1 DEF ReleaseTypeOK
  <2>3. QED
    BY <1>5, <1>7, <2>1, <2>2 DEF ReleaseInv
<1>10. QED
  BY <1>3, <1>8, <1>9

(* The start, the end, and the steps between the commit and the promotion. *)
LEMMA RunInv ==
  ASSUME ReleaseInv,
         \/ \E b \in DOMAIN commits : Start(b)
         \/ Kill \/ Checkout \/ ReadMain \/ Publish \/ PublishRefused
  PROVE  ReleaseInv'
<1>1. ReleaseTypeOK /\ RunSound
  BY DEF ReleaseInv
<1>2. UNCHANGED <<commits, main, staging, tags>>
  BY DEF Start, Kill, Checkout, ReadMain, Publish, PublishRefused, gitVars
<1>3. ASSUME NEW how \in Ended, Stop(how) PROVE ReleaseInv'
  BY <1>1, <1>2, <1>3, StoppedRun, QuietStep DEF ReleaseTypeOK
<1>4. ASSUME NEW next \in {"promote", "advance"}, GoOn(next),
             step \in {"checkout", "promote"}
      PROVE  ReleaseInv'
  <2>1. RunSound'
    BY <1>1, <1>2, <1>4 DEF RunSound, IsRelease, GoOn, Tag, Ended
  <2>2. QED
    BY <1>1, <1>2, <1>4, <2>1, QuietStep DEF GoOn, ReleaseTypeOK, Steps
<1>5. ASSUME NEW next \in {"tag", "cleanup"}, GoOn(next),
             (step = "promote" /\ main = chosen) \/ step = "publish"
      PROVE  ReleaseInv'
  <2>1. chosen \in History(main) /\ IsRelease(chosen)
    BY <1>1, <1>5 DEF RunSound, History
  <2>2. RunSound'
    BY <1>1, <1>2, <1>5, <2>1 DEF RunSound, IsRelease, GoOn, Tag, History, Ended
  <2>3. QED
    BY <1>1, <1>2, <1>5, <2>2, QuietStep DEF GoOn, ReleaseTypeOK, Steps
<1>6. CASE \E b \in DOMAIN commits : Start(b)
  <2>1. PICK b \in DOMAIN commits : Start(b)
    BY <1>6
  <2>2. RunSound'
    BY <1>2, <2>1 DEF RunSound, Start, Ended
  <2>3. QED
    BY <1>1, <1>2, <2>1, <2>2, QuietStep DEF Start, ReleaseTypeOK, Steps
<1>7. CASE Kill \/ PublishRefused
  BY <1>3, <1>7 DEF Kill, PublishRefused, Refuse, Ended
<1>8. CASE Checkout
  BY <1>3, <1>4, <1>8 DEF Checkout, Refuse, Ended
<1>9. CASE ReadMain
  BY <1>3, <1>4, <1>5, <1>9 DEF ReadMain, Refuse, Ended
<1>10. CASE Publish
  BY <1>5, <1>10 DEF Publish
<1>11. QED
  BY <1>6, <1>7, <1>8, <1>9, <1>10

(* The promotion: main advances to the chosen release, which then gets the *)
(* tag.                                                                    *)
LEMMA FastForwardInv == ReleaseInv /\ FastForward => ReleaseInv'
<1> SUFFICES ASSUME ReleaseInv, FastForward PROVE ReleaseInv'
  OBVIOUS
<1>1. ReleaseTypeOK /\ RunSound /\ step = "advance" /\ IsRelease(chosen)
  BY DEF ReleaseInv, FastForward, RunSound
<1>2. UNCHANGED <<commits, staging, tags>>
  BY DEF FastForward
<1>3. CASE UNCHANGED main /\ Stop("refused")
  <2>1. RunSound' /\ step' \in Steps /\ base' = None /\ edition' = None /\ chosen' = None
    BY <1>3, StoppedRun DEF Ended
  <2>2. QED
    BY <1>1, <1>2, <1>3, <2>1, QuietStep DEF ReleaseTypeOK
<1>4. CASE main \in History(chosen) /\ main' = chosen /\ GoOn("tag")
  <2>1. \A c \in History(main) : c \in History(main)'
    BY <1>1, <1>2, <1>4, HistoryGrows DEF ReleaseInv, IsRelease, History
  <2>2. TagsReleased'
    BY <1>2, <2>1, TagsKept
  <2>3. HistorySound'
    BY <1>2, SoundUnchanged DEF ReleaseInv
  <2>4. RunSound'
    BY <1>1, <1>2, <1>4 DEF RunSound, IsRelease, GoOn, Tag, History, Ended
  <2>5. ReleaseTypeOK'
    BY <1>1, <1>2, <1>4 DEF ReleaseTypeOK, IsRelease, GoOn, Steps
  <2>6. QED
    BY <2>2, <2>3, <2>4, <2>5 DEF ReleaseInv
<1>5. QED
  BY <1>3, <1>4 DEF FastForward, Refuse

LEMMA CreateTagInv == ReleaseInv /\ CreateTag => ReleaseInv'
<1> SUFFICES ASSUME ReleaseInv, CreateTag PROVE ReleaseInv'
  OBVIOUS
<1>1. /\ ReleaseTypeOK /\ RunSound /\ TagsReleased /\ step = "tag"
      /\ IsRelease(chosen) /\ chosen \in History(main)
      /\ base \in DOMAIN commits /\ ~commits[base].released
      /\ commits[base].next # None
  BY DEF ReleaseInv, CreateTag, RunSound, Ended
<1>2. UNCHANGED <<commits, main, staging>>
  BY DEF CreateTag
<1>3. Tag \in Version
  BY <1>1, CommitFields DEF Tag
<1>4. HistorySound'
  BY <1>2, SoundUnchanged DEF ReleaseInv
<1>5. CASE UNCHANGED tags /\ Stop("refused")
  <2>1. RunSound' /\ step' \in Steps /\ base' = None /\ edition' = None /\ chosen' = None
    BY <1>5, StoppedRun DEF Ended
  <2>2. QED
    BY <1>1, <1>2, <1>5, <2>1, QuietStep DEF ReleaseTypeOK
<1>6. CASE tags' = [tags EXCEPT ![Tag] = chosen] /\ GoOn("publish")
  <2>1. TagsReleased'
    <3>1. \A v \in Version : tags'[v] = IF v = Tag THEN chosen ELSE tags[v]
      BY <1>1, <1>3, <1>6 DEF ReleaseTypeOK
    <3>2. /\ chosen \in History(main)
          /\ commits[chosen].released /\ commits[chosen].verified
          /\ commits[chosen].version = Tag
          /\ commits[commits[chosen].parent].next = Tag
          /\ ~commits[commits[chosen].parent].released
      BY <1>1 DEF IsRelease, Tag
    <3>3. History(main)' = History(main)
      BY <1>2 DEF History
    <3>4. QED
      BY <1>1, <1>2, <3>1, <3>2, <3>3 DEF TagsReleased
  <2>2. RunSound'
    BY <1>1, <1>2, <1>6 DEF RunSound, IsRelease, GoOn, Tag, History, Ended
  <2>3. ReleaseTypeOK'
    BY <1>1, <1>2, <1>3, <1>6 DEF ReleaseTypeOK, IsRelease, GoOn, Steps
  <2>4. QED
    BY <1>4, <2>1, <2>2, <2>3 DEF ReleaseInv
<1>7. QED
  BY <1>5, <1>6 DEF CreateTag, Refuse

LEMMA ReleaseNextInv == ReleaseInv /\ [ReleaseNext]_releaseVars => ReleaseInv'
<1> SUFFICES ASSUME ReleaseInv, [ReleaseNext]_releaseVars PROVE ReleaseInv'
  OBVIOUS
<1>1. CASE UNCHANGED releaseVars
  <2>1. UNCHANGED <<commits, main, staging, tags, step, base, edition, chosen>>
    BY <1>1 DEF releaseVars, gitVars, runVars
  <2>2. RunSound'
    BY <2>1 DEF ReleaseInv, RunSound, IsRelease, History, Tag
  <2>3. QED
    BY <2>1, <2>2, QuietStep DEF ReleaseInv, ReleaseTypeOK
<1>2. CASE Push
  BY <1>2, PushInv
<1>3. CASE LookStaging \/ LookTag \/ LookMain \/ Overlook
  BY <1>3, LookInv
<1>4. CASE EnsureStaging \/ Stage \/ Cleanup \/ \E b \in Id : LoseStaging(b)
  BY <1>4, StagingInv
<1>5. CASE CreateCommit \/ CreateUnverified
  BY <1>5, CreateInv
<1>6. CASE \/ \E b \in DOMAIN commits : Start(b)
           \/ Kill \/ Checkout \/ ReadMain \/ Publish \/ PublishRefused
  BY <1>6, RunInv
<1>7. CASE FastForward
  BY <1>7, FastForwardInv
<1>8. CASE CreateTag
  BY <1>8, CreateTagInv
<1>9. QED
  BY <1>1, <1>2, <1>3, <1>4, <1>5, <1>6, <1>7, <1>8
     DEF ReleaseNext, CommitStep, PromoteStep

(* Two releases of one version cannot both be ancestors of main: the older *)
(* one is in the past of the younger, whose version is greater.            *)
LEMMA OneRelease == ReleaseInv => OneReleasePerVersion
<1> SUFFICES ASSUME ReleaseInv, NEW c \in History(main), NEW d \in History(main),
                    commits[c].released, commits[d].released,
                    commits[c].version = commits[d].version
             PROVE  c = d
  BY DEF OneReleasePerVersion
<1>1. ReleaseTypeOK /\ HistorySound /\ main \in DOMAIN commits /\ Sound(main)
  BY DEF ReleaseInv, ReleaseTypeOK, HistorySound
<1>2. c \in DOMAIN commits /\ d \in DOMAIN commits
  BY <1>1, PastExists DEF History
<1>3. Sound(c) /\ Sound(d) /\ commits[c].version \in Nat /\ commits[d].version \in Nat
  BY <1>1, <1>2, CommitFields DEF HistorySound
<1>4. c = d \/ c \in commits[d].past \/ d \in commits[c].past
  BY <1>1 DEF Sound
<1>5. c \notin commits[d].past /\ d \notin commits[c].past
  BY <1>3 DEF Sound
<1>6. QED
  BY <1>4, <1>5

----------------------------------------------------------------------------
(* Every tag is on a Verified release of its version, of an unreleased     *)
(* base, that main contains; main holds one release of a version at most.  *)
THEOREM TagsAreReleases ==
  ReleaseSpec => [](ReleaseTypeOK /\ TagsReleased /\ OneReleasePerVersion)
<1>1. ReleaseInit => ReleaseInv
  BY ReleaseInitInv
<1>2. ReleaseInv /\ [ReleaseNext]_releaseVars => ReleaseInv'
  BY ReleaseNextInv
<1>3. ReleaseInv => ReleaseTypeOK /\ TagsReleased /\ OneReleasePerVersion
  BY OneRelease DEF ReleaseInv
<1>4. QED
  BY <1>1, <1>2, <1>3, PTL DEF ReleaseSpec

(* However many runs and reruns make commits of it, main holds one release *)
(* of a version at most (create-release-commit.sh, promote-release.sh).    *)
COROLLARY OnePerVersion == ReleaseSpec => []OneReleasePerVersion
BY TagsAreReleases, PTL

(* main is only moved to a commit that contains it: by a push on top of it *)
(* or by a fast forward.                                                   *)
THEOREM MainAdvances == ReleaseSpec => MainOnlyAdvances
<1>1. ReleaseInit => ReleaseInv
  BY ReleaseInitInv
<1>2. ReleaseInv /\ [ReleaseNext]_releaseVars => ReleaseInv'
  BY ReleaseNextInv
<1>3. ReleaseInv /\ [ReleaseNext]_releaseVars => [(main \in History(main)')]_releaseVars
  <2> SUFFICES ASSUME ReleaseInv, ReleaseNext PROVE main \in History(main)'
    OBVIOUS
  <2>1. CASE UNCHANGED main
    BY <2>1 DEF History
  <2>2. CASE Push
    <3>1. PICK next : commits' = Append(commits, Pushed(main, History(main), commits[main].version, next))
      BY <2>2 DEF Push
    <3>2. commits'[Len(commits) + 1] = Pushed(main, History(main), commits[main].version, next)
      BY <3>1 DEF ReleaseInv, ReleaseTypeOK
    <3>3. QED
      BY <2>2, <3>2 DEF Push, Pushed, History
  <2>3. CASE FastForward
    BY <2>1, <2>3 DEF FastForward, History
  <2>4. QED
    BY <2>1, <2>2, <2>3 DEF ReleaseNext, CommitStep, PromoteStep, LookStaging, LookTag,
       LookMain, Overlook, EnsureStaging, CreateCommit, CreateUnverified, Stage, Checkout,
       ReadMain, CreateTag, Publish, PublishRefused, Cleanup, Start, Kill, LoseStaging, gitVars
<1>4. QED
  BY <1>1, <1>2, <1>3, PTL DEF ReleaseSpec, MainOnlyAdvances

(* A tag that exists is never moved or removed, by any run. *)
THEOREM TagsNeverMove == ReleaseSpec => TagsImmutable
<1>1. ReleaseInit => ReleaseInv
  BY ReleaseInitInv
<1>2. ReleaseInv /\ [ReleaseNext]_releaseVars => ReleaseInv'
  BY ReleaseNextInv
<1>3. ReleaseInv /\ [ReleaseNext]_releaseVars =>
        [\A v \in Version : tags[v] # None => tags'[v] = tags[v]]_releaseVars
  <2> SUFFICES ASSUME ReleaseInv, ReleaseNext, NEW v \in Version, tags[v] # None
               PROVE  tags'[v] = tags[v]
    OBVIOUS
  <2>1. CASE UNCHANGED tags
    BY <2>1
  <2>2. CASE CreateTag
    BY <2>2 DEF CreateTag, ReleaseInv, ReleaseTypeOK
  <2>3. QED
    BY <2>1, <2>2 DEF ReleaseNext, CommitStep, PromoteStep, LookStaging, LookTag,
       LookMain, Overlook, EnsureStaging, CreateCommit, CreateUnverified, Stage, Checkout,
       ReadMain, FastForward, Publish, PublishRefused, Cleanup, Start, Kill, LoseStaging,
       Push, gitVars
<1>4. QED
  BY <1>1, <1>2, <1>3, PTL DEF ReleaseSpec, TagsImmutable
----------------------------------------------------------------------------
(* The refinement of Ledger.  Two more facts are needed: the history of a  *)
(* commit is its parent's with the parent, so that a fast forward adds     *)
(* nothing to main but the release; and the run advances main only after   *)
(* it has seen main at its base.                                           *)
ParentPast ==
  \A c \in DOMAIN commits :
    commits[c].parent # None =>
      /\ commits[c].parent \in DOMAIN commits
      /\ commits[c].past = History(commits[c].parent)

BaseHeld == step = "advance" => base \in History(main)

LedgerInv == ReleaseInv /\ ParentPast /\ BaseHeld

LEMMA LedgerInit == ReleaseInit => LedgerInv
<1> SUFFICES ASSUME ReleaseInit PROVE LedgerInv
  OBVIOUS
<1>1. PICK next \in Bumps(0) : commits = <<Pushed(None, {}, 0, next)>>
  BY DEF ReleaseInit
<1>2. ParentPast
  BY <1>1 DEF ParentPast, Pushed
<1>3. BaseHeld
  BY DEF ReleaseInit, BaseHeld
<1>4. QED
  BY <1>2, <1>3, ReleaseInitInv DEF LedgerInv

(* Appending a commit changes no history, and keeps the parents. *)
LEMMA ParentAppend ==
  ASSUME ReleaseInv, ParentPast, NEW p \in DOMAIN commits, NEW r,
         OnParent(r, p), Len(commits) < MaxCommits,
         commits' = Append(commits, r)
  PROVE  /\ ParentPast'
         /\ \A c \in DOMAIN commits : History(c)' = History(c) /\ commits'[c] = commits[c]
         /\ Len(commits') = Len(commits) + 1
         /\ commits'[Len(commits')] = r
<1>1. PICK n \in Nat :
        /\ n = Len(commits) + 1 /\ n = Len(commits')
        /\ DOMAIN commits' = DOMAIN commits \cup {n}
        /\ commits'[n] = r
        /\ \A c \in DOMAIN commits : commits'[c] = commits[c]
  BY AppendedCommit DEF OnParent, ReleaseInv, ReleaseTypeOK, Id
<1>2. \A c \in DOMAIN commits : History(c)' = History(c)
  BY <1>1 DEF History
<1>4. ASSUME NEW c \in DOMAIN commits, commits[c].parent # None
      PROVE  /\ commits[c].parent \in DOMAIN commits'
             /\ commits[c].past = commits'[commits[c].parent].past \cup {commits[c].parent}
  BY <1>1, <1>4 DEF ParentPast, History
<1>5. r.parent \in DOMAIN commits' /\ r.past = commits'[r.parent].past \cup {r.parent}
  BY <1>1 DEF OnParent, History
<1>6. ParentPast'
  BY <1>1, <1>4, <1>5 DEF ParentPast, History
<1>7. QED
  BY <1>1, <1>2, <1>6

(* What the App makes and what developers push is on a commit. *)
LEMMA PushedOnMain ==
  ASSUME ReleaseInv, NEW next \in Bumps(commits[main].version)
  PROVE  OnParent(Pushed(main, History(main), commits[main].version, next), main)
<1>1. ReleaseTypeOK /\ main \in DOMAIN commits
  BY DEF ReleaseInv, ReleaseTypeOK
<1>2. next \in Version \cup {None} /\ (next # None => next > commits[main].version)
  BY DEF Bumps
<1>3. History(main) \subseteq Id /\ commits[main] \in Commit /\ main \in Id
  BY <1>1, CommitFields DEF History
<1>4. Pushed(main, History(main), commits[main].version, next) \in Commit
  BY <1>2, <1>3 DEF Pushed, Commit
<1>5. QED
  BY <1>2, <1>4 DEF OnParent, Pushed

LEMMA ReleaseOnBase ==
  ASSUME ReleaseInv, step = "create", NEW verified \in BOOLEAN
  PROVE  base \in DOMAIN commits /\ OnParent(ReleaseOf(base, edition, verified), base)
<1>1. /\ ReleaseTypeOK /\ base \in DOMAIN commits
      /\ commits[base].next # None /\ ~commits[base].released
  BY DEF ReleaseInv, RunSound, Ended
<1>2. commits[base].next \in Version /\ History(base) \subseteq Id /\ base \in Id
  BY <1>1, CommitFields DEF History
<1>3. edition \in Edition \cup {None}
  BY <1>1 DEF ReleaseTypeOK
<1>4. ReleaseOf(base, edition, verified) \in Commit
  BY <1>2, <1>3 DEF ReleaseOf, Commit
<1>5. QED
  BY <1>1, <1>4 DEF OnParent, ReleaseOf

(* While main holds the same releases, the abstract ledger stutters. *)
LEMMA HeldKept ==
  ASSUME \A v \in Version : Releases(v)' = Releases(v)
  PROVE  Held' = Held
BY DEF Held

LEMMA LedgerPush ==
  ASSUME LedgerInv, Push
  PROVE  LedgerInv' /\ Held' = Held
<1>1. ReleaseInv' /\ ReleaseInv /\ ParentPast /\ BaseHeld
  BY PushInv DEF LedgerInv
<1>2. PICK next \in Bumps(commits[main].version) :
        commits' = Append(commits, Pushed(main, History(main), commits[main].version, next))
  BY DEF Push
<1> DEFINE r == Pushed(main, History(main), commits[main].version, next)
<1>3. /\ main \in DOMAIN commits /\ Len(commits) < MaxCommits /\ main' = Len(commits) + 1
      /\ step' = step /\ base' = base
      /\ History(main) \subseteq DOMAIN commits
  BY <1>1, PastExists DEF Push, ReleaseInv, ReleaseTypeOK, History, runVars
<1>4. /\ ParentPast'
      /\ \A c \in DOMAIN commits : commits'[c] = commits[c]
      /\ History(main)' = History(main) \cup {main'}
      /\ commits'[main'] = r
  <2>1. OnParent(r, main)
    BY <1>1, PushedOnMain
  <2>2. /\ ParentPast'
        /\ \A c \in DOMAIN commits : History(c)' = History(c) /\ commits'[c] = commits[c]
        /\ commits'[main'] = r
    BY <1>1, <1>2, <1>3, <2>1, ParentAppend
  <2>3. QED
    BY <1>3, <2>2 DEF History, Pushed
<1>5. BaseHeld'
  BY <1>1, <1>3, <1>4 DEF BaseHeld
<1>6. ~commits'[main'].released
  BY <1>4 DEF Pushed
<1>7. \A v \in Version : Releases(v)' = Releases(v)
  BY <1>3, <1>4, <1>6 DEF Releases
<1>8. QED
  BY <1>1, <1>4, <1>5, <1>7, HeldKept DEF LedgerInv

LEMMA LedgerCreate ==
  ASSUME LedgerInv, CreateCommit \/ CreateUnverified
  PROVE  LedgerInv' /\ Held' = Held
<1>1. ReleaseInv' /\ ReleaseInv /\ ParentPast
  BY CreateInv DEF LedgerInv
<1>2. PICK verified \in BOOLEAN : commits' = Append(commits, ReleaseOf(base, edition, verified))
  BY DEF CreateCommit, CreateUnverified
<1>3. /\ step = "create" /\ Len(commits) < MaxCommits /\ main' = main /\ main \in DOMAIN commits
      /\ step' # "advance" /\ History(main) \subseteq DOMAIN commits
  BY <1>1, PastExists DEF CreateCommit, CreateUnverified, Choose, Refuse, Stop, ReleaseInv,
     ReleaseTypeOK, History
<1>4. base \in DOMAIN commits /\ OnParent(ReleaseOf(base, edition, verified), base)
  BY <1>1, <1>3, ReleaseOnBase
<1>5. /\ ParentPast'
      /\ \A c \in DOMAIN commits : History(c)' = History(c) /\ commits'[c] = commits[c]
  BY <1>1, <1>2, <1>3, <1>4, ParentAppend
<1>6. History(main)' = History(main)
  BY <1>3, <1>5 DEF History
<1>7. \A v \in Version : Releases(v)' = Releases(v)
  BY <1>3, <1>5, <1>6 DEF Releases
<1>8. QED
  BY <1>1, <1>3, <1>5, <1>7, HeldKept DEF LedgerInv, BaseHeld

(* The steps that leave the commits and main: only ReadMain goes on to the *)
(* update of main, when it has seen main at the base.                      *)
LEMMA LedgerQuiet ==
  ASSUME LedgerInv, ReleaseInv', UNCHANGED <<commits, main>>,
         step' = "advance" => base' \in History(main)
  PROVE  LedgerInv' /\ Held' = Held
<1>1. ParentPast' /\ BaseHeld'
  BY DEF LedgerInv, ParentPast, BaseHeld, History
<1>2. \A v \in Version : Releases(v)' = Releases(v)
  BY DEF Releases, History
<1>3. QED
  BY <1>1, <1>2, HeldKept DEF LedgerInv

(* Every version that main holds is below the next one of its commit. *)
LEMMA HeldBelow ==
  ASSUME ReleaseInv, NEW b \in DOMAIN commits, NEW c \in History(b), commits[b].next # None
  PROVE  c \in DOMAIN commits /\ commits[c].version < commits[b].next
<1>1. ReleaseTypeOK /\ HistorySound /\ Sound(b) /\ c \in DOMAIN commits
  BY PastExists DEF ReleaseInv, HistorySound, History
<1>2. commits[b].version \in Nat /\ commits[b].next \in Nat /\ commits[c].version \in Nat
  BY <1>1, CommitFields
<1>3. commits[c].version <= commits[b].version
  BY <1>1, <1>2 DEF Sound, History
<1>4. QED
  BY <1>1, <1>2, <1>3 DEF Sound

LEMMA LedgerFastForward ==
  ASSUME LedgerInv, FastForward
  PROVE  LedgerInv' /\ [Promise!Next]_(Promise!vars)
<1>1. /\ ReleaseInv' /\ ReleaseInv /\ ReleaseTypeOK /\ HistorySound
      /\ step = "advance" /\ IsRelease(chosen)
      /\ base \in DOMAIN commits /\ commits[base].next # None
      /\ base \in History(main) /\ UNCHANGED <<commits, tags>>
  BY FastForwardInv DEF LedgerInv, ReleaseInv, FastForward, RunSound, BaseHeld, Ended
<1>2. CASE UNCHANGED main
  <2>1. step' # "advance"
    BY DEF FastForward, GoOn, Refuse, Stop
  <2>2. QED
    BY <1>1, <1>2, <2>1, LedgerQuiet DEF Promise!vars
<1>3. CASE main \in History(chosen) /\ main' = chosen /\ main # chosen /\ GoOn("tag")
  <2>1. /\ commits[chosen].past = History(base) /\ chosen \in DOMAIN commits
        /\ chosen \notin History(base) /\ base \in DOMAIN commits
    <3>1. /\ chosen \in DOMAIN commits /\ commits[chosen].parent = base
          /\ chosen \in Nat /\ chosen # None
      BY <1>1, CommitFields, MaxCommitsAssumption DEF IsRelease, None, Id
    <3>2. base # None
      BY <1>1, CommitFields, MaxCommitsAssumption DEF None, Id
    <3>3. commits[chosen].past = History(base)
      BY <3>1, <3>2 DEF LedgerInv, ParentPast
    <3>4. Sound(chosen)
      BY <1>1, <3>1 DEF HistorySound
    <3>5. QED
      BY <1>1, <3>1, <3>3, <3>4 DEF Sound
  <2>2. main = base
    <3>1. main \in History(base)
      BY <1>3, <2>1 DEF History
    <3>2. main \in DOMAIN commits
      BY <1>1 DEF ReleaseTypeOK
    <3>3. SUFFICES ASSUME main # base PROVE FALSE
      OBVIOUS
    <3>4. main < base /\ base < main
      BY <1>1, <3>1, <3>2, <3>3, PastExists DEF History
    <3>5. main \in Nat /\ base \in Nat
      BY <1>1, <3>2, CommitFields
    <3>6. QED
      BY <3>4, <3>5
  <2>3. /\ History(main)' = History(main) \cup {chosen} /\ chosen \notin History(main)
        /\ \A c \in DOMAIN commits : commits'[c] = commits[c]
    BY <1>1, <1>3, <2>1, <2>2 DEF History
  <2>4. Tag \in Version /\ chosen # None /\ Version \subseteq Nat
    BY <1>1, <2>1, CommitFields, MaxCommitsAssumption, VersionAssumption
       DEF Tag, None, Id, Version
  <2>5. \A c \in History(main) : c \in DOMAIN commits /\ commits[c].version < Tag
    BY <1>1, <2>2, HeldBelow DEF Tag
  <2>6. commits[chosen].released /\ commits[chosen].version = Tag
    BY <1>1 DEF IsRelease
  <2>7. \A v \in Version : Releases(v)' = IF v = Tag THEN {chosen} ELSE Releases(v)
    <3>1. \A c \in History(main) : commits[c].version # Tag
      <4>1. \A c \in History(main) : commits[c].version \in Nat
        BY <1>1, <2>5, CommitFields
      <4>2. QED
        BY <2>4, <2>5, <4>1
    <3>2. \A v \in Version : Releases(v)' =
            {c \in History(main) \cup {chosen} : commits[c].released /\ commits[c].version = v}
      BY <1>1, <2>3 DEF Releases
    <3>3. QED
      BY <2>6, <3>1, <3>2 DEF Releases
  <2>8. \A w \in Version : Held[w] # None => w < Tag
    <3>1. \A w \in Version : Held[w] # None => Releases(w) # {}
      BY DEF Held, The
    <3>2. QED
      BY <2>5, <3>1 DEF Releases
  <2>9. Held'[Tag] = chosen /\ Held' = [Held EXCEPT ![Tag] = Held'[Tag]]
    <3>1. Held'[Tag] = chosen
      BY <2>4, <2>7 DEF Held, The
    <3>2. \A v \in Version : v # Tag => Held'[v] = Held[v]
      BY <2>7 DEF Held
    <3>3. QED
      BY <2>4, <3>1, <3>2 DEF Held
  <2>10. Promise!Promote(Tag)
    BY <1>1, <2>4, <2>8, <2>9 DEF Promise!Promote
  <2>11. ParentPast'
    BY <1>1 DEF LedgerInv, ParentPast, History
  <2>12. BaseHeld'
    BY <1>3 DEF GoOn, BaseHeld
  <2>13. QED
    BY <1>1, <2>4, <2>10, <2>11, <2>12 DEF LedgerInv, Promise!Next
<1>4. CASE main' = main \/ main = chosen
  BY <1>2, <1>4 DEF FastForward
<1>5. QED
  BY <1>2, <1>3, <1>4 DEF FastForward

LEMMA LedgerCreateTag ==
  ASSUME LedgerInv, CreateTag
  PROVE  LedgerInv' /\ [Promise!Next]_(Promise!vars)
<1>1. /\ ReleaseInv' /\ ReleaseInv /\ ReleaseTypeOK
      /\ step = "tag" /\ IsRelease(chosen) /\ chosen \in History(main)
      /\ base \in DOMAIN commits /\ commits[base].next # None
      /\ UNCHANGED <<commits, main>> /\ step' # "advance"
  BY CreateTagInv DEF LedgerInv, ReleaseInv, CreateTag, RunSound, Ended, GoOn, Refuse, Stop
<1>2. LedgerInv' /\ Held' = Held
  BY <1>1, LedgerQuiet
<1>3. Tag \in Version /\ chosen # None
  BY <1>1, CommitFields, MaxCommitsAssumption DEF Tag, IsRelease, None, Id
<1>4. Held[Tag] = chosen
  <2>1. chosen \in Releases(Tag)
    BY <1>1 DEF Releases, IsRelease
  <2>2. \A c \in Releases(Tag) : c = chosen
    BY <1>1, <2>1, OneRelease DEF Releases, OneReleasePerVersion
  <2>3. QED
    BY <1>3, <2>1, <2>2 DEF Held, The
<1>5. CASE UNCHANGED tags
  BY <1>2, <1>5 DEF Promise!vars
<1>6. CASE tags[Tag] = None /\ tags' = [tags EXCEPT ![Tag] = chosen]
  <2>1. Promise!Tag(Tag)
    BY <1>2, <1>3, <1>4, <1>6 DEF Promise!Tag
  <2>2. QED
    BY <1>2, <1>3, <2>1 DEF Promise!Next
<1>7. CASE tags[Tag] = chosen /\ tags' = [tags EXCEPT ![Tag] = chosen]
  BY <1>1, <1>3, <1>5, <1>7 DEF ReleaseTypeOK
<1>8. QED
  BY <1>5, <1>6, <1>7 DEF CreateTag

LEMMA LedgerStep ==
  ASSUME LedgerInv, [ReleaseNext]_releaseVars
  PROVE  LedgerInv' /\ [Promise!Next]_(Promise!vars)
<1>1. ReleaseInv' /\ ReleaseInv
  BY ReleaseNextInv DEF LedgerInv
<1>2. ASSUME UNCHANGED <<commits, main, tags>>, step' = "advance" => base' \in History(main)
      PROVE  LedgerInv' /\ [Promise!Next]_(Promise!vars)
  BY <1>1, <1>2, LedgerQuiet DEF Promise!vars
<1>3. CASE Push
  BY <1>3, LedgerPush DEF Push, Promise!vars
<1>4. CASE CreateCommit \/ CreateUnverified
  BY <1>4, LedgerCreate DEF CreateCommit, CreateUnverified, Promise!vars
<1>5. CASE FastForward
  BY <1>5, LedgerFastForward
<1>6. CASE CreateTag
  BY <1>6, LedgerCreateTag
<1>7. CASE ReadMain
  <2>1. step' = "advance" => base' = base /\ main = base
    BY <1>7 DEF ReadMain, Promotable, GoOn, Refuse, Stop
  <2>2. QED
    BY <1>2, <1>7, <2>1 DEF ReadMain, gitVars, History
<1>8. CASE UNCHANGED releaseVars \/ \E b \in Id : LoseStaging(b)
  <2>1. UNCHANGED <<commits, main, tags, step, base>>
    BY <1>8 DEF LoseStaging, releaseVars, gitVars, runVars
  <2>2. QED
    BY <1>2, <2>1 DEF LedgerInv, BaseHeld
<1>9. CASE \/ LookStaging \/ LookTag \/ LookMain \/ Overlook
           \/ EnsureStaging \/ Stage \/ Cleanup \/ Checkout
           \/ Publish \/ PublishRefused \/ Kill
           \/ \E b \in DOMAIN commits : Start(b)
  <2>1. UNCHANGED <<commits, main, tags>> /\ step' # "advance"
    BY <1>9 DEF LookStaging, LookTag, LookMain, Overlook, EnsureStaging, Stage, Cleanup,
       Checkout, Publish, PublishRefused, Kill, Start, GoOn, Choose, Refuse, Stop, gitVars
  <2>2. QED
    BY <1>2, <2>1
<1>10. QED
  BY <1>3, <1>4, <1>5, <1>6, <1>7, <1>8, <1>9 DEF ReleaseNext, CommitStep, PromoteStep

(* The transaction keeps the promise of Ledger: main takes one release at  *)
(* a time, in the order of the versions, and the tag of a version is put   *)
(* once, on the release that main holds.                                   *)
THEOREM LedgerKept == ReleaseSpec => ImplementsLedger
<1>1. ReleaseInit => LedgerInv /\ Promise!Init
  <2>1. ASSUME ReleaseInit PROVE Promise!Init
    <3>1. PICK next : commits = <<Pushed(None, {}, 0, next)>>
      BY <2>1 DEF ReleaseInit
    <3>2. \A v \in Version : Releases(v) = {}
      BY <2>1, <3>1 DEF ReleaseInit, Releases, History, Pushed
    <3>3. QED
      BY <2>1, <3>2 DEF ReleaseInit, Held, The, Promise!Init
  <2>2. QED
    BY <2>1, LedgerInit
<1>2. LedgerInv /\ [ReleaseNext]_releaseVars => LedgerInv' /\ [Promise!Next]_(Promise!vars)
  BY LedgerStep
<1>3. QED
  BY <1>1, <1>2, PTL DEF ReleaseSpec, ImplementsLedger, Promise!Spec
=============================================================================
