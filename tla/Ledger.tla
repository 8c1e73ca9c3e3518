------------------------------- MODULE Ledger -------------------------------
(***************************************************************************)
(* What the release transaction promises to those who read the repository  *)
(* (docs/release.md; scripts/promote-release.sh): main comes to hold one   *)
(* commit for each version released, in the order of the versions, and the *)
(* tag of a version is put once, on that commit.  Nothing is taken back.   *)
(***************************************************************************)
EXTENDS Naturals

CONSTANTS
  Version,  \* the versions that may be released
  None      \* no commit

VARIABLES
  held,     \* held[v]: the release commit of version v that main holds
  tags      \* tags[v]: the commit the tag of version v is on

vars == <<held, tags>>

Init ==
  /\ held = [v \in Version |-> None]
  /\ tags = [v \in Version |-> None]

(* main takes a release, of a version above all those it holds. *)
Promote(v) ==
  /\ \A w \in Version : held[w] # None => w < v
  /\ held'[v] # None
  /\ held' = [held EXCEPT ![v] = held'[v]]
  /\ UNCHANGED tags

(* The release that main holds is tagged. *)
Tag(v) ==
  /\ held[v] # None
  /\ tags[v] = None
  /\ tags' = [tags EXCEPT ![v] = held[v]]
  /\ UNCHANGED held

Next == \E v \in Version : Promote(v) \/ Tag(v)

Spec == Init /\ [][Next]_vars
=============================================================================
