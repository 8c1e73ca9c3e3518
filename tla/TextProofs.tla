----------------------------- MODULE TextProofs -----------------------------
(***************************************************************************)
(* The properties of `Text` hold for strings of any length over any        *)
(* alphabet, any column width and any bound on references: the only facts  *)
(* needed are that the classes a reference is made of are neither control  *)
(* characters nor separators, and that what replaces a control is none.    *)
(* Those of `Mapping` hold for every container the engine may hold, every  *)
(* answer about it and any column of names.                                *)
(***************************************************************************)
EXTENDS MCText, TLAPS

LEMMA SanitizeType ==
  ASSUME NEW v \in Seq(Char)
  PROVE  /\ Sanitize(v) \in Seq(Char)
         /\ Len(Sanitize(v)) = Len(v)
         /\ DOMAIN Sanitize(v) = 1..Len(v)
         /\ Clean(Sanitize(v))
         /\ \A i \in 1..Len(v) : v[i] \notin Control => Sanitize(v)[i] = v[i]
<1>1. DOMAIN v = 1..Len(v) /\ Len(v) \in Nat
  OBVIOUS
<1>2. \A i \in 1..Len(v) :
        (IF v[i] \in Control THEN Replacement ELSE v[i]) \in Char
  BY ClassAssumption DEF Char
<1>3. Sanitize(v) = [i \in 1..Len(v) |-> IF v[i] \in Control THEN Replacement ELSE v[i]]
  BY <1>1 DEF Sanitize
<1>4. Sanitize(v) \in Seq(Char) /\ DOMAIN Sanitize(v) = 1..Len(v)
  BY <1>1, <1>2, <1>3
<1>5. Len(Sanitize(v)) = Len(v)
  BY <1>1, <1>3
<1>6. QED
  BY <1>3, <1>4, <1>5, ClassAssumption DEF Clean

(* Cleaning changes nothing without a control character, such as what is   *)
(* made of letters, digits and marks.                                      *)
LEMMA CleanIsKept ==
  ASSUME NEW v \in Seq(Char), \A i \in DOMAIN v : v[i] \notin Control
  PROVE  Sanitize(v) = v
BY DEF Sanitize

LEMMA SanitizeKeepsReferences ==
  ASSUME NEW v \in Seq(Char), \A i \in DOMAIN v : v[i] \in Alnum \cup Mark
  PROVE  Sanitize(v) = v
BY ClassAssumption DEF Sanitize

LEMMA ValidCharacters ==
  ASSUME NEW v \in Seq(Char), Verdict(v) = "valid"
  PROVE  /\ \A i \in DOMAIN v : v[i] \in Alnum \cup Mark
         /\ Len(v) \in 1..MaxReferenceLen
         /\ v[1] \in Alnum
<1>1. v # <<>> /\ Len(v) <= MaxReferenceLen /\ v[1] \in Alnum
      /\ ~ \E i \in DOMAIN v : v[i] \notin Alnum \cup Mark
  <2>1. v # <<>>
    BY Zenon DEF Verdict
  <2>2. ~ \A i \in DOMAIN v : v[i] \in Space
    BY <2>1, Zenon DEF Verdict
  <2>3. ~(Len(v) > MaxReferenceLen)
    BY <2>1, <2>2, Zenon DEF Verdict
  <2>4. v[1] \in Alnum
    BY <2>1, <2>2, <2>3, Zenon DEF Verdict
  <2>5. ~ \E i \in DOMAIN v : v[i] \notin Alnum \cup Mark
    BY <2>1, <2>2, <2>3, <2>4, Zenon DEF Verdict
  <2>6. QED
    BY <2>1, <2>3, <2>4, <2>5, LengthAssumption
<1>2. QED
  BY <1>1, LengthAssumption

LEMMA AcceptedReferences ==
  ASSUME NEW v \in Seq(Char)
  PROVE  AcceptedIsPrintable(v)
<1> SUFFICES ASSUME Verdict(v) = "valid"
             PROVE  /\ \A i \in DOMAIN v : v[i] \notin Space \cup Printable
                    /\ Sanitize(v) = v
                    /\ Truncated(v, MaxReferenceLen) = v
  BY DEF AcceptedIsPrintable
<1>1. \A i \in DOMAIN v : v[i] \in Alnum \cup Mark
  BY ValidCharacters
<1>2. Sanitize(v) = v
  BY <1>1, SanitizeKeepsReferences
<1>3. Truncated(v, MaxReferenceLen) = v
  BY <1>2, ValidCharacters DEF Truncated
<1>4. QED
  BY <1>1, <1>2, <1>3, ClassAssumption

LEMMA ShortIdType ==
  ASSUME NEW v \in Seq(Char)
  PROVE  /\ ShortId(v) \in Seq(Char)
         /\ Len(ShortId(v)) <= Len(v)
         /\ v # <<>> => Len(ShortId(v)) > 0
         /\ \A i \in DOMAIN ShortId(v) :
              i \in 1..Len(v) /\ ShortId(v)[i] = Sanitize(v)[i]
BY SanitizeType, LengthAssumption DEF ShortId

LEMMA Cells ==
  ASSUME NEW v \in Seq(Char), NEW max \in Nat
  PROVE  CellIsClean(v, max)
<1> DEFINE s == Sanitize(v)
           keep == IF max = 0 THEN 0 ELSE max - 1
           cell == Truncated(v, max)
<1>1. s \in Seq(Char) /\ Len(s) = Len(v) /\ Clean(s)
  BY SanitizeType
<1>2. Clean(ShortId(v))
  BY <1>1, ShortIdType DEF Clean
<1>3. CASE Len(s) <= max
  <2>1. cell = s
    BY <1>3 DEF Truncated
  <2>2. QED
    BY <1>1, <1>2, <1>3, <2>1 DEF CellIsClean
<1>4. CASE ~(Len(s) <= max)
  <2>1. cell = Append(SubSeq(s, 1, keep), Ellipsis)
    BY <1>4 DEF Truncated
  <2>2. keep \in 0..Len(s) /\ (max > 0 => keep = max - 1)
    BY <1>1, <1>4
  <2>3. /\ SubSeq(s, 1, keep) \in Seq(Char) /\ Len(SubSeq(s, 1, keep)) = keep
        /\ \A i \in 1..keep : SubSeq(s, 1, keep)[i] = s[i]
    BY <1>1, <2>2
  <2>4. /\ Len(cell) = keep + 1 /\ DOMAIN cell = 1..(keep + 1)
        /\ cell[keep + 1] = Ellipsis
        /\ \A i \in 1..keep : cell[i] = s[i]
    BY <2>1, <2>2, <2>3
  <2>5. Clean(cell)
    BY <1>1, <2>2, <2>4, ClassAssumption DEF Clean
  <2>6. max > 0 => Len(cell) <= max
    BY <2>2, <2>4
  <2>7. cell[Len(cell)] = Ellipsis
    BY <2>4
  <2>8. \A i \in DOMAIN cell : i = Len(cell) \/ cell[i] = s[i]
    BY <2>2, <2>4
  <2>9. QED
    BY <1>2, <2>5, <2>6, <2>7, <2>8 DEF CellIsClean
<1>5. QED
  BY <1>3, <1>4

LEMMA ShortIds ==
  ASSUME NEW v \in Seq(Char)
  PROVE  ShortIdIsAReference(v)
<1> SUFFICES ASSUME Verdict(v) = "valid" PROVE Verdict(ShortId(v)) = "valid"
  BY DEF ShortIdIsAReference
<1> DEFINE w == ShortId(v)
<1>1. /\ \A i \in 1..Len(v) : v[i] \in Alnum \cup Mark
      /\ Len(v) \in 1..MaxReferenceLen
      /\ v[1] \in Alnum
      /\ Sanitize(v) = v
  BY ValidCharacters, SanitizeKeepsReferences
<1>2. /\ w \in Seq(Char) /\ Len(w) \in 1..Len(v)
      /\ \A i \in 1..Len(w) : w[i] \in Alnum \cup Mark
      /\ w[1] \in Alnum
  BY <1>1, ShortIdType
<1>3. w # <<>> /\ ~(Len(w) > MaxReferenceLen) /\ DOMAIN w = 1..Len(w)
  BY <1>1, <1>2, LengthAssumption
<1>4. ~ \A i \in DOMAIN w : w[i] \in Space
  BY <1>2, <1>3, ClassAssumption
<1>5. ~ \E i \in DOMAIN w : w[i] \notin Alnum \cup Mark
  BY <1>2, <1>3
<1>6. QED
  BY <1>2, <1>3, <1>4, <1>5, Zenon DEF Verdict

(* For every string, column width, alphabet and bound: a reference that    *)
(* was accepted prints as it is, a cell is clean and fits, and the short   *)
(* identifier of a table can be typed back (reference.rs:40-75,            *)
(* display.rs:20-41, output.rs:137-139).                                   *)
THEOREM TextSafe == Spec => [](AcceptedPrintable /\ CellsClean /\ ShortIdsAccepted)
<1> DEFINE Inv == value \in Seq(Char) /\ width \in Nat
<1>1. Init => Inv
  BY MaxLenAssumption DEF Init
<1>2. Inv /\ [Next]_<<value, width, mappingVars>> => Inv'
  BY DEF Next, Extend, Name
<1>3. Inv => AcceptedPrintable /\ CellsClean /\ ShortIdsAccepted
  BY AcceptedReferences, Cells, ShortIds
     DEF AcceptedPrintable, CellsClean, ShortIdsAccepted
<1>4. QED
  BY <1>1, <1>2, <1>3, PTL DEF Spec

(* An accepted reference prints as it was typed (reference.rs:40-75). *)
COROLLARY ReferencesPrintUnchanged == Spec => []AcceptedPrintable
BY TextSafe, PTL

(* The short identifier of a table can be typed back (output.rs:137-139). *)
COROLLARY ShortIdsAreReferences == Spec => []ShortIdsAccepted
BY TextSafe, PTL

----------------------------------------------------------------------------
(* Mapping: what is shown of a container, for any name that can be typed. *)

LEMMA Prefixes ==
  ASSUME NEW v \in Seq(Char), Verdict(v) = "valid", NEW n \in 1..Len(v)
  PROVE  /\ SubSeq(v, 1, n) \in Seq(Char) /\ Len(SubSeq(v, 1, n)) = n
         /\ \A i \in 1..n : SubSeq(v, 1, n)[i] \in Alnum \cup Mark
         /\ Verdict(SubSeq(v, 1, n)) = "valid"
<1> DEFINE w == SubSeq(v, 1, n)
<1>1. /\ \A i \in 1..Len(v) : v[i] \in Alnum \cup Mark
      /\ Len(v) \in 1..MaxReferenceLen
      /\ v[1] \in Alnum
  BY ValidCharacters
<1>2. /\ w \in Seq(Char) /\ Len(w) = n /\ DOMAIN w = 1..n
      /\ \A i \in 1..n : w[i] = v[i]
  BY <1>1
<1>3. /\ w # <<>> /\ ~(Len(w) > MaxReferenceLen)
      /\ \A i \in 1..n : w[i] \in Alnum \cup Mark
      /\ w[1] \in Alnum
  BY <1>1, <1>2, LengthAssumption
<1>4. ~ \A i \in DOMAIN w : w[i] \in Space
  BY <1>2, <1>3, ClassAssumption
<1>5. ~ \E i \in DOMAIN w : w[i] \notin Alnum \cup Mark
  BY <1>2, <1>3
<1>6. Verdict(w) = "valid"
  BY <1>3, <1>4, <1>5, Zenon DEF Verdict
<1>7. QED
  BY <1>2, <1>3, <1>6

(* The container as the engine may hold it. *)
Born(c) ==
  /\ c \in [id : Identifiers, name : Seq(Char), state : EngineState]
  /\ Verdict(c.name) = "valid"

LEMMA BornNames ==
  ASSUME NEW c, Born(c)
  PROVE  /\ c.name \in Seq(Char) /\ Verdict(c.name) = "valid" /\ c.name # <<>>
         /\ c.id \in Seq(Char) /\ Verdict(c.id) = "valid" /\ Len(c.id) \in Nat \ {0}
<1>1. c.id \in Seq(Char) /\ Verdict(c.id) = "valid"
  BY EngineAssumption DEF Born
<1>2. c.name \in Seq(Char) /\ Verdict(c.name) = "valid"
  BY DEF Born
<1>3. Len(c.id) \in 1..MaxReferenceLen /\ Len(c.name) \in 1..MaxReferenceLen
  BY <1>1, <1>2, ValidCharacters
<1>4. QED
  BY <1>1, <1>2, <1>3, LengthAssumption

(* What ShownDesignates says of one text shown for c. *)
Reaches(text, c) ==
  IF Verdict(text) = "valid"
    THEN text \in {c.name} \cup {SubSeq(c.id, 1, n) : n \in 1..Len(c.id)}
  ELSE \/ text = <<>> \/ text[Len(text)] = Ellipsis
       \/ text = Tail(Alias(c.name))

LEMMA Joined ==
  ASSUME NEW S, NEW a \in Seq(S), NEW n \in Nat, Len(a) = n + 1
  PROVE  /\ a \o a \in Seq(S) /\ Len(a \o a) = 2 * n + 2
         /\ (a \o a)[n + 2] = a[1]
<1> DEFINE b == a \o a
<1>1. b \in Seq(S) /\ Len(b) = Len(a) + Len(a)
  OBVIOUS
<1>2. b[Len(a) + 1] = a[1]
  OBVIOUS
<1> HIDE DEF b
<1>3. Len(a) + 1 = n + 2 /\ Len(a) + Len(a) = 2 * n + 2
  OBVIOUS
<1>4. b \in Seq(S) /\ Len(b) = 2 * n + 2 /\ b[n + 2] = a[1]
  BY <1>1, <1>2, <1>3
<1>5. QED
  BY <1>4 DEF b

LEMMA Tailed ==
  ASSUME NEW S, NEW a \in Seq(S), NEW n \in Nat, Len(a) = 2 * n + 2
  PROVE  /\ Tail(a) \in Seq(S) /\ Len(Tail(a)) = 2 * n + 1
         /\ DOMAIN Tail(a) = 1..(2 * n + 1)
         /\ Tail(a)[n + 1] = a[n + 2]
<1>1. a # <<>>
  OBVIOUS
<1>2. Tail(a) \in Seq(S) /\ Len(Tail(a)) = Len(a) - 1
  BY <1>1
<1>3. Tail(a)[n + 1] = a[(n + 1) + 1]
  BY <1>1, <1>2
<1>4. QED
  BY <1>2, <1>3

LEMMA AliasHasSlash ==
  ASSUME NEW c, Born(c)
  PROVE  /\ Tail(Alias(c.name)) \in Seq(Char)
         /\ Sanitize(Tail(Alias(c.name))) = Tail(Alias(c.name))
         /\ Verdict(Tail(Alias(c.name))) # "valid"
<1> DEFINE S == Alnum \cup Mark \cup {Slash}
           alias == Tail(Alias(c.name))
<1>1. c.name \in Seq(Char) /\ Len(c.name) \in Nat
      /\ \A i \in DOMAIN c.name : c.name[i] \in S
  BY BornNames, ValidCharacters
<1>2. /\ Slash \in Char /\ Slash \notin Alnum \cup Mark
      /\ S \subseteq Char /\ S \cap Control = {}
  BY EngineAssumption, ClassAssumption DEF Char
<1>3. c.name \in Seq(S) /\ <<Slash>> \in Seq(S)
  BY <1>1
<1> HIDE DEF S
<1>4. Api(c.name) \in Seq(S) /\ Len(Api(c.name)) = Len(c.name) + 1
      /\ Api(c.name)[1] = Slash
  BY <1>1, <1>3 DEF Api
<1>5. /\ Alias(c.name) \in Seq(S)
      /\ Len(Alias(c.name)) = 2 * Len(c.name) + 2
      /\ Alias(c.name)[Len(c.name) + 2] = Slash
  BY <1>1, <1>4, Joined DEF Alias
<1>6. /\ alias \in Seq(S) /\ Len(c.name) + 1 \in DOMAIN alias
      /\ alias[Len(c.name) + 1] = Slash
  BY <1>1, <1>5, Tailed
<1> HIDE DEF alias
<1>7. alias \in Seq(Char) /\ \A i \in DOMAIN alias : alias[i] \notin Control
  BY <1>2, <1>6
<1>8. Sanitize(alias) = alias
  BY <1>7, CleanIsKept
<1>9. Verdict(alias) # "valid"
  BY <1>2, <1>6, <1>7, ValidCharacters
<1>10. QED
  BY <1>7, <1>8, <1>9 DEF alias

(* A text that is whole reaches its container, and so does what a column   *)
(* leaves of it.                                                           *)
LEMMA ColumnReaches ==
  ASSUME NEW c, NEW v \in Seq(Char), Sanitize(v) = v, Reaches(v, c)
  PROVE  Reaches(Sanitize(v), c) /\ Reaches(Truncated(v, ColumnMax), c)
<1> DEFINE cell == Truncated(v, ColumnMax)
           keep == IF ColumnMax = 0 THEN 0 ELSE ColumnMax - 1
<1>1. ColumnMax \in Nat /\ Len(v) \in Nat /\ Ellipsis \in Char /\ Ellipsis \notin Alnum \cup Mark
  BY EngineAssumption, ClassAssumption DEF Char
<1>2. CASE Len(v) <= ColumnMax
  BY <1>2 DEF Truncated
<1>3. CASE ~(Len(v) <= ColumnMax)
  <2>1. cell = Append(SubSeq(v, 1, keep), Ellipsis)
    BY <1>3 DEF Truncated
  <2>2. keep \in 0..Len(v)
    BY <1>1, <1>3
  <2>3. SubSeq(v, 1, keep) \in Seq(Char) /\ Len(SubSeq(v, 1, keep)) = keep
    BY <2>2
  <2>4. /\ cell \in Seq(Char) /\ Len(cell) = keep + 1 /\ Len(cell) \in DOMAIN cell
        /\ cell[Len(cell)] = Ellipsis
    BY <1>1, <2>1, <2>2, <2>3
  <2> HIDE DEF cell
  <2>5. Verdict(cell) # "valid"
    BY <1>1, <2>4, ValidCharacters
  <2>6. QED
    BY <2>4, <2>5 DEF Reaches, cell
<1>4. QED
  BY <1>2, <1>3

(* What an answer may give for a name or an identifier. *)
Ids(c) == {c.id, <<>>}
Names(c) == {c.name, Shortened(c.id), <<>>, Tail(Alias(c.name))}

LEMMA EmptyRefused ==
  ASSUME NEW c
  PROVE  /\ <<>> \in Seq(Char) /\ Sanitize(<<>>) = <<>> /\ ShortId(<<>>) = <<>>
         /\ Shortened(<<>>) = <<>> /\ Reaches(<<>>, c)
<1>1. <<>> \in Seq(Char) /\ Sanitize(<<>>) = <<>>
  BY DEF Sanitize
<1>2. ShortId(<<>>) = <<>> /\ Shortened(<<>>) = <<>>
  BY <1>1, LengthAssumption DEF ShortId, Shortened
<1>3. Verdict(<<>>) = "empty"
  BY Zenon DEF Verdict
<1>4. QED
  BY <1>1, <1>2, <1>3 DEF Reaches

LEMMA WholeReaches ==
  ASSUME NEW c, Born(c), NEW v \in Names(c) \cup Ids(c)
  PROVE  v \in Seq(Char) /\ Sanitize(v) = v /\ Reaches(v, c)
<1>1. CASE v = c.name
  <2>1. v \in Seq(Char) /\ Verdict(v) = "valid"
    BY <1>1, BornNames
  <2>2. QED
    BY <1>1, <2>1, ValidCharacters, SanitizeKeepsReferences DEF Reaches
<1>2. ASSUME NEW n \in 1..Len(c.id), v = SubSeq(c.id, 1, n)
      PROVE  v \in Seq(Char) /\ Sanitize(v) = v /\ Reaches(v, c)
  <2>1. v \in Seq(Char) /\ Verdict(v) = "valid"
    BY <1>2, BornNames, Prefixes
  <2>2. Reaches(v, c)
    BY <1>2, <2>1 DEF Reaches
  <2>3. QED
    BY <2>1, <2>2, ValidCharacters, SanitizeKeepsReferences
<1>3. v = c.id => v = SubSeq(c.id, 1, Len(c.id)) /\ Len(c.id) \in 1..Len(c.id)
  BY BornNames
<1>4. v = Shortened(c.id) => \E n \in 1..Len(c.id) : v = SubSeq(c.id, 1, n)
  BY BornNames, LengthAssumption DEF Shortened
<1>5. CASE v = <<>>
  BY <1>5, EmptyRefused
<1>6. CASE v = Tail(Alias(c.name))
  BY <1>6, AliasHasSlash DEF Reaches
<1>7. QED
  BY <1>1, <1>2, <1>3, <1>4, <1>5, <1>6 DEF Names, Ids

LEMMA ShortIdReaches ==
  ASSUME NEW c, Born(c), NEW v \in Ids(c)
  PROVE  Reaches(ShortId(v), c)
<1>1. CASE v = <<>>
  BY <1>1, EmptyRefused
<1>2. CASE v = c.id
  <2>1. Sanitize(v) = v
    BY WholeReaches
  <2>2. ShortId(v) = Shortened(c.id)
    BY <1>2, <2>1 DEF ShortId, Shortened
  <2>3. QED
    BY <2>2, WholeReaches DEF Names
<1>3. QED
  BY <1>1, <1>2 DEF Ids

(* Every name an answer can give. *)
LEMMA GivenNames ==
  ASSUME NEW c, Born(c), NEW id \in Ids(c)
  PROVE  /\ Shortened(id) \in Names(c)
         /\ NormalizeName(Api(c.name)) \in Names(c)
         /\ NormalizeName(Alias(c.name)) \in Names(c)
<1>1. c.name \in Seq(Char) /\ Slash \in Char
  BY BornNames, EngineAssumption DEF Char
<1>2. NormalizeName(Api(c.name)) = c.name
  BY <1>1 DEF Api, NormalizeName
<1>3. NormalizeName(Alias(c.name)) = Tail(Alias(c.name))
  BY <1>1 DEF Alias, Api, NormalizeName
<1>4. Shortened(id) \in {Shortened(c.id), <<>>}
  BY EmptyRefused DEF Ids
<1>5. QED
  BY <1>2, <1>3, <1>4 DEF Names

(* What a view may say, without the invariance of the container. *)
Shown(view, c) ==
  /\ view.id \in Ids(c) /\ view.name \in Names(c)
  /\ IsRunning(view.state) => c.state = "running"
  /\ view.state.variant # "Other" => view.state.word = c.state

Detailed(view, c, untold) ==
  /\ Shown(view, c)
  /\ view.status = "Up since" => c.state \in Lively
  /\ view.status = "Exited" => untold \/ c.state \notin Lively

LEMMA States ==
  ASSUME NEW c, Born(c), NEW word \in Optional(c.state)
  PROVE  /\ IsRunning(FromEngine(word)) => c.state = "running"
         /\ FromEngine(word).variant # "Other" => FromEngine(word).word = c.state
BY DEF Optional, FromEngine, IsRunning, KnownState

LEMMA Given ==
  ASSUME Born(container), NEW id \in Optional(container.id), NEW answer, answer.id = id
  PROVE  Id(answer) \in Ids(container)
BY DEF Id, Ids, Optional

LEMMA Rows ==
  ASSUME Born(container), NEW answer \in ListAnswers
  PROVE  Shown(ToSummary(answer), container)
<1> DEFINE name == DisplayName(answer.names, Id(answer))
<1>1. answer.id \in Optional(container.id) /\ answer.state \in Optional(container.state)
  BY DEF ListAnswers
<1>2. answer.names \in {<<>>, Missing, <<Api(container.name)>>,
                        <<Alias(container.name), Api(container.name)>>}
  BY DEF ListAnswers, Optional
<1>3. name = Shortened(Id(answer)) \/ name = NormalizeName(Api(container.name))
        \/ name = NormalizeName(Alias(container.name))
  <2>1. CASE answer.names = Missing \/ answer.names = <<>>
    BY <1>1, <2>1 DEF DisplayName, NameOrId
  <2>2. CASE answer.names # Missing /\ answer.names # <<>>
    <3>1. answer.names[1] \in {Api(container.name), Alias(container.name)}
      BY <1>2, <2>2
    <3>2. QED
      BY <1>1, <2>2, <3>1, Zenon DEF DisplayName, NameOrId
  <2>3. QED
    BY <2>1, <2>2
<1>4. Id(answer) \in Ids(container)
  BY <1>1, Given
<1>5. name \in Names(container)
  BY <1>3, <1>4, GivenNames
<1>6. QED
  BY <1>1, <1>4, <1>5, States DEF Shown, ToSummary

Untold(answer) == answer.state # Missing /\ answer.state.running = Missing

LEMMA Panels ==
  ASSUME Born(container), NEW answer \in InspectAnswers
  PROVE  Detailed(ToDetails(answer), container, Untold(answer))
<1> DEFINE word == IF answer.state = Missing THEN Missing ELSE answer.state.status
           status == IF answer.state = Missing THEN Missing ELSE HumanStatus(answer.state)
           name == NameOrId(answer.name, Id(answer))
<1>1. answer.id \in Optional(container.id) /\ answer.name \in {Api(container.name), Missing}
  BY DEF InspectAnswers, Optional
<1>2. answer.state # Missing =>
        /\ answer.state.status \in Optional(container.state)
        /\ answer.state.running \in {container.state \in Lively, Missing}
  BY DEF InspectAnswers, Optional
<1>3. Id(answer) \in Ids(container)
  BY <1>1, Given
<1>4. name = Shortened(Id(answer)) \/ name = NormalizeName(Api(container.name))
  BY <1>1, Zenon DEF NameOrId
<1>5. name \in Names(container)
  BY <1>3, <1>4, GivenNames
<1>6. word \in Optional(container.state)
  BY <1>2 DEF Optional
<1>7. Shown(ToDetails(answer), container)
  BY <1>3, <1>5, <1>6, States DEF Shown, ToDetails
<1>8. /\ Missing \notin {"Up since", "Exited"} /\ Missing \notin BOOLEAN
      /\ container.state \notin {"Up since", "Exited"}
  BY MissingAssumption, EngineAssumption DEF Born, EngineState, KnownState
<1>9. /\ status = "Up since" => container.state \in Lively
      /\ status = "Exited" => Untold(answer) \/ container.state \notin Lively
  <2>1. CASE answer.state = Missing
    BY <1>8, <2>1
  <2>2. CASE answer.state # Missing
    <3>1. /\ status = "Up since" => answer.state.running = TRUE
          /\ status = "Exited" => answer.state.running # TRUE
      BY <1>2, <1>8, <2>2 DEF HumanStatus, Optional
    <3>2. answer.state.running = TRUE => container.state \in Lively
      BY <1>2, <1>8, <2>2
    <3>3. answer.state.running # TRUE => Untold(answer) \/ container.state \notin Lively
      BY <1>2, <2>2 DEF Untold
    <3>4. QED
      BY <3>1, <3>2, <3>3
  <2>3. QED
    BY <2>1, <2>2
<1>10. QED
  BY <1>7, <1>9 DEF Detailed, ToDetails

MappingInv ==
  /\ value \in Seq(Char)
  /\ container # Missing => Born(container)
  /\ row # Missing => container # Missing /\ Shown(row, container)
  /\ panel # Missing => container # Missing /\ Detailed(panel, container, silent)

LEMMA TextsReach == MappingInv => ShownDesignates
<1> SUFFICES ASSUME MappingInv, NEW text \in RowTexts \cup PanelTexts
             PROVE  Reaches(text, container)
  BY DEF ShownDesignates, Designations, Reaches
<1>1. CASE text \in RowTexts
  <2>1. row # Missing /\ text \in {ShortId(row.id), Truncated(row.name, ColumnMax)}
    BY <1>1 DEF RowTexts
  <2>2. Born(container) /\ row.id \in Ids(container) /\ row.name \in Names(container)
    BY <2>1 DEF MappingInv, Shown
  <2>3. Reaches(ShortId(row.id), container)
    BY <2>2, ShortIdReaches
  <2>4. Reaches(Truncated(row.name, ColumnMax), container)
    BY <2>2, WholeReaches, ColumnReaches
  <2>5. QED
    BY <2>1, <2>3, <2>4
<1>2. CASE text \in PanelTexts
  <2>1. panel # Missing /\ text \in {Sanitize(panel.id), Sanitize(panel.name)}
    BY <1>2 DEF PanelTexts
  <2>2. Born(container) /\ panel.id \in Ids(container) /\ panel.name \in Names(container)
    BY <2>1 DEF MappingInv, Detailed, Shown
  <2>3. text \in Names(container) \cup Ids(container)
    BY <2>1, <2>2, WholeReaches
  <2>4. QED
    BY <2>2, <2>3, WholeReaches
<1>3. QED
  BY <1>1, <1>2

(* For every container whose name ContainerRef accepts, every answer of    *)
(* the engine about it, whatever fields are missing, and every width of    *)
(* the column of names: a name or an identifier shown designates the       *)
(* container or is refused, for one of three stated reasons; and no state  *)
(* is claimed that the engine did not give (mapping.rs:20-115,             *)
(* output.rs:69, ui.rs:186).                                               *)
THEOREM MappingSafe == Spec => [](ShownDesignates /\ StateNotInvented)
<1>1. Init => MappingInv
  BY DEF Init, MappingInit, MappingInv
<1>2. MappingInv /\ [Next]_<<value, width, mappingVars>> => MappingInv'
  <2> SUFFICES ASSUME MappingInv, [Next]_<<value, width, mappingVars>>
               PROVE  MappingInv'
    OBVIOUS
  <2>1. CASE Extend
    BY <2>1 DEF Extend, MappingInv, mappingVars
  <2>2. CASE Name
    <3>1. row = Missing /\ panel = Missing /\ UNCHANGED <<value, row, panel, silent>>
      BY <2>2 DEF Name, Create, MappingInv
    <3>2. Born(container')
      BY <2>2 DEF Name, Create, MappingInv, Born, EngineState, KnownState
    <3>3. QED
      BY <3>1, <3>2 DEF MappingInv
  <2>3. CASE Change /\ UNCHANGED <<value, width>>
    <3>1. Born(container')
      BY <2>3 DEF Change, MappingInv, Born
    <3>2. QED
      BY <2>3, <3>1 DEF Change, MappingInv
  <2>4. CASE List /\ UNCHANGED <<value, width>>
    <3>1. Born(container) /\ container' = container /\ Shown(row', container)
      BY <2>4, Rows DEF List, MappingInv
    <3>2. QED
      BY <2>4, <3>1 DEF List, MappingInv
  <2>5. CASE Inspect /\ UNCHANGED <<value, width>>
    <3>1. Born(container) /\ container' = container /\ Detailed(panel', container, silent')
      BY <2>5, Panels DEF Inspect, MappingInv, Untold
    <3>2. QED
      BY <2>5, <3>1 DEF Inspect, MappingInv
  <2>6. CASE UNCHANGED <<value, width, mappingVars>>
    BY <2>6 DEF MappingInv, mappingVars
  <2>7. QED
    BY <2>1, <2>2, <2>3, <2>4, <2>5, <2>6 DEF Next, MappingNext
<1>3. MappingInv => ShownDesignates /\ StateNotInvented
  <2>1. MappingInv => StateNotInvented
    BY DEF MappingInv, StateNotInvented, Views, Shown, Detailed
  <2>2. QED
    BY <2>1, TextsReach
<1>4. QED
  BY <1>1, <1>2, <1>3, PTL DEF Spec

(* The state shown is one the engine gave (mapping.rs:20-115). *)
COROLLARY StatesAreTold == Spec => []StateNotInvented
BY MappingSafe, PTL
=============================================================================
