------------------------------ MODULE Mapping ------------------------------
(***************************************************************************)
(* What Hormos keeps of the engine's answers                               *)
(* (crates/hormos-docker/src/mapping.rs), followed for one container that  *)
(* is listed and inspected at different moments of its life, and what the  *)
(* tables and the detail show of it.  Every field of an answer may be      *)
(* absent.  Kept: the identifier, the names, the state and what the detail *)
(* says of it; image, dates, host name and counters are copied and carry   *)
(* no decision.                                                            *)
(*                                                                         *)
(* A state is the word the engine sends.  Bollard decodes it into an       *)
(* enumeration of trimmed, lower-case words ("" among them), so from_engine *)
(* finds nothing to trim or to lower.                                      *)
(***************************************************************************)
EXTENDS Text

CONSTANTS
  Slash, Missing,   \* "/"; Rust's None
  Identifiers,      \* bound: the identifiers of the container
  ColumnMax         \* the width of a column of names

ASSUME EngineAssumption ==
  /\ Slash \in Printable
  /\ Missing \notin Seq(Char) /\ Missing \notin BOOLEAN
  /\ ColumnMax \in Nat
  /\ \A id \in Identifiers : id \in Seq(Char) /\ Verdict(id) = "valid"

VARIABLES
  container,  \* the container in the engine, or Missing
  row,        \* what the list says of it since it last changed, or Missing
  panel,      \* what the detail says of it since it last changed, or Missing
  silent      \* history: that detail came without saying whether it runs

mappingVars == <<container, row, panel, silent>>

(* The states Docker documents, and the empty word. *)
KnownState ==
  {"created", "restarting", "running", "removing", "paused", "exited", "dead"}
Lively == {"running", "paused", "restarting"}
EngineState == KnownState \cup {""}

ASSUME MissingAssumption == Missing \notin EngineState \cup {"Up since", "Exited"}

----------------------------------------------------------------------------
(* Faulty variant: the name is kept as the API returns it. *)
NormalizeNameVerbatim(raw) == raw

(* normalize_name *)
NormalizeName(raw) == IF raw # <<>> /\ raw[1] = Slash THEN Tail(raw) ELSE raw

(* short_id of the adapter: no cleaning. *)
Shortened(id) == SubSeq(id, 1, IF Len(id) < ShortIdLen THEN Len(id) ELSE ShortIdLen)

NameOrId(raw, id) ==
  IF raw = Missing \/ NormalizeName(raw) = <<>> THEN Shortened(id)
  ELSE NormalizeName(raw)

(* display_name: the first of the names. *)
DisplayName(names, id) ==
  NameOrId(IF names = Missing \/ names = <<>> THEN Missing ELSE names[1], id)

(* ContainerState::from_engine, as_str and is_running. *)
FromEngine(word) ==
  IF word = Missing THEN [variant |-> "Other", word |-> "<inconnu>"]
  ELSE IF word \in KnownState THEN [variant |-> word, word |-> word]
  ELSE [variant |-> "Other", word |-> word]
IsRunning(state) == state.variant = "running"

(* Faulty variant: whatever was started is up. *)
HumanStatusStarted(state) ==
  IF state.startedAt # Missing THEN "Up since"
  ELSE IF state.exitCode # Missing THEN "Exited"
  ELSE state.status

(* human_status; its first word. *)
HumanStatus(state) ==
  IF state.running = TRUE
    THEN IF state.startedAt # Missing THEN "Up since" ELSE Missing
  ELSE IF state.exitCode # Missing THEN "Exited"
  ELSE state.status

(* unwrap_or_default *)
Id(answer) == IF answer.id = Missing THEN <<>> ELSE answer.id

(* to_summary *)
ToSummary(answer) ==
  [id |-> Id(answer), name |-> DisplayName(answer.names, Id(answer)),
   state |-> FromEngine(answer.state)]

(* to_details *)
ToDetails(answer) ==
  [id |-> Id(answer), name |-> NameOrId(answer.name, Id(answer)),
   state |-> FromEngine(IF answer.state = Missing THEN Missing ELSE answer.state.status),
   status |-> IF answer.state = Missing THEN Missing ELSE HumanStatus(answer.state)]

(* render_list and row; render_details: the texts that stand for the       *)
(* container, which their reader may type back.                            *)
RowTexts ==
  IF row = Missing THEN {} ELSE {ShortId(row.id), Truncated(row.name, ColumnMax)}
PanelTexts ==
  IF panel = Missing THEN {} ELSE {Sanitize(panel.id), Sanitize(panel.name)}

----------------------------------------------------------------------------
(* The engine, external.  Its API puts "/" before a name, and may put      *)
(* first, for a linked container, an alias below the name of another.      *)
Api(name) == <<Slash>> \o name
Alias(name) == Api(name) \o Api(name)

Optional(field) == {field, Missing}

ListAnswers ==
  [id : Optional(container.id), state : Optional(container.state),
   names : Optional(<<>>) \cup
             {<<Api(container.name)>>, <<Alias(container.name), Api(container.name)>>}]

(* Docker sends a date for what never started too, and an exit code. *)
InspectAnswers ==
  [id : Optional(container.id), name : Optional(Api(container.name)),
   state : Optional(Missing) \cup
     [status : Optional(container.state), running : Optional(container.state \in Lively),
      startedAt : Optional("date"), exitCode : Optional("code")]]

MappingInit ==
  container = Missing /\ row = Missing /\ panel = Missing /\ silent = FALSE

Create(name) ==
  /\ container = Missing
  /\ \E id \in Identifiers :
       container' = [id |-> id, name |-> name, state |-> "created"]
  /\ UNCHANGED <<row, panel, silent>>

Change ==
  /\ container # Missing
  /\ \E state \in EngineState \ {container.state} :
       container' = [container EXCEPT !.state = state]
  /\ row' = Missing /\ panel' = Missing /\ silent' = FALSE

(* list_containers, inspect_container *)
List ==
  /\ container # Missing
  /\ \E answer \in ListAnswers : row' = ToSummary(answer)
  /\ UNCHANGED <<container, panel, silent>>

Inspect ==
  /\ container # Missing
  /\ \E answer \in InspectAnswers :
       /\ panel' = ToDetails(answer)
       /\ silent' = (answer.state # Missing /\ answer.state.running = Missing)
  /\ UNCHANGED <<container, row>>

MappingNext == Change \/ List \/ Inspect

----------------------------------------------------------------------------
(* What the engine finds the container by. *)
Designations ==
  {container.name} \cup {SubSeq(container.id, 1, n) : n \in 1..Len(container.id)}

(* A name or an identifier that Hormos shows, typed back, reaches the      *)
(* container it was shown for or is refused by ContainerRef, whatever      *)
(* fields are missing; and it is refused only if there was nothing to show *)
(* (an absent identifier and no name), if it was cut to its column and     *)
(* ends with the ellipsis, or if it is the alias of a linked container     *)
(* (mapping.rs:20-50, 69-75, output.rs:69, ui.rs:186).                     *)
ShownDesignates ==
  \A text \in RowTexts \cup PanelTexts :
    IF Verdict(text) = "valid" THEN text \in Designations
    ELSE \/ text = <<>> \/ text[Len(text)] = Ellipsis
         \/ text = Tail(Alias(container.name))

Views == {view \in {row, panel} : view # Missing}

(* Hormos does not claim to know a state it was not told: a container is   *)
(* shown as running, which `s` takes for "stop", only if it is; a state it *)
(* names is the one the engine gave, so that the list and the detail never *)
(* contradict each other; the detail says "Up since" only of a container   *)
(* that is up, and "Exited" only of one that is not, unless the engine did *)
(* not say (domain.rs:33-37, mapping.rs:51-54, 77-84, 103-115).  It does   *)
(* say "Exited (0)" of one never started: Docker sends it an exit code.    *)
StateNotInvented ==
  /\ \A view \in Views :
       /\ IsRunning(view.state) => container.state = "running"
       /\ view.state.variant # "Other" => view.state.word = container.state
  /\ panel # Missing =>
       /\ panel.status = "Up since" => container.state \in Lively
       /\ panel.status = "Exited" => silent \/ container.state \notin Lively
=============================================================================
