--------------------------- MODULE Configuration ---------------------------
(***************************************************************************)
(* load_config of config.py: config/default.yaml, the SASSESSMENT_*        *)
(* variables and the explicit overrides are merged section by section,     *)
(* made into the settings of a command and validated.  Of a value only     *)
(* what the checks tell apart is kept: Invalid is of the right type and    *)
(* refused by _validate, Text is no number.                                *)
(***************************************************************************)
EXTENDS Naturals, FiniteSets, Functions

CONSTANTS
  Settings,      \* the settings looked at
  SectionOf,     \* setting -> its section; the sections of settings at the top are "top"
  Numeric,       \* settings whose value is compared with a number
  Variables,     \* settings that _ENV_MAP names
  Overridable    \* settings an explicit override may name

Default == "default"   \* the value of the dataclass
Good == {"good", "better"}
Invalid == "invalid"
Text == "text"
Values == Good \cup {Invalid, Text}
Unset == ""            \* a variable that is not set, or set to nothing
Stranger == "stranger" \* a key that no dataclass has
Null == [nothing |-> "null"]   \* a section with nothing under it

Sections == {SectionOf[k] : k \in Settings}

ASSUME ConfigurationAssumption ==
  /\ Numeric \subseteq Settings /\ Variables \subseteq Settings
  /\ Overridable \subseteq Settings
  /\ {Stranger, "nothing"} \cap Settings = {}
  /\ "top" \in Sections

(***************************************************************************)
(* The documents: section -> key -> value.                                 *)
(***************************************************************************)
Mapping(doc, s) == s \in DOMAIN doc /\ doc[s] # Null

\* _set_by_dotted_key, for each of some settings.
Nested(flat) ==
  [s \in {SectionOf[k] : k \in DOMAIN flat} |->
     [k \in {j \in DOMAIN flat : SectionOf[j] = s} |-> flat[k]]]

Over(later, base) ==
  [k \in DOMAIN later \cup DOMAIN base |-> IF k \in DOMAIN later THEN later[k] ELSE base[k]]

\* Variant: a section of the later document replaces the earlier one whole.
MergedShallow(base, later) == Over(later, base)

\* _deep_merge: what is no mapping is replaced.
Merged(base, later) ==
  [s \in DOMAIN base \cup DOMAIN later |->
     IF s \notin DOMAIN later THEN base[s]
     ELSE IF Mapping(base, s) THEN Over(later[s], base[s]) ELSE later[s]]

SetVariables(env) == {k \in Variables : env[k] # Unset}
EnvDocument(env) == Nested(Restrict(env, SetVariables(env)))

OverridesDocument(overrides) ==
  Nested(Restrict(overrides, DOMAIN overrides \cap Overridable))

Document(file, env, overrides) ==
  Merged(Merged(file, EnvDocument(env)), OverridesDocument(overrides))

(***************************************************************************)
(* The outcome.  _coerce and _overrides_document refuse with a ConfigError *)
(* before anything is merged; a section that is no mapping, a key that is  *)
(* no field and a comparison with a text end in an error of Python's.      *)
(***************************************************************************)
RefusedEarly(env, overrides) ==
  \/ \E k \in SetVariables(env) \cap Numeric : env[k] = Text
  \/ ~(DOMAIN overrides \subseteq Overridable)

ValueIn(doc, k) ==
  IF Mapping(doc, SectionOf[k]) /\ k \in DOMAIN doc[SectionOf[k]]
    THEN doc[SectionOf[k]][k] ELSE Default

\* Keys at the top and under redaction are looked up; the other sections are
\* handed to a dataclass.
Raises(doc) ==
  \/ \E s \in DOMAIN doc : doc[s] = Null
  \/ \E s \in DOMAIN doc \ {"top", "redaction"} : Mapping(doc, s) /\ Stranger \in DOMAIN doc[s]
  \/ \E k \in Numeric : ValueIn(doc, k) = Text

\* _validate; what is at the top is taken as it is.
Problems(doc) == {k \in Settings : SectionOf[k] # "top" /\ ValueIn(doc, k) = Invalid}

Outcome(file, env, overrides) ==
  LET doc == Document(file, env, overrides)
  IN IF RefusedEarly(env, overrides) THEN "refused"
     ELSE IF Raises(doc) THEN "raised"
     ELSE IF Problems(doc) # {} THEN "refused" ELSE "loaded"

LoadConfig(file, env, overrides) ==
  [outcome |-> Outcome(file, env, overrides),
   values |-> [k \in Settings |-> ValueIn(Document(file, env, overrides), k)]]

=============================================================================
