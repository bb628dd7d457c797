----------------------------- MODULE MCStartup -----------------------------
(***************************************************************************)
(* Three migrations of two statements each, the first ships at once;       *)
(* graphs over three ids, the empty id and an id no node has; and          *)
(* configurations that say something of a section here and there.          *)
(***************************************************************************)
EXTENDS Startup, TLC

MCStatements == [v \in Versions |-> 2]

MCNames == {"n1", "n2", "n3", "ghost", ""}

WellBuilt(id) ==
  [id |-> id, legal |-> TRUE, needsHandler |-> TRUE, handler |-> TRUE, requires |-> {}]

MCRawNodes ==
  {WellBuilt("n1"), WellBuilt("n2"), WellBuilt("n3"), WellBuilt(""),
   [WellBuilt("n1") EXCEPT !.legal = FALSE],
   [WellBuilt("n2") EXCEPT !.handler = FALSE],
   [WellBuilt("n2") EXCEPT !.needsHandler = FALSE, !.handler = FALSE, !.requires = {"ghost"}]}

MCRawEdges ==
  {[source |-> e[1], target |-> e[2]] : e \in
     {<<"n1", "n2">>, <<"n1", "n3">>, <<"n2", "n1">>, <<"n2", "n2">>, <<"n2", "n3">>,
      <<"n3", "n1">>, <<"n3", "n2">>, <<"n1", "ghost">>, <<"ghost", "n2">>}}

MCSectionOf ==
  "max_node_attempts" :> "limits" @@ "max_retries" :> "limits"
    @@ "timeout_seconds" :> "opencode" @@ "patterns" :> "redaction"
    @@ "active_assessment" :> "top"
MCSettings == DOMAIN MCSectionOf

NoFile == <<>>
LimitsFiles ==
  {"limits" :> Null}
    \cup {"limits" :> ("max_node_attempts" :> v) : v \in Values}
    \cup {"limits" :> ("max_node_attempts" :> v @@ "max_retries" :> "better") : v \in Values}
    \cup {"limits" :> (Stranger :> "good" @@ "max_retries" :> "good")}
OtherFiles ==
  {NoFile, "redaction" :> ("patterns" :> "better"), "redaction" :> ("patterns" :> Invalid),
   "redaction" :> (Stranger :> "good") @@ "opencode" :> ("timeout_seconds" :> "better")}
MCFiles == OtherFiles \cup {l @@ o : l \in LimitsFiles, o \in OtherFiles}

NoVariable == [k \in MCSettings |-> Unset]
MCEnvironments ==
  {NoVariable, [NoVariable EXCEPT !["active_assessment"] = "good"]}
    \cup {[NoVariable EXCEPT !["max_node_attempts"] = v] : v \in Values}
    \cup {[NoVariable EXCEPT !["max_retries"] = v, !["timeout_seconds"] = w] :
            v \in {"good", Text}, w \in {"good", Invalid}}
    \cup {[NoVariable EXCEPT !["patterns"] = "good"]}

MCOverrides ==
  {<<>>, "max_node_attempts" :> "better", "timeout_seconds" :> Invalid,
   "active_assessment" :> "better", Stranger :> "good"}

MCShipped ==
  {<<NoFile, NoVariable, overrides>> : overrides \in {<<>>, "active_assessment" :> "better"}}
    \cup {<<NoFile, [NoVariable EXCEPT !["active_assessment"] = "good"], <<>>>>}

=============================================================================
