--------------------------- MODULE GraphLoading ----------------------------
(***************************************************************************)
(* graph_from_json and GraphDef.validate of graph/model.py: a document's   *)
(* nodes and edges are read one by one, every check is collected, and a    *)
(* worklist finds the nodes the entry reaches.  Rows are what the checks   *)
(* look at.  Priorities only decide in which order `outgoing` lists the    *)
(* edges of a node; any order is possible here.                            *)
(***************************************************************************)
EXTENDS Naturals, Sequences, FiniteSets, SequencesExt

CONSTANTS
  Names,       \* ids a document may mention
  Entries,     \* ids it may name as entry
  RawNodes,    \* node rows: id, legal type, whether a handler is needed and given
  RawEdges,    \* edge rows: source and target
  MaxEdges     \* bound: edges of a document

VARIABLES
  entry,      \* GraphDef.entry
  nodes,      \* GraphDef.nodes: the rows read
  edges,      \* GraphDef.edges
  seen,       \* reachable_nodes' visited ids
  frontier,   \* reachable_nodes' worklist
  problems,   \* validate's list, as a set of kinds
  pc

vars == <<entry, nodes, edges, seen, frontier, problems, pc>>

Problems ==
  {"duplicate", "malformed", "empty id", "no nodes", "entry missing", "unknown source",
   "unknown target", "self-loop", "illegal type", "handler missing", "unreachable"}

TypeOK ==
  /\ entry \in Entries /\ nodes \subseteq RawNodes
  /\ \A m, n \in nodes : m.id = n.id => m = n
  /\ edges \subseteq RawEdges /\ IsFiniteSet(edges) /\ Cardinality(edges) <= MaxEdges
  /\ seen \subseteq Names /\ frontier \in Seq(Names)
  /\ problems \subseteq Problems
  /\ pc \in {"nodes", "edges", "walk", "accepted", "rejected"}

Init ==
  /\ entry \in Entries /\ nodes = {} /\ edges = {}
  /\ seen = {} /\ frontier = <<>> /\ problems = {}
  /\ pc = "nodes"

Ids == {raw.id : raw \in nodes}

Reject(kind) == pc' = "rejected" /\ problems' = {kind}

Duplicate(raw) == raw.id \in Ids

ReadNode(raw) ==
  /\ pc = "nodes"
  /\ IF Duplicate(raw)
       THEN Reject("duplicate") /\ UNCHANGED nodes
       ELSE nodes' = nodes \cup {raw} /\ UNCHANGED <<problems, pc>>
  /\ UNCHANGED <<entry, edges, seen, frontier>>

EndNodes ==
  /\ pc = "nodes"
  /\ pc' = "edges"
  /\ UNCHANGED <<entry, nodes, edges, seen, frontier, problems>>

ReadEdge(raw) ==
  /\ pc = "edges" /\ Cardinality(edges \cup {raw}) <= MaxEdges
  /\ edges' = edges \cup {raw}
  /\ UNCHANGED <<entry, nodes, seen, frontier, problems, pc>>

\* A row without its id, or without source or target, ends the load.
ReadMalformed ==
  /\ pc \in {"nodes", "edges"}
  /\ Reject("malformed")
  /\ UNCHANGED <<entry, nodes, edges, seen, frontier>>

(***************************************************************************)
(* validate: the checks that need no walk.                                 *)
(***************************************************************************)
NodeProblems ==
  {p \in Problems :
     \/ p = "empty id" /\ "" \in Ids
     \/ p = "no nodes" /\ nodes = {}
     \/ p = "entry missing" /\ entry \notin Ids
     \/ p = "illegal type" /\ \E n \in nodes : ~n.legal
     \/ p = "handler missing" /\ \E n \in nodes : n.needsHandler /\ ~n.handler}

\* Variant: targets are taken for granted.
EdgeProblemsSourceOnly ==
  {p \in Problems : \E e \in edges :
     \/ p = "unknown source" /\ e.source \notin Ids
     \/ p = "self-loop" /\ e.source = e.target}

EdgeProblems ==
  {p \in Problems : \E e \in edges :
     \/ p = "unknown source" /\ e.source \notin Ids
     \/ p = "unknown target" /\ e.target \notin Ids
     \/ p = "self-loop" /\ e.source = e.target}

StartWalk ==
  /\ pc = "edges"
  /\ problems' = NodeProblems \cup EdgeProblems
  /\ frontier' = <<entry>>
  /\ pc' = "walk"
  /\ UNCHANGED <<entry, nodes, edges, seen>>

(***************************************************************************)
(* reachable_nodes.                                                        *)
(***************************************************************************)
\* Variant: a visited node is not remembered.
MarkedForgets(n) == seen

Marked(n) == seen \cup {n}
ToPush(n) == {e.target : e \in {f \in edges : f.source = n}} \ Marked(n)

Visit ==
  /\ pc = "walk" /\ frontier # <<>>
  /\ LET current == Last(frontier) IN
       IF current \in seen
         THEN frontier' = Front(frontier) /\ UNCHANGED seen
         ELSE /\ seen' = Marked(current)
              /\ \E pushed \in SetToSeqs(ToPush(current)) :
                   frontier' = Front(frontier) \o pushed
  /\ UNCHANGED <<entry, nodes, edges, problems, pc>>

Unreachable == Ids \ seen

Conclude ==
  /\ pc = "walk" /\ frontier = <<>>
  /\ problems' = problems \cup (IF Unreachable # {} THEN {"unreachable"} ELSE {})
  /\ pc' = IF problems' = {} THEN "accepted" ELSE "rejected"
  /\ UNCHANGED <<entry, nodes, edges, seen, frontier>>

Next ==
  \/ \E raw \in RawNodes : ReadNode(raw)
  \/ EndNodes
  \/ \E raw \in RawEdges : ReadEdge(raw)
  \/ ReadMalformed
  \/ StartWalk
  \/ Visit
  \/ Conclude

(***************************************************************************)
(* Properties.                                                             *)
(***************************************************************************)
Leads == {<<e.source, e.target>> : e \in edges}

\* The ids every set holds that contains the entry and follows the edges.
Reachable ==
  {n \in Names : \A S \in SUBSET Names :
     entry \in S /\ (\A e \in Leads : e[1] \in S => e[2] \in S) => n \in S}

WellFormed ==
  /\ entry \in Ids /\ "" \notin Ids
  /\ \A n \in nodes : n.legal /\ (n.needsHandler => n.handler)
  /\ \A e \in Leads : e[1] \in Ids /\ e[2] \in Ids /\ e[1] # e[2]
  /\ Ids \subseteq Reachable

(* A graph is accepted exactly when it is well formed, reachability being  *)
(* what the edges say and not what the worklist found: validate overlooks  *)
(* nothing and rejects no document without one of its reasons.             *)
VerdictIsExact ==
  /\ pc = "accepted" => WellFormed
  /\ pc = "rejected" /\ problems \cap {"duplicate", "malformed"} = {} => ~WellFormed

(* The walk of reachable_nodes leaves the entry's part of the graph never, *)
(* and forgets no edge: what a visited node leads to has been visited or   *)
(* is still on the worklist.                                               *)
WalkForgetsNothing ==
  pc = "walk" =>
    /\ seen \cup ToSet(frontier) \subseteq Reachable
    /\ entry \in seen \cup ToSet(frontier)
    /\ \A e \in Leads : e[1] \in seen => e[2] \in seen \cup ToSet(frontier)

\* The checks that need no walk are made once, on the whole document.
ProblemsSoFar ==
  /\ pc \in {"nodes", "edges"} => problems = {} /\ seen = {}
  /\ pc = "walk" => problems = NodeProblems \cup EdgeProblems

(* What holds at every step of loading.                                    *)
LoadingInv == TypeOK /\ ProblemsSoFar /\ WalkForgetsNothing

(* docs/graph-model.md, NodeDef: `requires` holds "node ids that must be   *)
(* SUCCEEDED before this node runs".                                       *)
RequiresAreNodes == pc = "accepted" => \A n \in nodes : n.requires \subseteq Ids

=============================================================================
