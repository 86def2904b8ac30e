------------------------------ MODULE RiskGraph ------------------------------
(***************************************************************************)
(* RiskGraphService of riskgraph.py: entities and edges that requests only *)
(* ever add, and investigate, which reads the entities and the edges by    *)
(* two statements with other requests' commits between them, then looks    *)
(* for shared accounts and cycles of three.  One tenant; an entity_id is   *)
(* its rank in the order of strings, an edge's amount and date are left    *)
(* out.                                                                    *)
(***************************************************************************)
EXTENDS Integers

CONSTANTS
    Entity,     \* ranks of entity_id values
    Caller,     \* requests that investigate
    EdgeBatch,  \* the lists of edges that requests add
    Nothing     \* nothing read, nothing reported

Edge == [source : Entity, target : Entity, relation : {"OWNS_ACCOUNT", "OTHER"}]

ASSUME GraphAssumption == EdgeBatch \subseteq SUBSET Edge

Triple == Entity \X Entity \X Entity

VARIABLES
    entities,   \* graph_entities
    edges,      \* graph_edges
    seen,       \* the entities each investigation has read
    report      \* what each investigation has found

graphVars == <<entities, edges, seen, report>>

----------------------------------------------------------------------------
(* investigate's search.                                                   *)

\* Edges with an end that is no known entity are passed over.
Known(ents, es) == {e \in es : e.source \in ents /\ e.target \in ents}

Adjacency(ents, es) == {<<e.source, e.target>> : e \in Known(ents, es)}

Owners(ents, es, account) ==
    {e.source : e \in {e \in Known(ents, es) : e.relation = "OWNS_ACCOUNT"
                                               /\ e.target = account}}

SharedAccounts(ents, es) ==
    {account \in Entity : \E a, b \in Owners(ents, es, account) : a # b}

Rotations(t) == {t, <<t[2], t[3], t[1]>>, <<t[3], t[1], t[2]>>}

\* Tuples compare by their first difference.
AtMost(s, t) ==
    \/ s[1] < t[1]
    \/ s[1] = t[1] /\ s[2] < t[2]
    \/ s[1] = t[1] /\ s[2] = t[2] /\ s[3] <= t[3]

IsLeast(m, set) == m \in set /\ \A r \in set : AtMost(m, r)

\* Mutant: the last edge is not looked for.
Unclosed(adj) ==
    {t \in Triple : /\ {<<t[1], t[2]>>, <<t[2], t[3]>>} \subseteq adj
                    /\ t[1] # t[2] /\ t[2] # t[3]}

\* The three nested loops: neighbours differ, the first and the last need not.
Closed(adj) ==
    {t \in Triple : /\ {<<t[1], t[2]>>, <<t[2], t[3]>>, <<t[3], t[1]>>} \subseteq adj
                    /\ t[1] # t[2] /\ t[2] # t[3]}

\* _cycles_of_three: each under the least of its rotations.
CyclesOfThree(adj) ==
    {m \in Triple : \E t \in Closed(adj) : IsLeast(m, Rotations(t))}

\* Mutant: the ends of edges are not looked up among the entities read.
FindingsUnfiltered(ents, es) ==
    [shared |-> SharedAccounts(Entity, es), cycles |-> CyclesOfThree(Adjacency(Entity, es))]

Findings(ents, es) ==
    [shared |-> SharedAccounts(ents, es), cycles |-> CyclesOfThree(Adjacency(ents, es))]

----------------------------------------------------------------------------
GraphTypeOK ==
    /\ entities \subseteq Entity
    /\ edges \subseteq Edge
    /\ seen \in [Caller -> (SUBSET Entity) \cup {Nothing}]
    /\ report \in [Caller -> [shared : SUBSET Entity, cycles : SUBSET Triple] \cup {Nothing}]

GraphInit ==
    /\ entities = {}
    /\ edges = {}
    /\ seen = [c \in Caller |-> Nothing]
    /\ report = [c \in Caller |-> Nothing]

\* Inserts, or updates a known entity's type and attributes.
AddEntities(ents) ==
    /\ entities' = entities \cup ents
    /\ UNCHANGED <<edges, seen, report>>

\* No foreign key: an edge may come before its entities.
AddEdges(es) ==
    /\ edges' = edges \cup es
    /\ UNCHANGED <<entities, seen, report>>

ReadEntities(c) ==
    /\ seen[c] = Nothing
    /\ seen' = [seen EXCEPT ![c] = entities]
    /\ report' = [report EXCEPT ![c] = Nothing]
    /\ UNCHANGED <<entities, edges>>

ReadEdges(c) ==
    /\ seen[c] # Nothing
    /\ report' = [report EXCEPT ![c] = Findings(seen[c], edges)]
    /\ seen' = [seen EXCEPT ![c] = Nothing]
    /\ UNCHANGED <<entities, edges>>

GraphNext ==
    \/ \E ents \in SUBSET Entity : AddEntities(ents)
    \/ \E es \in EdgeBatch : AddEdges(es)
    \/ \E c \in Caller : ReadEntities(c) \/ ReadEdges(c)

GraphSpec == GraphInit /\ [][GraphNext]_graphVars

----------------------------------------------------------------------------
(* Whatever an investigation reports is in the graph from then on, though  *)
(* its entities and its edges are of two different moments (investigate).  *)
ReportsStayTrue ==
    \A c \in Caller : report[c] # Nothing =>
        /\ report[c].shared \subseteq SharedAccounts(entities, edges)
        /\ report[c].cycles \subseteq CyclesOfThree(Adjacency(entities, edges))

Distinct(t) == t[1] # t[2] /\ t[2] # t[3] /\ t[3] # t[1]
Around(t) == {<<t[1], t[2]>>, <<t[2], t[3]>>, <<t[3], t[1]>>}

(* An investigation answers with every cycle of three different entities   *)
(* among what it has read, each under one of its rotations; what else it   *)
(* calls a cycle passes through an edge of an entity to itself             *)
(* (_cycles_of_three).                                                     *)
CyclesReported ==
    [][\A c \in Caller : seen[c] # Nothing /\ seen'[c] = Nothing =>
          LET adj == Adjacency(seen[c], edges)
              cycles == report'[c].cycles
          IN  /\ \A t \in Triple : Distinct(t) /\ Around(t) \subseteq adj =>
                     \E m \in Triple : Rotations(t) \cap cycles = {m}
              /\ \A m \in cycles : Around(m) \subseteq adj
              /\ \A m \in cycles : Distinct(m) \/ \E x \in Entity : <<x, x>> \in adj
      ]_graphVars
=============================================================================
