--------------------------- MODULE RiskGraphProofs ---------------------------
(***************************************************************************)
(* What the search for cycles returns on any graph, that a report made     *)
(* from two reads of a growing graph stays true, and that upserts which    *)
(* wait for each other's rows cannot all be stuck.                         *)
(***************************************************************************)
EXTENDS RiskGraph, GraphUpsert, TLAPS

----------------------------------------------------------------------------
(* Triples and their rotations.                                            *)

LEMMA TripleParts ==
  ASSUME NEW t \in Triple
  PROVE  /\ t = <<t[1], t[2], t[3]>>
         /\ t[1] \in Entity /\ t[2] \in Entity /\ t[3] \in Entity
BY DEF Triple

LEMMA RotationsAreTriples ==
  ASSUME NEW t \in Triple
  PROVE  Rotations(t) \subseteq Triple
BY TripleParts DEF Triple, Rotations

\* The rotations of a rotation are the same three.
LEMMA SameRotations ==
  ASSUME NEW t \in Triple, NEW m \in Rotations(t)
  PROVE  Rotations(m) = Rotations(t)
<1>1. t = <<t[1], t[2], t[3]>>
  BY TripleParts
<1>2. CASE m = t
  BY <1>2
<1>3. CASE m = <<t[2], t[3], t[1]>>
  BY <1>1, <1>3 DEF Rotations
<1>4. CASE m = <<t[3], t[1], t[2]>>
  BY <1>1, <1>4 DEF Rotations
<1> QED
  BY <1>2, <1>3, <1>4 DEF Rotations

LEMMA AtMostTotal ==
  ASSUME Entity \subseteq Int, NEW s \in Triple, NEW t \in Triple
  PROVE  AtMost(s, t) \/ AtMost(t, s)
BY TripleParts DEF AtMost

LEMMA AtMostTransitive ==
  ASSUME Entity \subseteq Int, NEW r \in Triple, NEW s \in Triple, NEW t \in Triple,
         AtMost(r, s), AtMost(s, t)
  PROVE  AtMost(r, t)
<1>1. /\ r[1] \in Int /\ r[2] \in Int /\ r[3] \in Int
      /\ s[1] \in Int /\ s[2] \in Int /\ s[3] \in Int
      /\ t[1] \in Int /\ t[2] \in Int /\ t[3] \in Int
  BY TripleParts
<1> QED
  BY <1>1 DEF AtMost

LEMMA AtMostAntisymmetric ==
  ASSUME Entity \subseteq Int, NEW s \in Triple, NEW t \in Triple,
         AtMost(s, t), AtMost(t, s)
  PROVE  s = t
<1>1. s[1] \in Int /\ s[2] \in Int /\ s[3] \in Int /\ t[1] \in Int /\ t[2] \in Int /\ t[3] \in Int
  BY TripleParts
<1>2. s[1] = t[1] /\ s[2] = t[2] /\ s[3] = t[3]
  BY <1>1 DEF AtMost
<1> QED
  BY <1>2, TripleParts

\* Of three triples one is least.
LEMMA LeastExists ==
  ASSUME Entity \subseteq Int, NEW r \in Triple, NEW s \in Triple, NEW t \in Triple
  PROVE  \E m \in {r, s, t} : IsLeast(m, {r, s, t})
<1>1. AtMost(r, r) /\ AtMost(s, s) /\ AtMost(t, t)
  BY AtMostTotal
<1>2. PICK m \in {r, s} : AtMost(m, r) /\ AtMost(m, s)
  BY <1>1, AtMostTotal
<1>3. CASE AtMost(m, t)
  BY <1>2, <1>3 DEF IsLeast
<1>4. CASE AtMost(t, m)
  <2>1. AtMost(t, r) /\ AtMost(t, s)
    BY <1>2, <1>4, AtMostTransitive
  <2> QED
    BY <1>1, <2>1 DEF IsLeast
<1> QED
  BY <1>2, <1>3, <1>4, AtMostTotal

----------------------------------------------------------------------------
(* Where no entity has an edge to itself, every reported cycle is one of   *)
(* three different entities, edge by edge (_cycles_of_three).              *)
THEOREM CyclesAreReal ==
  ASSUME NEW adj, \A x \in Entity : <<x, x>> \notin adj, NEW m \in CyclesOfThree(adj)
  PROVE  /\ m[1] # m[2] /\ m[2] # m[3] /\ m[3] # m[1]
         /\ {<<m[1], m[2]>>, <<m[2], m[3]>>, <<m[3], m[1]>>} \subseteq adj
<1>1. PICK t \in Closed(adj) : m \in Rotations(t)
  BY DEF CyclesOfThree, IsLeast
<1>2. /\ t \in Triple /\ t[1] # t[2] /\ t[2] # t[3]
      /\ {<<t[1], t[2]>>, <<t[2], t[3]>>, <<t[3], t[1]>>} \subseteq adj
  BY <1>1 DEF Closed
<1>3. t[3] # t[1]
  BY <1>2, TripleParts
<1>4. CASE m = t
  BY <1>2, <1>3, <1>4
<1>5. CASE m = <<t[2], t[3], t[1]>>
  BY <1>2, <1>3, <1>5
<1>6. CASE m = <<t[3], t[1], t[2]>>
  BY <1>2, <1>3, <1>6
<1> QED
  BY <1>1, <1>4, <1>5, <1>6 DEF Rotations

(* Every cycle of three is reported, under one of its rotations and no     *)
(* second one, wherever the loops of _cycles_of_three enter it.            *)
THEOREM EveryCycleIsFoundOnce ==
  ASSUME Entity \subseteq Int, NEW adj, NEW t \in Closed(adj)
  PROVE  /\ \E m \in Rotations(t) : m \in CyclesOfThree(adj)
         /\ \A m, n \in Rotations(t) :
               m \in CyclesOfThree(adj) /\ n \in CyclesOfThree(adj) => m = n
<1>1. t \in Triple
  BY DEF Closed
<1>2. \E m \in Rotations(t) : m \in CyclesOfThree(adj)
  <2>1. <<t[2], t[3], t[1]>> \in Triple /\ <<t[3], t[1], t[2]>> \in Triple
    BY <1>1, RotationsAreTriples DEF Rotations
  <2>2. PICK m \in Rotations(t) : IsLeast(m, Rotations(t))
    BY <1>1, <2>1, LeastExists DEF Rotations
  <2>3. m \in Triple
    BY <1>1, <2>2, RotationsAreTriples
  <2> QED
    BY <2>2, <2>3 DEF CyclesOfThree
<1>3. ASSUME NEW m \in Rotations(t), m \in CyclesOfThree(adj)
      PROVE  m \in Triple /\ IsLeast(m, Rotations(t))
  <2>1. PICK u \in Closed(adj) : IsLeast(m, Rotations(u))
    BY <1>3 DEF CyclesOfThree
  <2>2. u \in Triple /\ m \in Rotations(u)
    BY <2>1 DEF Closed, IsLeast
  <2>3. Rotations(u) = Rotations(t)
    BY <1>1, <1>3, <2>2, SameRotations
  <2> QED
    BY <1>1, <2>1, <2>3, RotationsAreTriples
<1>4. ASSUME NEW m \in Rotations(t), NEW n \in Rotations(t),
             m \in CyclesOfThree(adj), n \in CyclesOfThree(adj)
      PROVE  m = n
  <2>1. m \in Triple /\ n \in Triple /\ AtMost(m, n) /\ AtMost(n, m)
    BY <1>3, <1>4 DEF IsLeast
  <2> QED
    BY <2>1, AtMostAntisymmetric
<1> QED
  BY <1>2, <1>4

(* Where an entity has an edge to itself, a mere pair is reported as a     *)
(* cycle of three: the loops compare a with b and b with c, not c with a.  *)
THEOREM PairPassesForCycle ==
  ASSUME Entity \subseteq Int, NEW adj, NEW a \in Entity, NEW b \in Entity, a # b,
         {<<a, a>>, <<a, b>>, <<b, a>>} \subseteq adj
  PROVE  \E m \in CyclesOfThree(adj) : {m[1], m[2], m[3]} = {a, b}
<1> DEFINE t == <<a, b, a>>
<1>1. t \in Closed(adj)
  BY DEF Closed, Triple
<1>2. PICK m \in Rotations(t) : m \in CyclesOfThree(adj)
  BY <1>1, EveryCycleIsFoundOnce
<1>3. {m[1], m[2], m[3]} = {a, b}
  BY <1>2 DEF Rotations
<1> QED
  BY <1>2, <1>3

----------------------------------------------------------------------------
(* The search is monotone.                                                 *)

LEMMA KnownGrows ==
  ASSUME NEW ents1, NEW ents2, ents1 \subseteq ents2, NEW es1, NEW es2, es1 \subseteq es2
  PROVE  Known(ents1, es1) \subseteq Known(ents2, es2)
BY DEF Known

LEMMA SharedGrows ==
  ASSUME NEW ents1, NEW ents2, ents1 \subseteq ents2, NEW es1, NEW es2, es1 \subseteq es2
  PROVE  SharedAccounts(ents1, es1) \subseteq SharedAccounts(ents2, es2)
<1>1. \A x : Owners(ents1, es1, x) \subseteq Owners(ents2, es2, x)
  BY KnownGrows DEF Owners
<1> QED
  BY <1>1 DEF SharedAccounts

LEMMA CyclesGrow ==
  ASSUME NEW ents1, NEW ents2, ents1 \subseteq ents2, NEW es1, NEW es2, es1 \subseteq es2
  PROVE  CyclesOfThree(Adjacency(ents1, es1)) \subseteq CyclesOfThree(Adjacency(ents2, es2))
<1>1. Adjacency(ents1, es1) \subseteq Adjacency(ents2, es2)
  BY KnownGrows DEF Adjacency
<1>2. Closed(Adjacency(ents1, es1)) \subseteq Closed(Adjacency(ents2, es2))
  BY <1>1 DEF Closed
<1> QED
  BY <1>2 DEF CyclesOfThree

\* What an investigation has read is still there.
SeenStays == \A c \in Caller : seen[c] # Nothing => seen[c] \subseteq entities

IInv == SeenStays /\ ReportsStayTrue

LEMMA InvStep ==
  ASSUME seen \in [Caller -> (SUBSET Entity) \cup {Nothing}],
         DOMAIN report = Caller, report = [c \in Caller |-> report[c]],
         IInv, [GraphNext]_graphVars
  PROVE  IInv'
<1> USE DEF IInv
<1>0. entities \subseteq entities' /\ edges \subseteq edges'
  BY DEF GraphNext, AddEntities, AddEdges, ReadEntities, ReadEdges, graphVars
<1>1. ASSUME UNCHANGED <<seen, report>> PROVE IInv'
  <2>1. SeenStays'
    BY <1>0, <1>1 DEF SeenStays
  <2>2. ReportsStayTrue'
    BY <1>0, <1>1, SharedGrows, CyclesGrow DEF ReportsStayTrue
  <2> QED
    BY <2>1, <2>2
<1>2. ASSUME NEW c \in Caller, ReadEntities(c) PROVE IInv'
  BY <1>2 DEF ReadEntities, SeenStays, ReportsStayTrue
<1>3. ASSUME NEW c \in Caller, ReadEdges(c) PROVE IInv'
  <2>1. SeenStays'
    BY <1>3 DEF ReadEdges, SeenStays
  <2>2. seen[c] \subseteq entities
    BY <1>3 DEF ReadEdges, SeenStays
  <2>3. /\ SharedAccounts(seen[c], edges) \subseteq SharedAccounts(entities, edges)
        /\ CyclesOfThree(Adjacency(seen[c], edges))
              \subseteq CyclesOfThree(Adjacency(entities, edges))
    BY <2>2, SharedGrows, CyclesGrow
  <2>4. ReportsStayTrue'
    BY <1>3, <2>3 DEF ReadEdges, ReportsStayTrue, Findings
  <2> QED
    BY <2>1, <2>4
<1> QED
  BY <1>1, <1>2, <1>3 DEF GraphNext, AddEntities, AddEdges, graphVars

LEMMA TypeStep == GraphTypeOK /\ [GraphNext]_graphVars => GraphTypeOK'
<1> SUFFICES ASSUME GraphTypeOK, [GraphNext]_graphVars PROVE GraphTypeOK'
  OBVIOUS
<1> USE DEF GraphTypeOK
<1>1. ASSUME NEW ents \in SUBSET Entity, AddEntities(ents) PROVE GraphTypeOK'
  BY <1>1 DEF AddEntities
<1>2. ASSUME NEW es \in EdgeBatch, AddEdges(es) PROVE GraphTypeOK'
  BY <1>2, GraphAssumption DEF AddEdges
<1>3. ASSUME NEW c \in Caller, ReadEntities(c) PROVE GraphTypeOK'
  BY <1>3 DEF ReadEntities
<1>4. ASSUME NEW c \in Caller, ReadEdges(c) PROVE GraphTypeOK'
  <2>1. Findings(seen[c], edges) \in [shared : SUBSET Entity, cycles : SUBSET Triple]
    BY DEF Findings, SharedAccounts, CyclesOfThree
  <2> QED
    BY <1>4, <2>1 DEF ReadEdges
<1>5. CASE UNCHANGED graphVars
  BY <1>5 DEF graphVars
<1> QED
  BY <1>1, <1>2, <1>3, <1>4, <1>5 DEF GraphNext

(* The graph and what investigations hold of it keep their types.          *)
THEOREM GraphTypeCorrect == GraphSpec => []GraphTypeOK
<1>1. GraphInit => GraphTypeOK
  BY DEF GraphInit, GraphTypeOK
<1> QED
  BY <1>1, TypeStep, PTL DEF GraphSpec

(* Whatever an investigation reports is in the graph from then on, for any *)
(* number of entities, edges and concurrent investigations.                *)
THEOREM ReportsAlwaysStayTrue == GraphSpec => []ReportsStayTrue
<1>1. GraphInit => GraphTypeOK /\ IInv
  BY DEF GraphInit, GraphTypeOK, IInv, SeenStays, ReportsStayTrue
<1>2. GraphTypeOK /\ IInv /\ [GraphNext]_graphVars => GraphTypeOK' /\ IInv'
  <2> SUFFICES ASSUME GraphTypeOK, IInv, [GraphNext]_graphVars PROVE GraphTypeOK' /\ IInv'
    OBVIOUS
  <2>1. /\ seen \in [Caller -> (SUBSET Entity) \cup {Nothing}]
        /\ DOMAIN report = Caller /\ report = [c \in Caller |-> report[c]]
    BY DEF GraphTypeOK
  <2> QED
    BY <2>1, TypeStep, InvStep
<1>3. IInv => ReportsStayTrue
  BY DEF IInv
<1> QED
  BY <1>1, <1>2, <1>3, PTL DEF GraphSpec

----------------------------------------------------------------------------
(* What an investigation answers with.                                     *)

LEMMA AroundRotation ==
  ASSUME NEW t \in Triple, NEW m \in Rotations(t)
  PROVE  Around(m) = Around(t) /\ (Distinct(m) <=> Distinct(t))
<1>1. CASE m = t
  BY <1>1
<1>2. CASE m = <<t[2], t[3], t[1]>>
  BY <1>2 DEF Around, Distinct
<1>3. CASE m = <<t[3], t[1], t[2]>>
  BY <1>3 DEF Around, Distinct
<1> QED
  BY <1>1, <1>2, <1>3 DEF Rotations

LEMMA SearchIsComplete ==
  ASSUME Entity \subseteq Int, NEW adj,
         NEW t \in Triple, Distinct(t), Around(t) \subseteq adj
  PROVE  \E m \in Triple : Rotations(t) \cap CyclesOfThree(adj) = {m}
<1>1. t \in Closed(adj)
  BY DEF Closed, Distinct, Around
<1>2. PICK m \in Rotations(t) : m \in CyclesOfThree(adj)
  BY <1>1, EveryCycleIsFoundOnce
<1>3. \A n \in Rotations(t) : n \in CyclesOfThree(adj) => n = m
  BY <1>1, <1>2, EveryCycleIsFoundOnce
<1>4. m \in Triple
  BY <1>2, RotationsAreTriples
<1> QED
  BY <1>2, <1>3, <1>4

LEMMA SearchIsSound ==
  ASSUME NEW adj, NEW m \in CyclesOfThree(adj)
  PROVE  /\ Around(m) \subseteq adj
         /\ Distinct(m) \/ \E x \in Entity : <<x, x>> \in adj
<1>1. PICK t \in Closed(adj) : m \in Rotations(t)
  BY DEF CyclesOfThree, IsLeast
<1>2. t \in Triple /\ Around(t) \subseteq adj /\ t[1] # t[2] /\ t[2] # t[3]
  BY <1>1 DEF Closed, Around
<1>3. Around(m) = Around(t) /\ (Distinct(m) <=> Distinct(t))
  BY <1>1, <1>2, AroundRotation
<1>4. CASE t[3] # t[1]
  BY <1>2, <1>3, <1>4 DEF Distinct
<1>5. CASE t[3] = t[1]
  <2>1. t[1] \in Entity /\ <<t[1], t[1]>> \in adj
    BY <1>2, <1>5, TripleParts DEF Around
  <2> QED
    BY <1>2, <1>3, <2>1
<1> QED
  BY <1>4, <1>5

LEMMA AnswerStep ==
  ASSUME GraphTypeOK, [GraphNext]_graphVars,
         NEW c \in Caller, seen[c] # Nothing, seen'[c] = Nothing
  PROVE  report'[c].cycles = CyclesOfThree(Adjacency(seen[c], edges))
<1>1. ASSUME NEW d \in Caller, ReadEntities(d) PROVE FALSE
  BY <1>1 DEF ReadEntities, GraphTypeOK
<1>2. ASSUME NEW d \in Caller, ReadEdges(d)
      PROVE  report'[c].cycles = CyclesOfThree(Adjacency(seen[c], edges))
  <2>1. d = c
    BY <1>2 DEF ReadEdges, GraphTypeOK
  <2>2. report'[c] = Findings(seen[c], edges)
    BY <1>2, <2>1 DEF ReadEdges, GraphTypeOK
  <2> QED
    BY <2>2 DEF Findings
<1> QED
  BY <1>1, <1>2 DEF GraphNext, AddEntities, AddEdges, graphVars

(* An investigation answers with every cycle of three different entities   *)
(* it has read, each once, and with nothing else but for edges of an       *)
(* entity to itself, for any number of entities and investigations         *)
(* (_cycles_of_three).                                                     *)
THEOREM CyclesAlwaysReported ==
  ASSUME Entity \subseteq Int
  PROVE  GraphSpec => CyclesReported
<1> DEFINE Answered(c) ==
             seen[c] # Nothing /\ seen'[c] = Nothing =>
                 LET adj == Adjacency(seen[c], edges)
                     cycles == report'[c].cycles
                 IN  /\ \A t \in Triple : Distinct(t) /\ Around(t) \subseteq adj =>
                            \E m \in Triple : Rotations(t) \cap cycles = {m}
                     /\ \A m \in cycles : Around(m) \subseteq adj
                     /\ \A m \in cycles : Distinct(m) \/ \E x \in Entity : <<x, x>> \in adj
<1>1. GraphInit => GraphTypeOK
  BY DEF GraphInit, GraphTypeOK
<1>2. GraphTypeOK /\ [GraphNext]_graphVars => GraphTypeOK'
  BY TypeStep
<1>3. GraphTypeOK /\ [GraphNext]_graphVars => [\A c \in Caller : Answered(c)]_graphVars
  <2> SUFFICES ASSUME GraphTypeOK, [GraphNext]_graphVars,
                      NEW c \in Caller, seen[c] # Nothing, seen'[c] = Nothing
               PROVE  Answered(c)
    OBVIOUS
  <2>1. report'[c].cycles = CyclesOfThree(Adjacency(seen[c], edges))
    BY AnswerStep
  <2> QED
    BY <2>1, SearchIsComplete, SearchIsSound
<1> QED
  BY <1>1, <1>2, <1>3, PTL DEF GraphSpec, CyclesReported

----------------------------------------------------------------------------
(* add_entities row by row.                                                *)

UpsertTypeInv ==
    /\ UpsertTypeOK
    /\ written \in [Upsert -> Nat]
    \* A request that does not run holds no row.
    /\ \A u \in Upsert : u \notin Running => wanted[u] = <<>> /\ written[u] = 0

LEMMA LengthsAreNumbers ==
  ASSUME UpsertTypeInv, NEW u \in Upsert
  PROVE  Len(wanted[u]) \in Nat /\ written[u] <= Len(wanted[u])
BY UpsertAssumption DEF UpsertTypeInv, UpsertTypeOK

LEMMA UpsertTypeInit == UpsertInit => UpsertTypeInv
BY DEF UpsertInit, UpsertTypeInv, UpsertTypeOK, Running, Locked

\* A row nobody has locked goes to one request.
LEMMA WriteRowStep ==
  ASSUME UpsertTypeInv, NEW u \in Upsert, WriteRow(u)
  PROVE  UpsertTypeInv'
<1> USE DEF UpsertTypeInv, UpsertTypeOK
<1>1. /\ u \in Running /\ stage' = stage /\ wanted' = wanted
      /\ written' = [written EXCEPT ![u] = @ + 1]
      /\ written[u] < Len(wanted[u]) /\ \A v \in Upsert : NextRow(u) \notin Locked(v)
  BY DEF WriteRow, HasRow, Running, Holders
<1>2. Locked(u)' = Locked(u) \cup {NextRow(u)}
      /\ \A v \in Upsert \ {u} : Locked(v)' = Locked(v)
  BY <1>1 DEF Locked, NextRow
<1>3. \A v, x \in Upsert : v # x => Locked(v)' \cap Locked(x)' = {}
  BY <1>1, <1>2
<1>4. \A v \in Upsert : written'[v] \in 0 .. Len(wanted'[v])
  BY <1>1, LengthsAreNumbers
<1> QED
  BY <1>1, <1>3, <1>4 DEF Running

\* The end of a transaction leaves no row of it locked.
LEMMA EndStep ==
  ASSUME UpsertTypeInv, NEW u \in Upsert, NEW how \in {"committed", "failed"}, End(u, how)
  PROVE  UpsertTypeInv'
<1> USE DEF UpsertTypeInv, UpsertTypeOK, End
<1>1. Locked(u)' = {} /\ \A v \in Upsert \ {u} : Locked(v)' = Locked(v)
  BY DEF Locked
<1>2. \A v, x \in Upsert : v # x => Locked(v)' \cap Locked(x)' = {}
  BY <1>1
<1>3. /\ stage' \in [Upsert -> {"idle", "rows", "audit", "committed", "failed"}]
      /\ wanted' \in [Upsert -> Batches \cup {<<>>}]
      /\ written' \in [Upsert -> Nat]
      /\ \A v \in Upsert : written'[v] \in 0 .. Len(wanted'[v])
  BY LengthsAreNumbers
<1> QED
  BY <1>2, <1>3 DEF Running

LEMMA UpsertTypeStep == UpsertTypeInv /\ [UpsertNext]_upsertVars => UpsertTypeInv'
<1> SUFFICES ASSUME UpsertTypeInv, [UpsertNext]_upsertVars PROVE UpsertTypeInv'
  OBVIOUS
<1>1. ASSUME NEW u \in Upsert, NEW list \in Batches, Submit(u, list) PROVE UpsertTypeInv'
  <2>1. u \notin Running /\ written[u] = 0
    BY <1>1 DEF Submit, Running, UpsertTypeInv
  <2>2. \A v \in Upsert : Locked(v)' = Locked(v)
    BY <1>1, <2>1 DEF Submit, Locked, UpsertTypeInv, UpsertTypeOK
  <2>3. \A v \in Upsert : written'[v] \in 0 .. Len(wanted'[v])
    BY <1>1, <2>1, LengthsAreNumbers, UpsertAssumption DEF Submit, UpsertTypeInv, UpsertTypeOK
  <2> QED
    BY <1>1, <2>2, <2>3 DEF Submit, Running, UpsertTypeInv, UpsertTypeOK
<1>2. ASSUME NEW u \in Upsert, WriteRow(u) PROVE UpsertTypeInv'
  BY <1>2, WriteRowStep
<1>3. ASSUME NEW u \in Upsert, Audit(u) PROVE UpsertTypeInv'
  <2>1. \A v \in Upsert : Locked(v)' = Locked(v)
    BY <1>3 DEF Audit, Locked
  <2>2. \A v \in Upsert : v \in Running' <=> v \in Running
    BY <1>3 DEF Audit, Running, UpsertTypeInv, UpsertTypeOK
  <2> QED
    BY <1>3, <2>1, <2>2 DEF Audit, UpsertTypeInv, UpsertTypeOK
<1>4. ASSUME NEW u \in Upsert, CommitUpsert(u) \/ Repeated(u) \/ Victim(u) \/ Disconnect(u)
      PROVE  UpsertTypeInv'
  BY <1>4, EndStep DEF CommitUpsert, Repeated, Victim, Disconnect, RollBackUpsert
<1>5. CASE UNCHANGED upsertVars
  <2>1. \A v \in Upsert : Locked(v)' = Locked(v)
    BY <1>5 DEF upsertVars, Locked
  <2> QED
    BY <1>5, <2>1 DEF upsertVars, UpsertTypeInv, UpsertTypeOK, Running
<1> QED
  BY <1>1, <1>2, <1>3, <1>4, <1>5 DEF UpsertNext, Go

(* Whatever lists the requests bring, a row is locked by one transaction   *)
(* and one of them writes the audit event (add_entities,                   *)
(* append_audit_event).                                                    *)
THEOREM UpsertTypeCorrect == UpsertSpec => []UpsertTypeOK
<1>1. UpsertTypeInv => UpsertTypeOK
  BY DEF UpsertTypeInv
<1> QED
  BY UpsertTypeInit, UpsertTypeStep, <1>1, PTL DEF UpsertSpec

\* What the guards of Go let a request do.
CanGo(u) ==
    \/ HasRow(u) /\ (Holders(NextRow(u)) = {} \/ NextRow(u) \in Locked(u))
    \/ stage[u] = "rows" /\ written[u] = Len(wanted[u])
          /\ \A v \in Upsert : stage[v] # "audit"
    \/ stage[u] = "audit"
    \/ \E set \in SUBSET Running : u \in set /\ Circle(set)

SomeoneCanGo == Running # {} => \E u \in Running : CanGo(u)

(* Everyone waiting on everyone: if no running request could go on, each   *)
(* would wait for a row of another one, all of them together would be a    *)
(* circle, and the database ends one of a circle.  While requests run one  *)
(* of them can go on, for any number of them and any lists (add_entities). *)
THEOREM UpsertsNeverAllStuck == UpsertSpec => []SomeoneCanGo
<1>1. UpsertTypeInv => SomeoneCanGo
  <2> SUFFICES ASSUME UpsertTypeInv, Running # {}, \A u \in Running : ~CanGo(u)
               PROVE  FALSE
    BY DEF SomeoneCanGo
  <2>1. \A u \in Upsert : stage[u] # "audit"
    BY DEF CanGo, Running
  <2>2. ASSUME NEW u \in Running
        PROVE  HasRow(u) /\ Holders(NextRow(u)) # {} /\ NextRow(u) \notin Locked(u)
    <3>1. u \in Upsert /\ stage[u] = "rows"
      BY <2>1 DEF Running
    <3>2. written[u] # Len(wanted[u])
      BY <2>1, <3>1 DEF CanGo
    <3>3. HasRow(u)
      BY <3>1, <3>2, LengthsAreNumbers DEF HasRow, UpsertTypeInv
    <3> QED
      BY <3>3 DEF CanGo
  <2>3. ASSUME NEW u \in Running PROVE Holders(NextRow(u)) \cap (Running \ {u}) # {}
    <3>1. PICK v \in Upsert : NextRow(u) \in Locked(v)
      BY <2>2 DEF Holders
    <3>2. v # u
      BY <2>2, <3>1
    <3>3. written[v] # 0
      BY <3>1 DEF Locked
    <3>4. v \in Running
      BY <3>3 DEF UpsertTypeInv
    <3> QED
      BY <3>1, <3>2, <3>4 DEF Holders
  <2>4. Circle(Running)
    BY <2>2, <2>3 DEF Circle
  <2> QED
    BY <2>4 DEF CanGo
<1> QED
  BY UpsertTypeInit, UpsertTypeStep, <1>1, PTL DEF UpsertSpec

\* What a request has left to do.
Work(u) ==
    CASE stage[u] = "rows" -> Len(wanted[u]) - written[u] + 2
      [] stage[u] = "audit" -> 1
      [] OTHER -> 0

Untouched(v) == stage'[v] = stage[v] /\ wanted'[v] = wanted[v] /\ written'[v] = written[v]

EveryStepCounts ==
    [][\E u \in Upsert :
          /\ \A v \in Upsert \ {u} : Untouched(v)
          /\ \/ stage[u] = "idle" /\ stage'[u] = "rows"
             \/ u \in Running /\ Work(u) \in Nat /\ Work(u)' \in Nat /\ Work(u)' < Work(u)
      ]_upsertVars

(* No step is wasted: each starts a request that had not begun, or brings  *)
(* one nearer to its end, and leaves the others as they are.  An ended     *)
(* request is not taken up again, so nothing goes round for ever; with     *)
(* UpsertsNeverAllStuck this is UpsertsEnd but for the fairness.           *)
THEOREM EveryUpsertStepCounts == UpsertSpec => EveryStepCounts
<1> DEFINE Counts(u) ==
      /\ \A v \in Upsert \ {u} : Untouched(v)
      /\ \/ stage[u] = "idle" /\ stage'[u] = "rows"
         \/ u \in Running /\ Work(u) \in Nat /\ Work(u)' \in Nat /\ Work(u)' < Work(u)
<1>1. UpsertTypeInv /\ [UpsertNext]_upsertVars => [\E u \in Upsert : Counts(u)]_upsertVars
  <2> SUFFICES ASSUME UpsertTypeInv, NEW u \in Upsert,
                      Go(u) \/ Disconnect(u) \/ \E list \in Batches : Submit(u, list)
               PROVE  Counts(u)
    BY DEF UpsertNext
  <2> USE DEF UpsertTypeInv, UpsertTypeOK, Untouched
  <2>1. Len(wanted[u]) \in Nat /\ written[u] \in Nat /\ written[u] <= Len(wanted[u])
    BY LengthsAreNumbers
  <2>2. ASSUME NEW list \in Batches, Submit(u, list) PROVE Counts(u)
    BY <2>2 DEF Submit
  <2>3. CASE WriteRow(u)
    BY <2>1, <2>3 DEF WriteRow, HasRow, Running, Work
  <2>4. CASE Audit(u)
    BY <2>1, <2>4 DEF Audit, Running, Work
  <2>5. ASSUME NEW how \in {"committed", "failed"}, u \in Running, End(u, how)
        PROVE  Counts(u)
    BY <2>1, <2>5 DEF End, Running, Work
  <2>6. CASE CommitUpsert(u) \/ Repeated(u) \/ Victim(u) \/ Disconnect(u)
    BY <2>5, <2>6 DEF CommitUpsert, Repeated, HasRow, Victim, Disconnect, RollBackUpsert, Running
  <2> QED
    BY <2>2, <2>3, <2>4, <2>6 DEF Go
<1> QED
  BY UpsertTypeInit, UpsertTypeStep, <1>1, PTL DEF UpsertSpec, EveryStepCounts
=============================================================================
