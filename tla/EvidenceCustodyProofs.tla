------------------------ MODULE EvidenceCustodyProofs ------------------------
(***************************************************************************)
(* Theorems about the audit chain and about the custody of evidence that   *)
(* reads and extends it, for any number of tenants, sessions, runs and     *)
(* instants.  Custody is a refinement of the chain: what is proved of the  *)
(* chain alone holds with evidence being preserved beside it.              *)
(***************************************************************************)
EXTENDS EvidenceCustody, TLAPS


\* An INSERT has given the session's row an id.
HasRow == \A s \in Session : pc[s] = "inserted" => row[s] \in Id

\* s stands between taking the chain lock and the end of its transaction.
InChain(s) == pc[s] \in {"locked", "read", "inserted"}

LockExclusive ==
    \A s, u \in Session :
        s # u /\ tenant[s] = tenant[u] /\ InChain(s) => ~InChain(u)

\* Ids are handed out in order, and the lock holder's is its tenant's last.
IdsAllocated ==
    /\ \A r \in rows : r.id < nextId
    /\ \A s \in Session :
          pc[s] = "inserted" =>
              /\ row[s] < nextId
              /\ \A r \in RowsOf(tenant[s]) : r.id < row[s]

\* h is the hash at the end of t's chain.
IsTip(t, h) ==
    \/ h = Genesis /\ RowsOf(t) = {}
    \/ \E q \in RowsOf(t) : q.id = h /\ \A r \in RowsOf(t) : r.id <= q.id

\* What the lock holder read is still the end of the chain.
HeadCurrent ==
    \A s \in Session : pc[s] \in {"read", "inserted"} => IsTip(tenant[s], head[s])

IInv ==
    /\ TypeOK
    /\ HasRow
    /\ LockExclusive
    /\ IdsAllocated
    /\ HeadCurrent
    /\ ChainIntact

----------------------------------------------------------------------------
LEMMA TypeInit == Init => TypeOK /\ HasRow
  BY AuditAssumption DEF Init, TypeOK, HasRow, Genesis, Id

LEMMA TypeStep == TypeOK /\ HasRow /\ [Next]_vars => TypeOK' /\ HasRow'
<1> SUFFICES ASSUME TypeOK, HasRow, [Next]_vars PROVE TypeOK' /\ HasRow'
  OBVIOUS
<1> USE DEF TypeOK, HasRow
<1>1. ASSUME NEW s \in Session, NEW t \in Tenant, NEW w \in BOOLEAN, Begin(s, t, w)
      PROVE TypeOK' /\ HasRow'
  BY <1>1 DEF Begin
<1>2. ASSUME NEW s \in Session, Lock(s) PROVE TypeOK' /\ HasRow'
  BY <1>2 DEF Lock
<1>3. ASSUME NEW s \in Session, ReadHead(s) PROVE TypeOK' /\ HasRow'
  BY <1>3 DEF ReadHead
<1>4. ASSUME NEW s \in Session, Insert(s) PROVE TypeOK' /\ HasRow'
  BY <1>4, AuditAssumption DEF Insert, Id
<1>5. ASSUME NEW s \in Session, Commit(s) PROVE TypeOK' /\ HasRow'
  <2>1. NewRow(s) \in Row
    BY <1>5 DEF Commit, NewRow, Row
  <2> QED
    BY <1>5, <2>1 DEF Commit, Close
<1>6. ASSUME NEW s \in Session, RollBack(s) PROVE TypeOK' /\ HasRow'
  BY <1>6 DEF RollBack, Close
<1>7. CASE UNCHANGED vars
  BY <1>7 DEF vars
<1> QED
  BY <1>1, <1>2, <1>3, <1>4, <1>5, <1>6, <1>7 DEF Next

(* The variables keep their types on either database: append_audit_event,  *)
(* and the rollback of a failed request, leave well-formed rows.           *)
THEOREM TypeCorrect == Spec => []TypeOK
<1>1. TypeOK /\ HasRow /\ [Next]_vars => (TypeOK /\ HasRow)'
  BY TypeStep
<1> QED
  BY TypeInit, <1>1, PTL DEF Spec

----------------------------------------------------------------------------
\* Committed rows and the id sequence do not move, so chains do not either.
LEMMA ChainUnmoved ==
    ASSUME ChainIntact, rows' = rows
    PROVE  ChainIntact'
  BY DEF ChainIntact, Verifies, RowsOf, IsHashBefore

\* The only step that changes a chain: the lock holder's commit.
LEMMA ChainExtended ==
    ASSUME IInv, NEW s \in Session, Commit(s)
    PROVE  ChainIntact'
<1> DEFINE new == NewRow(s)
<1>1. /\ rows' = rows \cup {new}
      /\ new.id = row[s] /\ new.tenant = tenant[s] /\ new.prev = head[s]
      /\ pc[s] = "inserted"
  BY DEF Commit, NewRow
<1>2. /\ \A r \in RowsOf(tenant[s]) : r.id < row[s]
      /\ row[s] \in Nat /\ head[s] \in Nat
      /\ IsTip(tenant[s], head[s])
  BY <1>1, AuditAssumption DEF IInv, IdsAllocated, HeadCurrent, HasRow, TypeOK, Id, Genesis
<1>3. \A r \in rows : r.id \in Nat /\ r.prev \in Nat
  BY AuditAssumption DEF IInv, TypeOK, Row, Id, Genesis
<1> SUFFICES ASSUME NEW t \in Tenant, NEW r \in RowsOf(t)'
             PROVE  IsHashBefore(t, r.prev, r.id)'
  BY DEF ChainIntact, Verifies
<1>4. CASE r = new
  <2>1. t = tenant[s]
    BY <1>1, <1>4 DEF RowsOf
  <2>2. RowsOf(t)' = RowsOf(t) \cup {new}
    BY <1>1, <2>1 DEF RowsOf
  <2>3. CASE head[s] = Genesis /\ RowsOf(t) = {}
    BY <1>1, <1>2, <1>4, <2>2, <2>3 DEF IsHashBefore
  <2>4. CASE \E q \in RowsOf(t) : q.id = head[s] /\ \A p \in RowsOf(t) : p.id <= q.id
    <3>1. PICK q \in RowsOf(t) : q.id = head[s] /\ \A p \in RowsOf(t) : p.id <= q.id
      BY <2>4
    <3>2. q \in RowsOf(t)' /\ q.id < r.id
      BY <1>1, <1>2, <1>4, <2>1, <2>2, <3>1
    <3>3. \A p \in RowsOf(t)' : p.id < r.id => p.id <= q.id
      BY <1>1, <1>2, <1>4, <2>2, <3>1
    <3> QED
      BY <1>1, <1>4, <3>1, <3>2, <3>3 DEF IsHashBefore
  <2> QED
    BY <1>2, <2>1, <2>3, <2>4 DEF IsTip
<1>5. CASE r # new
  <2>1. r \in RowsOf(t)
    BY <1>1, <1>5 DEF RowsOf
  <2>2. IsHashBefore(t, r.prev, r.id)
    BY <2>1 DEF IInv, ChainIntact, Verifies
  <2>3. RowsOf(t)' = IF t = tenant[s] THEN RowsOf(t) \cup {new} ELSE RowsOf(t)
    BY <1>1 DEF RowsOf
  <2>4. t = tenant[s] => r.id < new.id /\ new.id \in Nat /\ r.id \in Nat
    BY <1>1, <1>2, <1>3, <2>1 DEF RowsOf
  <2>5. ~(t = tenant[s] /\ new.id < r.id)
    BY <2>4
  <2> QED
    BY <2>2, <2>3, <2>4, <2>5 DEF IsHashBefore
<1> QED
  BY <1>4, <1>5

LEMMA IInvInit == Init => IInv
<1> SUFFICES ASSUME Init PROVE IInv
  OBVIOUS
<1>1. TypeOK /\ HasRow
  BY TypeInit
<1>2. LockExclusive /\ IdsAllocated /\ HeadCurrent /\ ChainIntact
  BY DEF Init, LockExclusive, InChain, IdsAllocated, HeadCurrent, ChainIntact,
         Verifies, RowsOf
<1> QED
  BY <1>1, <1>2 DEF IInv

LEMMA IInvStep ==
    ASSUME Postgres
    PROVE  IInv /\ [Next]_vars => IInv'
<1> SUFFICES ASSUME IInv, [Next]_vars PROVE IInv'
  OBVIOUS
<1>0. TypeOK' /\ HasRow' /\ TypeOK /\ HasRow
  BY TypeStep DEF IInv
<1>1. ASSUME NEW s \in Session, NEW t \in Tenant, NEW w \in BOOLEAN, Begin(s, t, w)
      PROVE IInv'
  <2>1. LockExclusive'
    BY <1>0, <1>1 DEF IInv, TypeOK, Begin, LockExclusive, InChain
  <2>2. IdsAllocated'
    BY <1>0, <1>1 DEF IInv, TypeOK, Begin, IdsAllocated, RowsOf
  <2>3. HeadCurrent'
    BY <1>0, <1>1 DEF IInv, TypeOK, Begin, HeadCurrent, IsTip, RowsOf
  <2>4. ChainIntact'
    BY <1>1, ChainUnmoved DEF IInv, Begin
  <2> QED
    BY <1>0, <2>1, <2>2, <2>3, <2>4 DEF IInv
<1>2. ASSUME NEW s \in Session, Lock(s) PROVE IInv'
  <2>1. LockExclusive'
    BY <1>0, <1>2 DEF IInv, TypeOK, Lock, ChainLockFree, LockExclusive, InChain
  <2>2. IdsAllocated'
    BY <1>0, <1>2 DEF IInv, TypeOK, Lock, IdsAllocated, RowsOf
  <2>3. HeadCurrent'
    BY <1>0, <1>2 DEF IInv, TypeOK, Lock, HeadCurrent, IsTip, RowsOf
  <2>4. ChainIntact'
    BY <1>2, ChainUnmoved DEF IInv, Lock
  <2> QED
    BY <1>0, <2>1, <2>2, <2>3, <2>4 DEF IInv
<1>3. ASSUME NEW s \in Session, ReadHead(s) PROVE IInv'
  <2>1. LockExclusive'
    BY <1>0, <1>3 DEF IInv, TypeOK, ReadHead, LockExclusive, InChain
  <2>2. IdsAllocated'
    BY <1>0, <1>3 DEF IInv, TypeOK, ReadHead, IdsAllocated, RowsOf
  <2>3. HeadCurrent'
    <3>1. \A r \in rows : r.id < nextId /\ r.id \in Nat /\ nextId \in Nat
      BY <1>0, AuditAssumption DEF IInv, IdsAllocated, TypeOK, Row, Id
    <3>2. PICK h \in Id \cup {Genesis} :
              IsHashBefore(tenant[s], h, nextId) /\ head' = [head EXCEPT ![s] = h]
      BY <1>3 DEF ReadHead
    <3>3. IsTip(tenant[s], h)
      BY <3>1, <3>2 DEF IsHashBefore, IsTip, RowsOf
    <3>4. rows' = rows /\ tenant' = tenant /\ pc' = [pc EXCEPT ![s] = "read"]
      BY <1>3 DEF ReadHead
    <3> QED
      BY <1>0, <3>2, <3>3, <3>4 DEF IInv, TypeOK, HeadCurrent, IsTip, RowsOf
  <2>4. ChainIntact'
    BY <1>3, ChainUnmoved DEF IInv, ReadHead
  <2> QED
    BY <1>0, <2>1, <2>2, <2>3, <2>4 DEF IInv
<1>4. ASSUME NEW s \in Session, Insert(s) PROVE IInv'
  <2>1. LockExclusive'
    BY <1>0, <1>4 DEF IInv, TypeOK, Insert, LockExclusive, InChain
  <2>2. IdsAllocated'
    <3>1. /\ \A r \in rows : r.id \in Nat
          /\ nextId \in Nat
          /\ \A u \in Session : row[u] \in Nat
      BY <1>0, AuditAssumption DEF TypeOK, Row, Id, Genesis
    <3> QED
      BY <1>0, <1>4, <3>1 DEF IInv, TypeOK, Insert, IdsAllocated, RowsOf
  <2>3. HeadCurrent'
    BY <1>0, <1>4 DEF IInv, TypeOK, Insert, HeadCurrent, IsTip, RowsOf
  <2>4. ChainIntact'
    BY <1>4, ChainUnmoved DEF IInv, Insert
  <2> QED
    BY <1>0, <2>1, <2>2, <2>3, <2>4 DEF IInv
<1>5. ASSUME NEW s \in Session, Commit(s) PROVE IInv'
  <2>0. /\ rows' = rows \cup {NewRow(s)} /\ pc[s] = "inserted"
        /\ pc' = [pc EXCEPT ![s] = "idle"]
        /\ NewRow(s).id = row[s] /\ NewRow(s).tenant = tenant[s]
        /\ UNCHANGED <<nextId, tenant>>
        /\ \A u \in Session \ {s} : head'[u] = head[u] /\ row'[u] = row[u]
    BY <1>0, <1>5 DEF TypeOK, Commit, Close, NewRow
  <2>a. \A u \in Session \ {s} : InChain(u) => tenant[u] # tenant[s]
    BY <2>0 DEF IInv, LockExclusive, InChain
  <2>b. \A u \in Session \ {s} : InChain(u) => RowsOf(tenant[u])' = RowsOf(tenant[u])
    BY <2>0, <2>a DEF RowsOf
  <2>1. LockExclusive'
    BY <1>0, <2>0 DEF IInv, TypeOK, LockExclusive, InChain
  <2>2. IdsAllocated'
    <3>1. ASSUME NEW u \in Session, pc'[u] = "inserted"
          PROVE  (row[u] < nextId /\ \A r \in RowsOf(tenant[u]) : r.id < row[u])'
      <4>1. u # s /\ pc[u] = "inserted"
        BY <1>0, <2>0, <3>1 DEF TypeOK
      <4>2. row[u] < nextId /\ \A r \in RowsOf(tenant[u]) : r.id < row[u]
        BY <4>1 DEF IInv, IdsAllocated
      <4>3. row'[u] = row[u] /\ nextId' = nextId /\ RowsOf(tenant[u])' = RowsOf(tenant[u])
        BY <2>0, <2>b, <4>1 DEF InChain
      <4> QED
        BY <4>2, <4>3
    <3>2. \A r \in rows' : r.id < nextId'
      BY <2>0 DEF IInv, IdsAllocated
    <3> QED
      BY <3>1, <3>2 DEF IdsAllocated
  <2>3. HeadCurrent'
    BY <1>0, <2>0, <2>b DEF IInv, TypeOK, HeadCurrent, IsTip, InChain
  <2>4. ChainIntact'
    BY <1>5, ChainExtended
  <2> QED
    BY <1>0, <2>1, <2>2, <2>3, <2>4 DEF IInv
<1>6. ASSUME NEW s \in Session, RollBack(s) PROVE IInv'
  <2>1. LockExclusive'
    BY <1>0, <1>6 DEF IInv, TypeOK, RollBack, Close, LockExclusive, InChain
  <2>2. IdsAllocated'
    BY <1>0, <1>6 DEF IInv, TypeOK, RollBack, Close, IdsAllocated, RowsOf
  <2>3. HeadCurrent'
    BY <1>0, <1>6 DEF IInv, TypeOK, RollBack, Close, HeadCurrent, IsTip, RowsOf
  <2>4. ChainIntact'
    BY <1>6, ChainUnmoved DEF IInv, RollBack
  <2> QED
    BY <1>0, <2>1, <2>2, <2>3, <2>4 DEF IInv
<1>7. CASE UNCHANGED vars
  BY <1>0, <1>7, ChainUnmoved DEF IInv, vars, LockExclusive, InChain, IdsAllocated,
     HeadCurrent, IsTip, RowsOf
<1> QED
  BY <1>1, <1>2, <1>3, <1>4, <1>5, <1>6, <1>7 DEF Next

(* On PostgreSQL verify_audit_chain accepts every tenant's chain in every  *)
(* reachable state, whatever requests race or roll back.                   *)
THEOREM ChainAlwaysVerifies ==
    ASSUME Postgres
    PROVE  Spec => []ChainIntact
<1>1. IInv /\ [Next]_vars => IInv'
  BY IInvStep
<1>2. IInv => ChainIntact
  BY DEF IInv
<1> QED
  BY IInvInit, <1>1, <1>2, PTL DEF Spec

\* A commit of the lock holder adds its tenant's last row; nothing else adds rows.
Grows ==
    /\ rows \subseteq rows'
    /\ \A r \in rows' \ rows : \A q \in RowsOf(r.tenant) : q.id < r.id

LEMMA ChainGrows == IInv /\ [Next]_vars => Grows
<1> SUFFICES ASSUME IInv, [Next]_vars PROVE Grows
  OBVIOUS
<1>1. ASSUME NEW s \in Session, Commit(s) PROVE Grows
  BY <1>1 DEF Grows, Commit, NewRow, IInv, IdsAllocated, RowsOf
<1>2. CASE rows' = rows
  BY <1>2 DEF Grows
<1> QED
  BY <1>1, <1>2 DEF Next, vars, Begin, Lock, ReadHead, Insert, RollBack

(* On PostgreSQL a commit only appends at the end of its tenant's chain.   *)
THEOREM ChainGrowsAtTheEnd ==
    ASSUME Postgres
    PROVE  Spec => GrowsAtTheEnd
<1>1. IInv /\ [Next]_vars => [Grows]_vars
  BY ChainGrows
<1>2. IInv /\ [Next]_vars => IInv'
  BY IInvStep
<1> QED
  BY IInvInit, <1>1, <1>2, PTL DEF Spec, GrowsAtTheEnd, Grows

----------------------------------------------------------------------------
(* Custody implements the chain.                                           *)

LEMMA CustodyStepsChain == [CustodyNext]_custodyAll => [Next]_vars
<1> SUFFICES ASSUME CustodyNext PROVE Next \/ UNCHANGED vars
  BY DEF custodyAll
<1>1. ASSUME NEW s \in Session, NEW r \in TaxRun, BeginReview(s, r) \/ BeginPreserve(s, r)
      PROVE  Next
  <2>1. TenantOf[r] \in Tenant
    BY CustodyAssumption
  <2> QED
    BY <1>1, <2>1 DEF BeginReview, BeginPreserve, Next
<1>2. ASSUME NEW s \in Session, PutImmutable(s) \/ \E now \in Instant : ReadPackage(s, now)
      PROVE  UNCHANGED vars
  BY <1>2 DEF PutImmutable, Look, Create, WriteData, WriteMetadata, Step, ReadPackage
<1>3. ASSUME NEW s \in Session, Append(s) \/ CommitJob(s) \/ Fail(s)
      PROVE  Next
  BY <1>3 DEF Append, CommitJob, Fail, Next
<1> QED
  BY <1>1, <1>2, <1>3 DEF CustodyNext, Next

\* Every behaviour with evidence beside the chain is one of the chain alone: no step
\* of preserve_tax_run or of the store touches it but through append_audit_event.
THEOREM CustodyImplementsChain == CustodySpec => Spec
<1>1. CustodyInit => Init
  BY DEF CustodyInit
<1> QED
  BY <1>1, CustodyStepsChain, PTL DEF CustodySpec, Spec

\* So with evidence the chains verify and only grow, too.
THEOREM ChainVerifiesInCustody ==
    ASSUME Postgres
    PROVE  CustodySpec => []ChainIntact /\ GrowsAtTheEnd
  BY CustodyImplementsChain, ChainAlwaysVerifies, ChainGrowsAtTheEnd, PTL

----------------------------------------------------------------------------
(* Types of the custody's variables.                                       *)

\* Where a session has built its package.
Putting == {"look", "create", "data", "metadata", "done"}

\* What a session does is about a run of the tenant it appends for.
JobFits(s) ==
    /\ job[s] # None => pc[s] # "idle" /\ tenant[s] = TenantOf[job[s].run]
    /\ put[s] # "none" => job[s] # None /\ job[s].kind = "preserve"
    /\ put[s] \in Putting => package[s] \in Package /\ package[s].run = job[s].run

CustodyTypeInv ==
    /\ CustodyTypeOK
    /\ HasRow
    /\ \A s \in Session : JobFits(s)

\* What a session writes is the file of its own package.
LEMMA WriteType ==
    ASSUME NEW s \in Session, NEW status, Write(s, status)
    PROVE  /\ DOMAIN store' = (DOMAIN store) \cup {package[s]}
           /\ store'[package[s]] = status
           /\ \A p \in DOMAIN store : p # package[s] => store'[p] = store[p]
  BY DEF Write

LEMMA CustodyTypeInit == CustodyInit => CustodyTypeInv
<1> SUFFICES ASSUME CustodyInit PROVE CustodyTypeInv
  OBVIOUS
<1>1. TypeOK /\ HasRow
  BY TypeInit DEF CustodyInit
<1>2. CustodyTypeOK
  BY <1>1 DEF CustodyInit, CustodyTypeOK
<1>3. \A s \in Session : JobFits(s)
  BY DEF CustodyInit, JobFits, Putting
<1> QED
  BY <1>1, <1>2, <1>3 DEF CustodyTypeInv

LEMMA CustodyTypeStep == CustodyTypeInv /\ [CustodyNext]_custodyAll => CustodyTypeInv'
<1> SUFFICES ASSUME CustodyTypeInv, [CustodyNext]_custodyAll PROVE CustodyTypeInv'
  OBVIOUS
<1>0. /\ TypeOK' /\ HasRow' /\ CustodyTypeOK /\ TypeOK
      /\ \A s \in Session : JobFits(s)
  BY TypeStep, CustodyStepsChain DEF CustodyTypeInv, CustodyTypeOK
<1> SUFFICES CustodyTypeOK' /\ \A s \in Session : JobFits(s)'
  BY <1>0 DEF CustodyTypeInv
<1>1. ASSUME NEW s \in Session, NEW t \in Tenant, NEW w \in BOOLEAN,
             Begin(s, t, w), UNCHANGED custodyVars
      PROVE  CustodyTypeOK' /\ \A u \in Session : JobFits(u)'
  BY <1>0, <1>1 DEF CustodyTypeOK, TypeOK, Begin, custodyVars, JobFits
<1>2. ASSUME NEW s \in Session, NEW r \in TaxRun, BeginReview(s, r)
      PROVE  CustodyTypeOK' /\ \A u \in Session : JobFits(u)'
  <2>1. [kind |-> "review", run |-> r] \in Job
    BY DEF Job
  <2> QED
    BY <1>0, <1>2, <2>1, NoneAssumption
       DEF CustodyTypeOK, TypeOK, BeginReview, Begin, JobFits, Putting
<1>3. ASSUME NEW s \in Session, NEW r \in TaxRun, BeginPreserve(s, r)
      PROVE  CustodyTypeOK' /\ \A u \in Session : JobFits(u)'
  <2>1. [kind |-> "preserve", run |-> r] \in Job
    BY DEF Job
  <2> QED
    BY <1>0, <1>3, <2>1, NoneAssumption
       DEF CustodyTypeOK, TypeOK, BeginPreserve, Begin, JobFits, Putting
<1>4. ASSUME NEW s \in Session, NEW now \in Instant, ReadPackage(s, now)
      PROVE  CustodyTypeOK' /\ \A u \in Session : JobFits(u)'
  <2> DEFINE ids == {q.id : q \in RowsOf(tenant[s])}
             p == [run |-> job[s].run, at |-> now, trail |-> ids]
  <2>1. ids \subseteq Id
    BY <1>0 DEF RowsOf, TypeOK, Row
  <2>2. job[s] \in Job /\ job[s].kind = "preserve" /\ put[s] = "read"
    BY <1>0, <1>4 DEF ReadPackage, JobFits, CustodyTypeOK
  <2>3. package' = [package EXCEPT ![s] = p] /\ put' = [put EXCEPT ![s] = "look"]
        /\ UNCHANGED <<vars, decided, preserved, store, job>>
    BY <1>4 DEF ReadPackage
  <2> HIDE DEF ids
  <2>4. p \in Package /\ p.run = job[s].run
    BY <2>1, <2>2 DEF Package, Job
  <2> HIDE DEF p
  <2> QED
    BY <1>0, <2>2, <2>3, <2>4 DEF CustodyTypeOK, vars, JobFits, Putting
\* A step of put_immutable.
<1>5. ASSUME NEW s \in Session, NEW place \in {"create", "data", "metadata", "done"},
             Step(s, place), put[s] \in Putting,
             \/ store' = store
             \/ \E status \in {"open", "data", "whole"} : Write(s, status)
      PROVE  CustodyTypeOK' /\ \A u \in Session : JobFits(u)'
  <2>1. package[s] \in Package
    BY <1>0, <1>5 DEF JobFits
  <2>2. DOMAIN store' \subseteq Package
        /\ \A p \in DOMAIN store' : store'[p] \in {"open", "data", "whole"}
    <3>1. CASE store' = store
      BY <1>0, <3>1 DEF CustodyTypeOK
    <3>2. ASSUME NEW status \in {"open", "data", "whole"}, Write(s, status)
          PROVE  DOMAIN store' \subseteq Package
                 /\ \A p \in DOMAIN store' : store'[p] \in {"open", "data", "whole"}
      <4>1. /\ DOMAIN store' = (DOMAIN store) \cup {package[s]}
            /\ store'[package[s]] = status
            /\ \A p \in DOMAIN store : p # package[s] => store'[p] = store[p]
        BY <3>2, WriteType
      <4> QED
        BY <1>0, <2>1, <4>1 DEF CustodyTypeOK
    <3> QED
      BY <1>5, <3>1, <3>2
  <2> QED
    BY <1>0, <1>5, <2>2 DEF CustodyTypeOK, Step, vars, JobFits, Putting
<1>6. ASSUME NEW s \in Session, PutImmutable(s)
      PROVE  CustodyTypeOK' /\ \A u \in Session : JobFits(u)'
  BY <1>5, <1>6 DEF PutImmutable, Look, Create, WriteData, WriteMetadata, Putting
<1>7. ASSUME NEW s \in Session, Append(s)
      PROVE  CustodyTypeOK' /\ \A u \in Session : JobFits(u)'
  <2>1. /\ UNCHANGED <<custodyVars, tenant>>
        /\ \A u \in Session : pc[u] # "idle" => pc'[u] # "idle"
    BY <1>0, <1>7 DEF Append, Lock, ReadHead, Insert, TypeOK
  <2> QED
    BY <1>0, <2>1 DEF CustodyTypeOK, custodyVars, JobFits
\* The end of a transaction, of either kind.
<1>8. ASSUME NEW s \in Session, Close(s), Forget(s),
             decided' \in [TaxRun -> Id \cup {Genesis}], preserved' \subseteq Package
      PROVE  CustodyTypeOK' /\ \A u \in Session : JobFits(u)'
  BY <1>0, <1>8 DEF CustodyTypeOK, TypeOK, Close, Forget, JobFits, Putting
<1>9. ASSUME NEW s \in Session, CommitJob(s)
      PROVE  CustodyTypeOK' /\ \A u \in Session : JobFits(u)'
  <2>1. decided' \in [TaxRun -> Id \cup {Genesis}]
    BY <1>0, <1>9 DEF CommitJob, CustodyTypeOK, TypeOK, Job
  <2>2. preserved' \subseteq Package
    BY <1>0, <1>9 DEF CommitJob, CustodyTypeOK, JobFits, Putting
  <2> QED
    BY <1>8, <1>9, <2>1, <2>2 DEF CommitJob, Commit
<1>10. ASSUME NEW s \in Session, Fail(s)
       PROVE  CustodyTypeOK' /\ \A u \in Session : JobFits(u)'
  BY <1>0, <1>8, <1>10 DEF Fail, RollBack, CustodyTypeOK
<1>11. CASE UNCHANGED custodyAll
  BY <1>0, <1>11 DEF custodyAll, custodyVars, vars, CustodyTypeOK, JobFits
<1> QED
  BY <1>1, <1>2, <1>3, <1>4, <1>6, <1>7, <1>9, <1>10, <1>11 DEF CustodyNext

\* The custody's variables keep their types on either database.
THEOREM CustodyTypeCorrect == CustodySpec => []CustodyTypeOK
<1>1. CustodyTypeInv => CustodyTypeOK
  BY DEF CustodyTypeInv
<1> QED
  BY <1>1, CustodyTypeInit, CustodyTypeStep, PTL DEF CustodySpec

----------------------------------------------------------------------------
(* What was preserved can be read.                                         *)

\* The session has the file open, data or metadata.
InFile(s) == put[s] \in {"data", "metadata"}
WholeFile(p) == p \in DOMAIN store /\ store[p] = "whole"

\* O_EXCL lets one session write a file, and whole files are never written again.
StoreInv ==
    /\ PreservedIsReadable
    /\ \A s \in Session :
          /\ put[s] = "done" => WholeFile(package[s])
          /\ InFile(s) => package[s] \in DOMAIN store /\ store[package[s]] # "whole"
    /\ \A s, u \in Session :
          s # u /\ InFile(s) /\ InFile(u) => package[s] # package[u]

\* A session that only moves on to a place where it has no file.
LEMMA StoreUnmoved ==
    ASSUME CustodyTypeInv, StoreInv, UNCHANGED <<preserved, store>>, NEW s \in Session,
           \A u \in Session \ {s} : put'[u] = put[u] /\ package'[u] = package[u],
           \/ put'[s] \notin {"data", "metadata", "done"}
           \/ put'[s] = put[s] /\ package'[s] = package[s]
           \/ put'[s] = "done" /\ package'[s] = package[s] /\ WholeFile(package[s])
    PROVE  StoreInv'
  BY DEF StoreInv, PreservedIsReadable, InFile, WholeFile

LEMMA StoreStep ==
    CustodyTypeInv /\ StoreInv /\ [CustodyNext]_custodyAll => StoreInv'
<1> SUFFICES ASSUME CustodyTypeInv, StoreInv, [CustodyNext]_custodyAll PROVE StoreInv'
  OBVIOUS
<1>0. /\ put \in [Session -> {"none", "read", "look", "create", "data", "metadata", "done"}]
      /\ package \in [Session -> Package \cup {None}]
  BY DEF CustodyTypeInv, CustodyTypeOK
<1>1. CASE UNCHANGED <<preserved, store, put, package>>
  BY <1>1 DEF StoreInv, PreservedIsReadable, InFile, WholeFile
<1>2. ASSUME NEW s \in Session, NEW r \in TaxRun, BeginPreserve(s, r) PROVE StoreInv'
  BY <1>0, <1>2, StoreUnmoved DEF BeginPreserve
<1>3. ASSUME NEW s \in Session, NEW now \in Instant, ReadPackage(s, now) PROVE StoreInv'
  <2>1. /\ put' = [put EXCEPT ![s] = "look"]
        /\ \A u \in Session \ {s} : package'[u] = package[u]
        /\ UNCHANGED <<preserved, store>>
    BY <1>0, <1>3 DEF ReadPackage
  <2> QED
    BY <1>0, <2>1, StoreUnmoved
<1>4. ASSUME NEW s \in Session, Look(s) PROVE StoreInv'
  <2>1. /\ UNCHANGED <<preserved, store, package>>
        /\ \/ put' = [put EXCEPT ![s] = "create"]
           \/ WholeFile(package[s]) /\ put' = [put EXCEPT ![s] = "done"]
    BY <1>4 DEF Look, Step, Missing, WholeFile
  <2> QED
    BY <1>0, <2>1, StoreUnmoved
\* The three writes: the file becomes open, then data, then whole.
<1>5. ASSUME NEW s \in Session, NEW status, NEW place,
             Write(s, status), Step(s, place),
             \/ Missing(s) /\ ~InFile(s) /\ status # "whole" /\ place = "data"
             \/ InFile(s) /\ status # "whole" /\ place = "metadata"
             \/ InFile(s) /\ status = "whole" /\ place = "done"
      PROVE  StoreInv'
  <2>1. /\ DOMAIN store' = (DOMAIN store) \cup {package[s]}
        /\ store'[package[s]] = status
        /\ \A p \in DOMAIN store : p # package[s] => store'[p] = store[p]
    BY <1>5, WriteType
  <2>2. put' = [put EXCEPT ![s] = place] /\ UNCHANGED <<preserved, package>>
    BY <1>5 DEF Step
  <2>3. ~WholeFile(package[s])
    BY <1>5 DEF StoreInv, WholeFile, Missing
  <2>4. \A p : WholeFile(p) => WholeFile(p)'
    BY <2>1, <2>3 DEF WholeFile
  <2>5. PreservedIsReadable'
    BY <2>2, <2>4 DEF StoreInv, PreservedIsReadable, WholeFile
  <2>6. ASSUME NEW u \in Session, u # s
        PROVE  /\ put'[u] = "done" => WholeFile(package[u])'
               /\ InFile(u)' => /\ package'[u] \in DOMAIN store'
                                /\ store'[package'[u]] # "whole"
                                /\ package[u] # package[s]
    <3>1. put'[u] = put[u] /\ package'[u] = package[u]
      BY <1>0, <2>2, <2>6
    <3>2. put[u] = "done" => WholeFile(package[u])
      BY DEF StoreInv
    <3>3. InFile(u) => package[u] \in DOMAIN store /\ store[package[u]] # "whole"
      BY DEF StoreInv
    <3>4. InFile(u) => package[u] # package[s]
      BY <1>5, <2>6, <3>3 DEF StoreInv, Missing
    <3> QED
      BY <2>1, <2>4, <3>1, <3>2, <3>3, <3>4 DEF InFile, WholeFile
  <2>7. /\ put'[s] = "done" => WholeFile(package[s])'
        /\ InFile(s)' => package'[s] \in DOMAIN store' /\ store'[package'[s]] # "whole"
    BY <1>0, <1>5, <2>1, <2>2 DEF InFile, WholeFile
  <2>8. \A u, v \in Session : u # v /\ InFile(u)' /\ InFile(v)' => package'[u] # package'[v]
    <3> SUFFICES ASSUME NEW u \in Session, NEW v \in Session, u # v, InFile(u)', InFile(v)'
                 PROVE  package[u] # package[v]
      BY <2>2
    <3>1. CASE u = s
      BY <2>6, <3>1
    <3>2. CASE v = s
      BY <2>6, <3>2
    <3>3. CASE u # s /\ v # s
      BY <1>0, <2>2, <3>3 DEF StoreInv, InFile
    <3> QED
      BY <3>1, <3>2, <3>3
  <2>9. \A u \in Session :
           /\ put'[u] = "done" => WholeFile(package[u])'
           /\ InFile(u)' => package'[u] \in DOMAIN store' /\ store'[package'[u]] # "whole"
    BY <2>6, <2>7
  <2> QED
    BY <2>2, <2>5, <2>8, <2>9 DEF StoreInv
<1>6. ASSUME NEW s \in Session, Create(s) PROVE StoreInv'
  BY <1>5, <1>6 DEF Create, InFile
<1>7. ASSUME NEW s \in Session, WriteData(s) PROVE StoreInv'
  BY <1>5, <1>7 DEF WriteData, InFile
<1>8. ASSUME NEW s \in Session, WriteMetadata(s) PROVE StoreInv'
  BY <1>5, <1>8 DEF WriteMetadata, InFile
<1>9. ASSUME NEW s \in Session, Forget(s),
             \/ preserved' = preserved
             \/ put[s] = "done" /\ preserved' = preserved \cup {package[s]}
      PROVE  StoreInv'
  <2>1. /\ store' = store /\ put' = [put EXCEPT ![s] = "none"]
        /\ \A u \in Session \ {s} : put'[u] = put[u] /\ package'[u] = package[u]
    BY <1>0, <1>9 DEF Forget
  <2>2. PreservedIsReadable'
    BY <1>9, <2>1 DEF StoreInv, PreservedIsReadable, WholeFile
  <2> QED
    BY <1>0, <2>1, <2>2 DEF StoreInv, InFile, WholeFile
<1>10. ASSUME NEW s \in Session, CommitJob(s) \/ Fail(s) PROVE StoreInv'
  BY <1>9, <1>10 DEF CommitJob, Fail
<1>11. ASSUME NEW s \in Session, PutImmutable(s) PROVE StoreInv'
  BY <1>4, <1>6, <1>7, <1>8, <1>11 DEF PutImmutable
<1>12. ASSUME NEW s \in Session, NEW r \in TaxRun, BeginReview(s, r) PROVE StoreInv'
  BY <1>1, <1>12 DEF BeginReview
<1>13. ASSUME NEW s \in Session, Append(s) PROVE StoreInv'
  BY <1>1, <1>13 DEF Append, custodyVars
<1> QED
  BY <1>1, <1>2, <1>3, <1>10, <1>11, <1>12, <1>13 DEF CustodyNext, custodyVars, custodyAll

\* An object named by a committed EVIDENCE_PRESERVED event is whole in the store,
\* whichever puts of the same content crashed or raced it (put_immutable).
THEOREM PreservedAlwaysReadable == CustodySpec => []PreservedIsReadable
<1>1. CustodyInit => CustodyTypeInv /\ StoreInv
  <2>1. CustodyInit => StoreInv
    BY DEF CustodyInit, StoreInv, PreservedIsReadable, InFile
  <2> QED
    BY <2>1, CustodyTypeInit
<1>2. CustodyTypeInv /\ StoreInv /\ [CustodyNext]_custodyAll => (CustodyTypeInv /\ StoreInv)'
  BY CustodyTypeStep, StoreStep
<1>3. StoreInv => PreservedIsReadable
  BY DEF StoreInv
<1> QED
  BY <1>1, <1>2, <1>3, PTL DEF CustodySpec

----------------------------------------------------------------------------
(* What a package says of its tenant's chain stays true as the chain       *)
(* grows.                                                                  *)

\* Packages with a file, and those that sessions are putting.
InUse == (DOMAIN store) \cup {package[s] : s \in {u \in Session : put[u] \in Putting}}

IsPrefix(p) ==
    \A q \in RowsOf(TenantOf[p.run]) : (\E i \in p.trail : q.id <= i) => q.id \in p.trail

\* The trail holds committed events only.
IsPast(p) == \A i \in p.trail : \E q \in RowsOf(TenantOf[p.run]) : q.id = i

TrailInv == \A p \in InUse : IsPrefix(p) /\ IsPast(p)

LEMMA InUseType ==
    ASSUME CustodyTypeInv
    PROVE  InUse \subseteq Package
  BY DEF CustodyTypeInv, CustodyTypeOK, InUse, JobFits

\* A package comes into use when a session reads it.
LEMMA NewInUse ==
    ASSUME CustodyTypeInv, [CustodyNext]_custodyAll, NEW p \in InUse'
    PROVE  \/ p \in InUse
           \/ \E s \in Session, now \in Instant : ReadPackage(s, now) /\ p = package'[s]
<1>0. /\ put \in [Session -> {"none", "read", "look", "create", "data", "metadata", "done"}]
      /\ package \in [Session -> Package \cup {None}]
  BY DEF CustodyTypeInv, CustodyTypeOK
<1>1. ASSUME UNCHANGED <<store, put, package>> PROVE p \in InUse
  BY <1>1 DEF InUse
<1>2. ASSUME NEW s \in Session, NEW r \in TaxRun, BeginPreserve(s, r) PROVE p \in InUse
  BY <1>0, <1>2 DEF BeginPreserve, InUse, Putting
<1>3. ASSUME NEW s \in Session, NEW now \in Instant, ReadPackage(s, now)
      PROVE  p \in InUse \/ p = package'[s]
  BY <1>0, <1>3 DEF ReadPackage, InUse, Putting
<1>4. ASSUME NEW s \in Session, NEW place, Step(s, place), put[s] \in Putting,
             store' = store \/ \E status : Write(s, status)
      PROVE  p \in InUse
  <2>1. DOMAIN store' \subseteq (DOMAIN store) \cup {package[s]}
    BY <1>4 DEF Write
  <2>2. package' = package /\ \A u \in Session \ {s} : put'[u] = put[u]
    BY <1>0, <1>4 DEF Step
  <2> QED
    BY <1>4, <2>1, <2>2 DEF InUse
<1>5. ASSUME NEW s \in Session, PutImmutable(s) PROVE p \in InUse
  BY <1>4, <1>5 DEF PutImmutable, Look, Create, WriteData, WriteMetadata, Putting
<1>6. ASSUME NEW s \in Session, CommitJob(s) \/ Fail(s) PROVE p \in InUse
  <2>1. Forget(s)
    BY <1>6 DEF CommitJob, Fail
  <2> QED
    BY <1>0, <2>1 DEF Forget, InUse, Putting
<1>7. ASSUME NEW s \in Session, NEW r \in TaxRun, BeginReview(s, r) PROVE p \in InUse
  BY <1>1, <1>7 DEF BeginReview
<1>8. ASSUME NEW s \in Session, Append(s) PROVE p \in InUse
  BY <1>1, <1>8 DEF Append, custodyVars
<1> QED
  BY <1>1, <1>2, <1>3, <1>5, <1>6, <1>7, <1>8 DEF CustodyNext, custodyVars, custodyAll

\* What a session reads is the whole chain of the run's tenant, as it stands.
LEMMA ReadIsChain ==
    ASSUME CustodyTypeInv, NEW s \in Session, NEW now \in Instant, ReadPackage(s, now)
    PROVE  /\ job[s] # None /\ job[s].kind = "preserve" /\ job[s].run \in TaxRun
           /\ package'[s].run = job[s].run
           /\ package'[s].trail = {q.id : q \in RowsOf(TenantOf[job[s].run])}
           /\ UNCHANGED <<rows, decided>>
<1>1. /\ package \in [Session -> Package \cup {None}]
      /\ put[s] = "read" /\ JobFits(s) /\ job[s] \in Job \cup {None}
  BY DEF CustodyTypeInv, CustodyTypeOK, ReadPackage
<1>2. job[s] # None /\ job[s].kind = "preserve" /\ tenant[s] = TenantOf[job[s].run]
  BY <1>1 DEF JobFits
<1>3. job[s].run \in TaxRun
  BY <1>1, <1>2 DEF Job
<1> DEFINE ids == {q.id : q \in RowsOf(tenant[s])}
<1>4. package' = [package EXCEPT ![s] = [run |-> job[s].run, at |-> now, trail |-> ids]]
      /\ UNCHANGED <<rows, decided>>
  BY DEF ReadPackage, vars
<1> HIDE DEF ids
<1>5. package'[s].run = job[s].run /\ package'[s].trail = ids
  BY <1>1, <1>4
<1> QED
  BY <1>2, <1>3, <1>4, <1>5 DEF ids

LEMMA TrailStep ==
    CustodyTypeInv /\ IInv /\ TrailInv /\ [CustodyNext]_custodyAll => TrailInv'
<1> SUFFICES ASSUME CustodyTypeInv, IInv, TrailInv, [CustodyNext]_custodyAll,
                    NEW p \in InUse'
             PROVE  IsPrefix(p)' /\ IsPast(p)'
  BY DEF TrailInv
<1>1. Grows
  BY ChainGrows, CustodyStepsChain
<1>2. \A r \in rows' : r.id \in Nat
  BY TypeStep, CustodyStepsChain, AuditAssumption DEF CustodyTypeInv, CustodyTypeOK, TypeOK, Row, Id
<1>3. CASE p \in InUse
  <2>1. IsPrefix(p) /\ IsPast(p)
    BY <1>3 DEF TrailInv
  <2>2. IsPast(p)'
    BY <1>1, <2>1 DEF IsPast, RowsOf, Grows
  <2>3. ASSUME NEW q \in RowsOf(TenantOf[p.run])', NEW i \in p.trail, q.id <= i
        PROVE  q.id \in p.trail
    <3>1. PICK x \in RowsOf(TenantOf[p.run]) : x.id = i
      BY <2>1 DEF IsPast
    <3>2. x.id \in Nat /\ q.id \in Nat /\ ~(x.id < q.id)
      BY <1>1, <1>2, <2>3, <3>1 DEF RowsOf, Grows
    <3>3. q \in rows
      BY <1>1, <3>2 DEF RowsOf, Grows
    <3> QED
      BY <2>1, <2>3, <3>3 DEF IsPrefix, RowsOf
  <2> QED
    BY <2>2, <2>3 DEF IsPrefix
<1>4. ASSUME NEW s \in Session, NEW now \in Instant, ReadPackage(s, now), p = package'[s]
      PROVE  IsPrefix(p)' /\ IsPast(p)'
  <2>1. p.trail = {q.id : q \in RowsOf(TenantOf[p.run])} /\ rows' = rows
    BY <1>4, ReadIsChain
  <2> QED
    BY <2>1 DEF IsPrefix, IsPast, RowsOf
<1> QED
  BY <1>3, <1>4, NewInUse

\* On PostgreSQL the trail of every package in the store is its tenant's chain up to
\* a point (build_tax_run_package, append_audit_event).
THEOREM TrailAlwaysPrefix ==
    ASSUME Postgres
    PROVE  CustodySpec => []TrailIsPrefix
<1>1. CustodyInit => CustodyTypeInv /\ IInv /\ TrailInv
  <2>1. CustodyInit => TrailInv
    BY DEF CustodyInit, TrailInv, InUse, Putting
  <2> QED
    BY <2>1, CustodyTypeInit, IInvInit DEF CustodyInit
<1>2. CustodyTypeInv /\ IInv /\ TrailInv /\ [CustodyNext]_custodyAll
         => (CustodyTypeInv /\ IInv /\ TrailInv)'
  BY CustodyTypeStep, CustodyStepsChain, IInvStep, TrailStep
<1>3. TrailInv => TrailIsPrefix
  BY DEF TrailInv, InUse, IsPrefix, TrailIsPrefix
<1> QED
  BY <1>1, <1>2, <1>3, PTL DEF CustodySpec

----------------------------------------------------------------------------
(* The decision a package certifies is in its own trail.                   *)

Reviews(s) == job[s] # None /\ job[s].kind = "review"

\* A run's decision is a committed event; while one session reviews a pending run no
\* other does, and none preserves it.
DecisionKnown ==
    /\ \A r \in TaxRun : decided[r] # Genesis =>
          \E q \in RowsOf(TenantOf[r]) : q.id = decided[r]
    /\ \A s \in Session : job[s] # None =>
          (job[s].kind = "review" <=> decided[job[s].run] = Genesis)
    /\ \A s, u \in Session :
          s # u /\ Reviews(s) /\ Reviews(u) => job[s].run # job[u].run

DecisionInv == DecisionKnown /\ \A p \in InUse : decided[p.run] \in p.trail

\* The only step that decides: the commit of the run's one reviewer.
LEMMA ReviewCommits ==
    ASSUME CustodyTypeInv, DecisionInv, NEW s \in Session, CommitJob(s), Reviews(s)
    PROVE  /\ job[s].run \in TaxRun
           /\ decided[job[s].run] = Genesis
           /\ decided' = [decided EXCEPT ![job[s].run] = row[s]]
           /\ row[s] \in Id
           /\ \E q \in rows' : q.tenant = TenantOf[job[s].run] /\ q.id = row[s]
           /\ rows \subseteq rows'
<1>1. job[s] \in Job /\ job[s].kind = "review" /\ tenant[s] = TenantOf[job[s].run]
  BY DEF Reviews, CustodyTypeInv, CustodyTypeOK, JobFits
<1>2. /\ pc[s] = "inserted" /\ rows' = rows \cup {NewRow(s)}
      /\ decided' = [decided EXCEPT ![job[s].run] = row[s]]
  BY DEF CommitJob, Commit, Reviews
<1>3. row[s] \in Id
  BY <1>2 DEF CustodyTypeInv, HasRow
<1>4. job[s].run \in TaxRun /\ decided[job[s].run] = Genesis
  BY <1>1 DEF DecisionInv, DecisionKnown, Reviews, Job
<1>5. NewRow(s).tenant = TenantOf[job[s].run] /\ NewRow(s).id = row[s]
  BY <1>1 DEF NewRow
<1> QED
  BY <1>2, <1>3, <1>4, <1>5

\* A decision that is made stays.
LEMMA DecidedStays ==
    ASSUME CustodyTypeInv, DecisionInv, [CustodyNext]_custodyAll,
           NEW r \in TaxRun, decided[r] # Genesis
    PROVE  decided'[r] = decided[r]
<1>0. decided \in [TaxRun -> Id \cup {Genesis}]
  BY DEF CustodyTypeInv, CustodyTypeOK
<1>1. ASSUME NEW s \in Session, CommitJob(s) PROVE decided'[r] = decided[r]
  <2>1. CASE Reviews(s)
    BY <1>0, <1>1, <2>1, ReviewCommits
  <2>2. CASE ~Reviews(s)
    BY <1>1, <2>2 DEF CommitJob, Reviews
  <2> QED
    BY <2>1, <2>2
<1>2. CASE decided' = decided
  BY <1>2
<1> QED
  BY <1>1, <1>2 DEF CustodyNext, custodyAll, custodyVars, BeginReview, BeginPreserve,
     ReadPackage, PutImmutable, Look, Create, WriteData, WriteMetadata, Step, Append, Fail

LEMMA KnownStep ==
    CustodyTypeInv /\ IInv /\ DecisionInv /\ [CustodyNext]_custodyAll => DecisionKnown'
<1> SUFFICES ASSUME CustodyTypeInv, IInv, DecisionInv, [CustodyNext]_custodyAll
             PROVE  DecisionKnown'
  OBVIOUS
<1>0. /\ job \in [Session -> Job \cup {None}]
      /\ decided \in [TaxRun -> Id \cup {Genesis}]
      /\ DecisionKnown
      /\ \A i \in Id : i # Genesis
  BY AuditAssumption DEF CustodyTypeInv, CustodyTypeOK, DecisionInv, Id, Genesis
<1>g. rows \subseteq rows'
  BY ChainGrows, CustodyStepsChain DEF Grows
<1>1. CASE UNCHANGED <<decided, job>>
  BY <1>0, <1>g, <1>1 DEF DecisionKnown, Reviews, RowsOf
<1>2. ASSUME NEW s \in Session, NEW r \in TaxRun, BeginReview(s, r) PROVE DecisionKnown'
  <2>1. /\ decided[r] = Genesis /\ decided' = decided
        /\ job' = [job EXCEPT ![s] = [kind |-> "review", run |-> r]]
        /\ \A u \in Session : job[u] # [kind |-> "review", run |-> r]
    BY <1>2 DEF BeginReview
  <2>2. \A u \in Session : Reviews(u) => job[u].run # r
    BY <1>0, <2>1 DEF Reviews, Job
  <2> QED
    BY <1>0, <1>g, <2>1, <2>2 DEF DecisionKnown, Reviews, RowsOf
<1>3. ASSUME NEW s \in Session, NEW r \in TaxRun, BeginPreserve(s, r) PROVE DecisionKnown'
  <2>1. /\ decided[r] # Genesis /\ decided' = decided
        /\ job' = [job EXCEPT ![s] = [kind |-> "preserve", run |-> r]]
    BY <1>3 DEF BeginPreserve, MayExport
  <2> QED
    BY <1>0, <1>g, <2>1 DEF DecisionKnown, Reviews, RowsOf
<1>4. ASSUME NEW s \in Session, Forget(s), decided' = decided PROVE DecisionKnown'
  <2>1. job' = [job EXCEPT ![s] = None]
    BY <1>4 DEF Forget
  <2> QED
    BY <1>0, <1>g, <1>4, <2>1 DEF DecisionKnown, Reviews, RowsOf
<1>5. ASSUME NEW s \in Session, CommitJob(s) PROVE DecisionKnown'
  <2>0. job' = [job EXCEPT ![s] = None]
    BY <1>5 DEF CommitJob, Forget
  <2>1. CASE Reviews(s)
    <3>1. /\ job[s].run \in TaxRun
          /\ decided' = [decided EXCEPT ![job[s].run] = row[s]]
          /\ row[s] # Genesis
          /\ \E q \in rows' : q.tenant = TenantOf[job[s].run] /\ q.id = row[s]
          /\ decided[job[s].run] = Genesis
      BY <1>0, <1>5, <2>1, ReviewCommits
    <3>2. \A r \in TaxRun : decided'[r] # Genesis =>
             \E q \in RowsOf(TenantOf[r])' : q.id = decided'[r]
      BY <1>0, <1>g, <3>1 DEF DecisionKnown, RowsOf
    <3>3. \A u \in Session \ {s} : job[u] # None => job[u].run # job[s].run
      BY <1>0, <2>1, <3>1 DEF DecisionKnown, Reviews
    <3>4. \A u \in Session : job'[u] # None =>
             (job'[u].kind = "review" <=> decided'[job'[u].run] = Genesis)
      BY <1>0, <2>0, <3>1, <3>3 DEF DecisionKnown
    <3> QED
      BY <1>0, <2>0, <3>2, <3>4 DEF DecisionKnown, Reviews
  <2>2. CASE ~Reviews(s)
    BY <1>4, <1>5, <2>2 DEF CommitJob, Reviews
  <2> QED
    BY <2>1, <2>2
<1>6. ASSUME NEW s \in Session, Fail(s) PROVE DecisionKnown'
  BY <1>4, <1>6 DEF Fail
<1>7. ASSUME NEW s \in Session, PutImmutable(s) \/ Append(s) PROVE DecisionKnown'
  BY <1>1, <1>7 DEF PutImmutable, Look, Create, WriteData, WriteMetadata, Step, Append,
     custodyVars
<1>8. ASSUME NEW s \in Session, NEW now \in Instant, ReadPackage(s, now) PROVE DecisionKnown'
  BY <1>1, <1>8 DEF ReadPackage
<1> QED
  BY <1>1, <1>2, <1>3, <1>5, <1>6, <1>7, <1>8 DEF CustodyNext, custodyVars, custodyAll

LEMMA DecisionStep ==
    CustodyTypeInv /\ IInv /\ DecisionInv /\ [CustodyNext]_custodyAll => DecisionInv'
<1> SUFFICES ASSUME CustodyTypeInv, IInv, DecisionInv, [CustodyNext]_custodyAll,
                    NEW p \in InUse'
             PROVE  decided'[p.run] \in p.trail
  BY KnownStep DEF DecisionInv
<1>1. CASE p \in InUse
  <2>1. p.run \in TaxRun /\ p.trail \subseteq Id /\ decided[p.run] \in p.trail
    BY <1>1, InUseType DEF DecisionInv, Package
  <2>2. decided[p.run] # Genesis
    BY <2>1, AuditAssumption DEF Id, Genesis
  <2> QED
    BY <2>1, <2>2, DecidedStays
<1>2. ASSUME NEW s \in Session, NEW now \in Instant, ReadPackage(s, now), p = package'[s]
      PROVE  decided'[p.run] \in p.trail
  <2>1. /\ job[s] # None /\ job[s].kind = "preserve" /\ job[s].run \in TaxRun
        /\ p.run = job[s].run
        /\ p.trail = {q.id : q \in RowsOf(TenantOf[job[s].run])}
        /\ decided' = decided
    BY <1>2, ReadIsChain
  <2> QED
    BY <2>1 DEF DecisionInv, DecisionKnown
<1> QED
  BY <1>1, <1>2, NewInUse

\* On PostgreSQL every package in the store holds the event that approved its run: an
\* export waits for the approval, and the event committed with it (evidence_service.py).
THEOREM DecisionAlwaysPackaged ==
    ASSUME Postgres
    PROVE  CustodySpec => []DecisionIsPackaged
<1>1. CustodyInit => CustodyTypeInv /\ IInv /\ DecisionInv
  <2>1. CustodyInit => DecisionInv
    BY DEF CustodyInit, DecisionInv, DecisionKnown, InUse, Putting, Reviews
  <2> QED
    BY <2>1, CustodyTypeInit, IInvInit DEF CustodyInit
<1>2. CustodyTypeInv /\ IInv /\ DecisionInv /\ [CustodyNext]_custodyAll
         => (CustodyTypeInv /\ IInv /\ DecisionInv)'
  BY CustodyTypeStep, CustodyStepsChain, IInvStep, DecisionStep
<1>3. DecisionInv => DecisionIsPackaged
  BY DEF DecisionInv, InUse, DecisionIsPackaged
<1> QED
  BY <1>1, <1>2, <1>3, PTL DEF CustodySpec

=============================================================================
