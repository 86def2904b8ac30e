--------------------------- MODULE EvidenceExport ---------------------------
(***************************************************************************)
(* GET /evidence/tax without managed evidence: export_tax_run of           *)
(* evidence.py writes the package of an approved run in place, to one path *)
(* per run, and a FileResponse then streams what that path holds.  Exports *)
(* of one run write and read the same file at the same time.  A package is *)
(* its trail's length in blocks and one for its manifest; two packages     *)
(* differ in every block (created_at), so a file that mixes them fails     *)
(* verify_evidence_package by a hash, a checksum or the archive's index.   *)
(***************************************************************************)
EXTENDS Naturals, Sequences

CONSTANTS
    Export,     \* requests
    MaxTrail    \* bound on the events of the audit trail

ASSUME ExportAssumption == MaxTrail \in Nat

VARIABLES
    status,     \* of the run's workflow
    trail,      \* how many events the tenant's audit trail has
    package,    \* what each request has built: its review and its size
    onDisk,     \* the file's blocks, each as the request that wrote it
    at,         \* where each request stands
    promised,   \* the Content-Length it has sent
    received,   \* the blocks its client has
    undisturbed \* requests during whose writing and streaming nobody else wrote

responseVars == <<promised, received>>
exportVars == <<status, trail, package, onDisk, at, responseVars, undisturbed>>

Size == 0 .. MaxTrail + 1

ExportTypeOK ==
    /\ status \in {"PENDING_REVIEW", "APPROVED", "REJECTED"}
    /\ trail \in 0 .. MaxTrail
    /\ package \in [Export -> [review : {"none", "PENDING_REVIEW", "APPROVED", "REJECTED"},
                               size : Size]]
    /\ \A i \in 1 .. Len(onDisk) : onDisk[i] \in Export
    /\ at \in [Export -> {"idle", "read", "open", "write", "stat", "stream", "done", "failed"}]
    /\ promised \in [Export -> Size]
    /\ \A e \in Export : Len(received[e]) <= promised[e]
    /\ undisturbed \subseteq Export

ExportInit ==
    /\ status = "PENDING_REVIEW"
    /\ trail = 0
    /\ package = [e \in Export |-> [review |-> "none", size |-> 0]]
    /\ onDisk = <<>>
    /\ at = [e \in Export |-> "idle"]
    /\ promised = [e \in Export |-> 0]
    /\ received = [e \in Export |-> <<>>]
    /\ undisturbed = {}

----------------------------------------------------------------------------
\* review_run decides once; every request appends to the trail.
Decide(decision) ==
    /\ status = "PENDING_REVIEW"
    /\ status' = decision
    /\ UNCHANGED <<trail, package, onDisk, at, responseVars, undisturbed>>

GrowTrail ==
    /\ trail < MaxTrail
    /\ trail' = trail + 1
    /\ UNCHANGED <<status, package, onDisk, at, responseVars, undisturbed>>

\* Mutant: any run may be exported.
ExportAny == TRUE

MayRead == status = "APPROVED"

\* The workflow, in a transaction of its own.
Check(e) ==
    /\ at[e] = "idle"
    /\ at' = [at EXCEPT ![e] = IF MayRead THEN "read" ELSE "failed"]
    /\ UNCHANGED <<status, trail, package, onDisk, responseVars, undisturbed>>

\* The run, its findings, the trail and the review; payloads and manifest.
BuildPackage(e) ==
    /\ at[e] = "read"
    /\ package' = [package EXCEPT ![e] = [review |-> status, size |-> trail + 1]]
    /\ at' = [at EXCEPT ![e] = "open"]
    /\ UNCHANGED <<status, trail, onDisk, responseVars, undisturbed>>

\* Requests whose file is open for writing, or whose response is under way.
Others(e) == {f \in Export \ {e} : at[f] \in {"write", "stat", "stream"}}

\* write_bytes: opening empties the file, then the bytes go in from its start,
\* over what others have put there since.
Open(e) ==
    /\ at[e] = "open"
    /\ onDisk' = <<>>
    /\ at' = [at EXCEPT ![e] = "write"]
    /\ undisturbed' = IF Others(e) = {} THEN undisturbed \cup {e}
                                        ELSE undisturbed \ Others(e)
    /\ UNCHANGED <<status, trail, package, responseVars>>

Over(new, old) == [i \in 1 .. Len(new) |-> new[i]] \o SubSeq(old, Len(new) + 1, Len(old))

Blocks(e) == [i \in 1 .. package[e].size |-> e]

Write(e) ==
    /\ at[e] = "write"
    /\ onDisk' = Over(Blocks(e), onDisk)
    /\ at' = [at EXCEPT ![e] = "stat"]
    /\ undisturbed' = undisturbed \ Others(e)
    /\ UNCHANGED <<status, trail, package, responseVars>>

\* FileResponse: the size of the file, then its blocks to the end.
Stat(e) ==
    /\ at[e] = "stat"
    /\ promised' = [promised EXCEPT ![e] = Len(onDisk)]
    /\ at' = [at EXCEPT ![e] = "stream"]
    /\ UNCHANGED <<status, trail, package, onDisk, received, undisturbed>>

StreamBlock(e) ==
    LET have == Len(received[e]) IN
    /\ at[e] = "stream"
    /\ have < Len(onDisk) /\ have < promised[e]
    /\ received' = [received EXCEPT ![e] = Append(@, onDisk[have + 1])]
    /\ UNCHANGED <<status, trail, package, onDisk, at, promised, undisturbed>>

\* A length other than the promised one breaks the connection.
EndStream(e) ==
    LET have == Len(received[e]) IN
    /\ at[e] = "stream"
    /\ have = promised[e] \/ have >= Len(onDisk)
    /\ at' = [at EXCEPT ![e] = IF have = promised[e] /\ have >= Len(onDisk)
                               THEN "done" ELSE "failed"]
    /\ UNCHANGED <<status, trail, package, onDisk, responseVars, undisturbed>>

\* The database, the disk or the client is lost.
ExportFails(e) ==
    /\ at[e] \notin {"idle", "done", "failed"}
    /\ at' = [at EXCEPT ![e] = "failed"]
    /\ UNCHANGED <<status, trail, package, onDisk, responseVars, undisturbed>>

ExportNext ==
    \/ GrowTrail
    \/ \E decision \in {"APPROVED", "REJECTED"} : Decide(decision)
    \/ \E e \in Export : \/ Check(e) \/ BuildPackage(e) \/ Open(e) \/ Write(e)
                         \/ Stat(e) \/ StreamBlock(e) \/ EndStream(e) \/ ExportFails(e)

ExportSpec == ExportInit /\ [][ExportNext]_exportVars

----------------------------------------------------------------------------
\* verify_evidence_package: all of one package's blocks and no other.
Verifies(blocks, e) == blocks # <<>> /\ blocks = Blocks(e)

(* A response that no other export disturbed is the requester's package,   *)
(* and whatever package a client has received whole, disturbed or not, is  *)
(* that of an approved run: a torn file never passes for one               *)
(* (tax_evidence, export_tax_run, verify_evidence_package).                *)
ResponseIsPackage ==
    \A e \in Export : at[e] = "done" =>
        /\ e \in undisturbed => Verifies(received[e], e)
        /\ \A f \in Export : Verifies(received[e], f) => package[f].review = "APPROVED"
=============================================================================
