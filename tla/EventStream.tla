---------------------------- MODULE EventStream ----------------------------
(***************************************************************************)
(* event_stream.py: JsonlEventStream, a file of hash-chained records, and  *)
(* ControlStreamProcessor, which feeds them to ingest_and_evaluate and     *)
(* keeps a checkpoint file.  Ingestion itself is ControlPulse.tla's; here  *)
(* it is the step that makes an event id known to the service.             *)
(*                                                                         *)
(* Appenders are threads that share one JsonlEventStream and its lock.     *)
(* Processors share the stream, the service and the checkpoint path, and   *)
(* so the temporary file it is written through.  SHA-256 is taken as       *)
(* injective: a record's hash is its line number, GENESIS is 0.            *)
(***************************************************************************)
EXTENDS Naturals, Sequences

CONSTANTS
    Appender,
    Processor,
    Event,      \* events, by event_id; the same one may be appended twice
    Poison,     \* events whose occurred_at does not parse
    MaxRecords, \* bound on the file's lines
    None,
    Empty, Mixed    \* texts of a checkpoint that do not parse

ASSUME StreamAssumption ==
    /\ Poison \subseteq Event
    /\ MaxRecords \in Nat
    /\ {None, Empty, Mixed} \cap Nat = {}

VARIABLES
    file,       \* the complete lines
    torn,       \* has a write failed half-way, leaving half a record?
    apc, read,  \* each append: where it stands, how many lines it read
    ingested,   \* event ids in control_events
    checkpoint, \* next_offset in the checkpoint file, 0 if there is none
    temp,       \* next_offset in the .tmp file, None if there is none
    opened,     \* the path that a file opened as .tmp has by now
    ppc,        \* where each processor stands
    batch,      \* the records its call has left, by their line numbers
    pending     \* the next_offset it is writing

streamVars == <<file, torn, apc, read>>
processorVars == <<checkpoint, temp, opened, ppc, batch, pending>>
streamAllVars == <<streamVars, processorVars, ingested>>

Offset == 0 .. MaxRecords
Line == [offset : Offset, previous : Offset, event : Event]

StreamTypeOK ==
    /\ \A i \in 1 .. Len(file) : file[i] \in Line
    /\ Len(file) <= MaxRecords
    /\ torn \in BOOLEAN
    /\ apc \in [Appender -> {"idle", "write"}]
    /\ read \in [Appender -> Offset]
    /\ ingested \subseteq Event \ Poison
    /\ checkpoint \in Offset \cup {Empty, Mixed}
    /\ temp \in Offset \cup {Empty, Mixed, None}
    /\ opened \in [Processor -> {"temp", "checkpoint", "gone"}]
    /\ ppc \in [Processor -> {"idle", "start", "ingest", "temp", "write", "replace"}]
    /\ batch \in [Processor -> SUBSET (1 .. Len(file))]
    /\ pending \in [Processor -> Offset]

StreamInit ==
    /\ file = <<>>
    /\ torn = FALSE
    /\ apc = [a \in Appender |-> "idle"]
    /\ read = [a \in Appender |-> 0]
    /\ ingested = {}
    /\ checkpoint = 0
    /\ temp = None
    /\ opened = [p \in Processor |-> "temp"]
    /\ ppc = [p \in Processor |-> "idle"]
    /\ batch = [p \in Processor |-> {}]
    /\ pending = [p \in Processor |-> 0]

----------------------------------------------------------------------------
(* append: read the whole file, then write one line, under the lock.       *)

\* Mutant: no lock.
LockAlwaysFree(a) == TRUE

LockFree(a) == \A b \in Appender \ {a} : apc[b] = "idle"

\* json.loads raises on half a line, so nothing reads past one.
AppendRead(a) ==
    /\ apc[a] = "idle"
    /\ LockFree(a)
    /\ ~torn
    /\ Len(file) < MaxRecords
    /\ apc' = [apc EXCEPT ![a] = "write"]
    /\ read' = [read EXCEPT ![a] = Len(file)]
    /\ UNCHANGED <<file, torn, processorVars, ingested>>

NewLine(a, e) ==
    [offset |-> IF read[a] = 0 THEN 0 ELSE file[read[a]].offset + 1,
     previous |-> read[a], event |-> e]

AppendWrite(a, e) ==
    /\ apc[a] = "write"
    /\ Len(file) < MaxRecords
    /\ file' = Append(file, NewLine(a, e))
    /\ apc' = [apc EXCEPT ![a] = "idle"]
    /\ read' = [read EXCEPT ![a] = 0]
    /\ UNCHANGED <<torn, processorVars, ingested>>

\* The write fails: before its first byte, or (a full disk, a power cut) after.
AppendFails(a) ==
    /\ apc[a] = "write"
    /\ torn' \in {torn, TRUE}
    /\ apc' = [apc EXCEPT ![a] = "idle"]
    /\ read' = [read EXCEPT ![a] = 0]
    /\ UNCHANGED <<file, processorVars, ingested>>

----------------------------------------------------------------------------
(* process_available.                                                      *)
From(offset) == {i \in 1 .. Len(file) : file[i].offset >= offset}

\* Reads the checkpoint and the records from there, perhaps only the first of them.
Start(p) ==
    /\ ppc[p] \in {"idle", "start"}
    /\ ~torn
    /\ checkpoint \in Offset
    /\ \E last \in From(checkpoint) :
          batch' = [batch EXCEPT ![p] = {i \in From(checkpoint) : i <= last}]
    /\ ppc' = [ppc EXCEPT ![p] = "ingest"]
    /\ UNCHANGED <<streamVars, ingested, checkpoint, temp, opened, pending>>

\* The records are gone through in the order of the file.
IsFirst(p, i) == i \in batch[p] /\ \A j \in batch[p] : i <= j

\* The record at line i is behind; the checkpoint after it is to be written.
PassRecord(p, i) ==
    /\ pending' = [pending EXCEPT ![p] = file[i].offset + 1]
    /\ batch' = [batch EXCEPT ![p] = @ \ {i}]
    /\ ppc' = [ppc EXCEPT ![p] = "temp"]
    /\ UNCHANGED <<streamVars, checkpoint, temp, opened>>

\* Mutant: the checkpoint is written without ingesting.
IngestSkips(p) ==
    /\ ppc[p] = "ingest"
    /\ \E i \in batch[p] : IsFirst(p, i) /\ PassRecord(p, i)
    /\ UNCHANGED ingested

\* Mutant: an event whose occurred_at does not parse is stored all the same.
IngestUnparsed(p) ==
    /\ ppc[p] = "ingest"
    /\ \E i \in batch[p] :
          /\ IsFirst(p, i)
          /\ ingested' = ingested \cup {file[i].event}
          /\ PassRecord(p, i)

\* ingest_and_evaluate commits; a known event_id changes nothing.
Ingest(p) ==
    /\ ppc[p] = "ingest"
    /\ \E i \in batch[p] :
          /\ IsFirst(p, i)
          /\ file[i].event \notin Poison
          /\ ingested' = ingested \cup {file[i].event}
          /\ PassRecord(p, i)

\* temp.write_text opens the file, which empties one that is there, ...
OpenTemp(p) ==
    /\ ppc[p] = "temp"
    /\ temp' = Empty
    /\ opened' = [opened EXCEPT ![p] = "temp"]
    /\ ppc' = [ppc EXCEPT ![p] = "write"]
    /\ UNCHANGED <<streamVars, ingested, checkpoint, batch, pending>>

\* A shorter number over a longer one leaves the longer text's end.  How many
\* digits numbers have is left open.
Overwritten(old, new) ==
    {new} \cup IF old = Mixed \/ (old \in Offset /\ old > new) THEN {Mixed} ELSE {}

\* ... then it is filled, wherever a replace of another processor has moved it.
FillTemp(p) ==
    /\ ppc[p] = "write"
    /\ \/ /\ opened[p] = "temp"
          /\ temp' \in Overwritten(temp, pending[p])
          /\ UNCHANGED checkpoint
       \/ /\ opened[p] = "checkpoint"
          /\ checkpoint' \in Overwritten(checkpoint, pending[p])
          /\ UNCHANGED temp
       \/ /\ opened[p] = "gone"
          /\ UNCHANGED <<temp, checkpoint>>
    /\ opened' = [opened EXCEPT ![p] = "temp"]
    /\ ppc' = [ppc EXCEPT ![p] = "replace"]
    /\ UNCHANGED <<streamVars, ingested, batch, pending>>

\* Where the files that processors have open are once temp is the checkpoint.
Moved(q) ==
    IF ppc[q] # "write" THEN "temp"
    ELSE IF opened[q] = "temp" THEN "checkpoint" ELSE "gone"

\* temp.replace(checkpoint_path): it moves whatever the file holds by now.
\* After a replay's reset the call goes on as a process_available.
Replace(p) ==
    /\ ppc[p] = "replace"
    /\ temp # None
    /\ checkpoint' = temp
    /\ temp' = None
    /\ opened' = [q \in Processor |-> Moved(q)]
    /\ ppc' = [ppc EXCEPT ![p] = IF batch[p] # {} THEN "ingest"
                                 ELSE IF pending[p] = 0 THEN "start" ELSE "idle"]
    /\ pending' = [pending EXCEPT ![p] = 0]
    /\ UNCHANGED <<streamVars, ingested, batch>>

\* replay: write a checkpoint of 0, then process.
Replay(p) ==
    /\ ppc[p] = "idle"
    /\ ppc' = [ppc EXCEPT ![p] = "temp"]
    /\ pending' = [pending EXCEPT ![p] = 0]
    /\ UNCHANGED <<streamVars, ingested, checkpoint, temp, opened, batch>>

(* A poison event, FileNotFoundError when another processor has moved the  *)
(* temporary file away, a checkpoint or a line that does not parse, an     *)
(* empty stream after a reset, a crash.                                    *)
Fail(p) ==
    /\ ppc[p] # "idle"
    /\ ppc' = [ppc EXCEPT ![p] = "idle"]
    /\ batch' = [batch EXCEPT ![p] = {}]
    /\ pending' = [pending EXCEPT ![p] = 0]
    /\ opened' = [opened EXCEPT ![p] = "temp"]
    /\ UNCHANGED <<streamVars, ingested, checkpoint, temp>>

StreamNext ==
    \/ \E a \in Appender : AppendRead(a) \/ AppendFails(a)
    \/ \E a \in Appender, e \in Event : AppendWrite(a, e)
    \/ \E p \in Processor : \/ Start(p) \/ Ingest(p) \/ OpenTemp(p) \/ FillTemp(p)
                            \/ Replace(p) \/ Replay(p) \/ Fail(p)

StreamSpec == StreamInit /\ [][StreamNext]_streamAllVars

----------------------------------------------------------------------------
\* What verify compares, record by record: offsets have no gap and no repeat,
\* each record names the one before it.
LinesChained ==
    \A i \in 1 .. Len(file) : file[i].offset = i - 1 /\ file[i].previous = i - 1

(* verify accepts the stream after every interleaving of appends, and of   *)
(* appends that failed before their first byte.  Once half a record is in  *)
(* the file nothing is promised: json.loads raises on it, in verify too.   *)
StreamVerifies == ~torn => LinesChained

(* At-least-once: no crash, replay or second processor with the same files *)
(* makes the checkpoint pass a record whose event was not ingested.        *)
NoRecordSkipped ==
    \A i \in 1 .. Len(file) :
        checkpoint \in Offset /\ file[i].offset < checkpoint => file[i].event \in ingested
=============================================================================
