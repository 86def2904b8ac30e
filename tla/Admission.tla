------------------------------ MODULE Admission ------------------------------
(***************************************************************************)
(* verify_admission of admission.py: a manifest with one item per required *)
(* control, each backed by a file under evidence/ that no other control    *)
(* may use.  The controls are gone through in the order of their names,    *)
(* and the files met so far are remembered in a set.  Ages are in hours;   *)
(* a time that is not a UTC time counts as one to come, below zero.  What  *)
(* is wrong with the manifest's head is one flag.                          *)
(***************************************************************************)
EXTENDS Integers, FiniteSets

CONSTANTS
    Control,    \* REQUIRED_CONTROLS, as ranks of their names
    File,       \* regular files under evidence/
    Misfit,     \* those of them that are empty or larger than 50 MiB
    MaxAge,     \* max_age_hours
    Item        \* what the manifest may hold for a control

\* NoFile is a path that leaves evidence/, does not exist, or is no regular
\* file; Malformed no SHA-256.
NoFile == "no_file"
Malformed == "malformed"
Missing == "missing"

\* The name of an independent verifier, and of the deployer's own.
ItemType == [status : {"passed", "failed"}, verifier : {"other", "deployer", ""},
             uri : {"durable", "http"}, sha : File \cup {Malformed},
             file : File \cup {NoFile}, age : Int]

ASSUME AdmissionAssumption ==
    /\ Control \subseteq Int /\ IsFiniteSet(Control)
    /\ MaxAge \in 1 .. 168
    /\ NoFile \notin File /\ Malformed \notin File
    /\ Item \subseteq ItemType

VARIABLES
    head,       \* is the manifest's head in order?
    controls,   \* its items, or Missing
    used,       \* the files met so far
    left,       \* the controls still to be gone through
    errors      \* the controls found wrong

admissionVars == <<head, controls, used, left, errors>>

AdmissionTypeOK ==
    /\ head \in BOOLEAN
    /\ controls \in [Control -> Item \cup {[status |-> Missing]}]
    /\ used \subseteq File
    /\ left \subseteq Control
    /\ errors \subseteq Control

AdmissionInit ==
    /\ head \in BOOLEAN
    /\ controls \in [Control -> Item \cup {[status |-> Missing]}]
    /\ used = {}
    /\ left = Control
    /\ errors = {}

----------------------------------------------------------------------------
\* _verify_file, in the order of its returns: a file is remembered before its
\* size and its digest are looked at, even if it is then refused.  A file's
\* digest is its name.
FileMet(item) == item.sha # Malformed /\ item.file # NoFile

\* Mutant: a file used before is accepted again.
FileAcceptedAgain(item) ==
    /\ FileMet(item)
    /\ item.file \notin Misfit
    /\ item.sha = item.file

FileAccepted(item) ==
    /\ FileMet(item)
    /\ item.file \notin used
    /\ item.file \notin Misfit
    /\ item.sha = item.file

Fresh(item) == item.age >= 0 /\ item.age <= MaxAge

Independent(item) == item.verifier # "" /\ item.verifier # "deployer"

Accepted(item) ==
    /\ item.status = "passed"
    /\ Independent(item)
    /\ item.uri = "durable"
    /\ FileAccepted(item)
    /\ Fresh(item)

\* sorted(REQUIRED_CONTROLS).
IsNext(c) == c \in left /\ \A d \in left : c <= d

CheckMissing(c) ==
    /\ IsNext(c)
    /\ controls[c].status = Missing
    /\ errors' = errors \cup {c}
    /\ left' = left \ {c}
    /\ UNCHANGED <<head, controls, used>>

CheckControl(c) ==
    /\ IsNext(c)
    /\ controls[c].status # Missing
    /\ errors' = IF Accepted(controls[c]) THEN errors ELSE errors \cup {c}
    /\ used' = IF FileMet(controls[c]) THEN used \cup {controls[c].file} ELSE used
    /\ left' = left \ {c}
    /\ UNCHANGED <<head, controls>>

AdmissionNext == \E c \in Control : CheckMissing(c) \/ CheckControl(c)

AdmissionSpec == AdmissionInit /\ [][AdmissionNext]_admissionVars

Admitted == left = {} /\ head /\ errors = {}

----------------------------------------------------------------------------
\* What a manifest must show for a control, whatever the others show.
Shown(item, f) ==
    /\ item.status = "passed" /\ item.uri = "durable"
    /\ item.verifier = "other"
    /\ item.file = f /\ item.sha = f /\ f \notin Misfit
    /\ item.age \in 0 .. MaxAge

(* A release is admitted exactly when its head is in order and every       *)
(* control has a fresh, passed item of an independent verifier with a      *)
(* matching file of its own: the order in which controls are gone through  *)
(* and files remembered makes no difference (verify_admission).            *)
AdmittedOnOwnEvidence ==
    left = {} =>
        (Admitted <=> /\ head
                      /\ \E own \in [Control -> File] :
                            /\ \A c, d \in Control : own[c] = own[d] => c = d
                            /\ \A c \in Control : /\ controls[c].status # Missing
                                                  /\ Shown(controls[c], own[c]))
=============================================================================
