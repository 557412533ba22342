------------------------- MODULE VersionedRegister -------------------------
(***************************************************************************)
(* What the working snapshot of a project promises to its writers: one     *)
(* register that holds a document and its revision.  A writer names the    *)
(* revision it believes current, or none.  A write takes effect at one     *)
(* instant, adds one to the revision, and takes effect only if the revision *)
(* it names is the register's at that instant.  A write that names the     *)
(* current revision of an existing document is never refused; a write that *)
(* fails has no effect.                                                    *)
(***************************************************************************)
EXTENDS Naturals

CONSTANTS
    Requests,   \* the write requests
    None        \* "no expectedRevision in the payload"

VARIABLES
    row,        \* [revision, content]; revision 0 when nothing is stored
    expected,   \* expected[r]: the revision request r names, or None
    outcome     \* outcome[r]: "idle", "pending", "written", "refused" or "failed"

vars == <<row, expected, outcome>>

Init ==
    /\ row.revision \in {0, 1}
    /\ row.content = {}
    /\ expected = [r \in Requests |-> None]
    /\ outcome = [r \in Requests |-> "idle"]

Submit(r) ==
    /\ outcome[r] = "idle"
    /\ outcome' = [outcome EXCEPT ![r] = "pending"]
    /\ expected'[r] \in Nat \cup {None}
    /\ expected' = [expected EXCEPT ![r] = expected'[r]]
    /\ UNCHANGED row

Write(r) ==
    /\ outcome[r] = "pending"
    /\ expected[r] \in {None, row.revision}
    /\ row'.revision = row.revision + 1
    /\ r \in row'.content
    /\ outcome' = [outcome EXCEPT ![r] = "written"]
    /\ UNCHANGED expected

Refuse(r) ==
    /\ outcome[r] = "pending"
    /\ expected[r] # row.revision \/ row.revision = 0
    /\ outcome' = [outcome EXCEPT ![r] = "refused"]
    /\ UNCHANGED <<row, expected>>

Fail(r) ==
    /\ outcome[r] = "pending"
    /\ outcome' = [outcome EXCEPT ![r] = "failed"]
    /\ UNCHANGED <<row, expected>>

Next == \E r \in Requests : Submit(r) \/ Write(r) \/ Refuse(r) \/ Fail(r)

Spec == Init /\ [][Next]_vars

============================================================================
