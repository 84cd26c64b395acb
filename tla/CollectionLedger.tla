-------------------------- MODULE CollectionLedger --------------------------
(***************************************************************************)
(* What the collector promises to everyone who polls collection_runs: a    *)
(* row is opened as running and closed once; a collection publishes its    *)
(* samples whole, at most once and only while its row is running; and the  *)
(* closed row tells whether it did.  -1 means nothing was published.       *)
(***************************************************************************)
EXTENDS Integers

CONSTANT Coll
VARIABLES status, written, published

vars == <<status, written, published>>

Init ==
  /\ status = [c \in Coll |-> "absent"]
  /\ written = [c \in Coll |-> 0]
  /\ published = [c \in Coll |-> -1]

Open(c) ==
  /\ status[c] = "absent"
  /\ status' = [status EXCEPT ![c] = "running"]
  /\ UNCHANGED <<written, published>>

Publish(c) ==
  /\ status[c] = "running" /\ published[c] = -1
  /\ published'[c] \in Nat
  /\ published' = [published EXCEPT ![c] = published'[c]]
  /\ UNCHANGED <<status, written>>

\* success and partial are said only of a collection whose samples are stored,
\* failed only of one that stored none, and rows_written is what it stored.
Close(c) ==
  /\ status[c] = "running"
  /\ \/ /\ published[c] >= 0
        /\ status' \in {[status EXCEPT ![c] = s] : s \in {"success", "partial"}}
        /\ written' = [written EXCEPT ![c] = published[c]]
     \/ /\ published[c] = -1
        /\ status' = [status EXCEPT ![c] = "failed"]
        /\ written' = [written EXCEPT ![c] = 0]
  /\ UNCHANGED published

Next == \E c \in Coll : Open(c) \/ Publish(c) \/ Close(c)

Spec == Init /\ [][Next]_vars
=============================================================================
