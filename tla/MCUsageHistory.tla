-------------------------- MODULE MCUsageHistory --------------------------
(* A small instance of UsageHistory for TLC; keys are numbers. *)
EXTENDS UsageHistory

\* Keys are interchangeable: the first one that is called or deleted is key 1.
FirstKeyFirst ==
  made = 0 /\ keys = Keys => /\ keys' \in {Keys, Keys \ {1}}
                             /\ \A x \in queue' : x.key = 1

Quiet == \A r \in Readers : view[r].phase = "idle"
NoCapture == \A x \in queue \cup recorded \cup writer.records : ~x.debug
KeyTwoUnused == 2 \in keys /\ \A x \in queue \cup recorded \cup writer.records : x.key = 1

\* Each edge keeps some of the dimensions still.
Expiry == KeyTwoUnused /\ keys = Keys /\ NoCapture /\ (Quiet \/ (made <= 1 /\ queue = {}))
ReadWhileCompacting ==
  KeyTwoUnused /\ keys = Keys /\ NoCapture /\ (Quiet \/ (queue = {} /\ pass # Idle)) /\ now <= 6
DebugAndDeletion == KeyTwoUnused /\ Quiet /\ (made <= 1 \/ pass = Idle) /\ now <= 4
MixedBatches == Quiet /\ pass = Idle /\ now <= 2
RecordWhileAsking == KeyTwoUnused /\ keys = Keys /\ NoCapture /\ pass = Idle /\ now <= 3
SharedConnection == KeyTwoUnused /\ keys = Keys /\ made <= 1 /\ now <= 4

\* Only a request of the first second waits longer than one for its snapshot.
ShortWaits == \A r \in Readers : view[r].phase = "begun" => now <= view[r].end + 1 \/ (view[r].end = 1 /\ now <= 5)

OneEdge ==
  /\ ShortWaits
  /\ \/ ~inMemory /\ (Expiry \/ ReadWhileCompacting \/ DebugAndDeletion \/ MixedBatches
                       \/ RecordWhileAsking)
     \/ inMemory /\ SharedConnection
=============================================================================
