------------------------- MODULE WorkflowInstances -------------------------
(***************************************************************************)
(* The state of an app's workflow instances, of the requests that create   *)
(* them and of their active markers, and what is promised of it: the       *)
(* invariants that the operations of WorkflowAdmission keep.               *)
(***************************************************************************)
EXTENDS Integers, FiniteSets

CONSTANTS
  Creates,      \* requests to create an instance
  Ids,          \* instance ids; two requests with one id are a retry
  ActiveLimit,  \* W7S_WORKFLOW_ACTIVE_LIMIT
  MaxAttempts   \* one more than W7S_WORKFLOW_MAX_RETRIES

ASSUME LimitAssumption == ActiveLimit \in Nat /\ MaxAttempts \in Nat \ {0}
ASSUME IdsAssumption == IsFiniteSet(Ids)

VARIABLES
  step,      \* step[c]: where request c is
  id,        \* id[c]: the instance id of request c
  listed,    \* listed[c]: the markers countActiveWorkflows of c has listed
  run,       \* run[i]: the instance i
  tries,     \* tries[i]: the attempts of its step that have failed
  markers,   \* the ids with a key workflow_active:v1
  tracked,   \* history: the requests that have put their marker
  earlier,   \* history: those of them when c listed the markers
  expired    \* history: the ids whose marker expired

Live == {"queued", "running", "waiting", "returning", "throwing"}

-----------------------------------------------------------------------------

(***************************************************************************)
(* The limit is checked before the instance is created and tracked, so     *)
(* requests that overlap exceed it.  But one that passed the check never   *)
(* adds to a full set of instances that were tracked before: of those,     *)
(* fewer than the limit are alive, unless a marker expired too early.      *)
(***************************************************************************)
LimitHoldsWithoutOverlap ==
  \A c \in Creates :
    step[c] \in {"create", "track", "status", "ok"} =>
      Cardinality({i \in Ids : /\ run[i] \in Live /\ i \notin expired
                               /\ \E d \in earlier[c] : id[d] = i}) < ActiveLimit

(***************************************************************************)
(* A tracked instance keeps its marker through every attempt of its step,  *)
(* until it finishes or the marker expires.                                *)
(***************************************************************************)
TrackedRunHoldsMarker ==
  \A c \in tracked : run[id[c]] \in Live /\ id[c] \notin expired => id[c] \in markers

(***************************************************************************)
(* However requests with one instance id are retried, one of them at most  *)
(* is told that it created the instance.                                   *)
(***************************************************************************)
OneAnswerPerInstance ==
  \A c, d \in Creates :
    step[c] = "ok" /\ step[d] = "ok" /\ id[c] = id[d] => c = d
=============================================================================
