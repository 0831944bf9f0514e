------------------------- MODULE WorkflowAdmission -------------------------
(***************************************************************************)
(* Workflow instances of one app: api/workflows.ts lists the active        *)
(* markers of the app in KV (workflowLimits.ts), refuses at the limit,     *)
(* creates the instance and then puts its marker; the instance            *)
(* (runtime/workflowDelivery.ts) dispatches the consumer in one retried    *)
(* step and deletes the marker when it finishes.  Markers also expire.     *)
(*                                                                         *)
(* The instances run on Cloudflare Workflows: an id is used once, the step *)
(* is retried a fixed number of times, and an attempt ends, if only by its *)
(* timeout.  A call that fails may have taken effect, and a request whose  *)
(* isolate dies is one whose call failed.  The list is one page (a page    *)
(* holds a thousand keys, the limit is fifty).                             *)
(***************************************************************************)
EXTENDS WorkflowInstances

vars == <<step, id, listed, run, tries, markers, tracked, earlier, expired>>

Steps == {"idle", "check", "create", "track", "status", "ok", "refused", "error"}
Cleared == {"complete", "errored"}
Ended == Cleared \cup {"uncleared"}

Init ==
  /\ step = [c \in Creates |-> "idle"]
  /\ id \in [Creates -> Ids]
  /\ listed = [c \in Creates |-> {}]
  /\ run = [i \in Ids |-> "none"]
  /\ tries = [i \in Ids |-> 0]
  /\ markers = {}
  /\ tracked = {}
  /\ earlier = [c \in Creates |-> {}]
  /\ expired = {}

-----------------------------------------------------------------------------
(* handleWorkflowCreate. *)

Goto(c, next) == step' = [step EXCEPT ![c] = next]

\* The caller is not authorized, suspended or over its usage limit.
RefuseCaller(c) ==
  /\ step[c] = "idle"
  /\ Goto(c, "refused")
  /\ UNCHANGED <<id, listed, run, tries, markers, tracked, earlier, expired>>

\* countActiveWorkflows
ListActive(c) ==
  /\ step[c] = "idle"
  /\ Goto(c, "check")
  /\ listed' = [listed EXCEPT ![c] = markers]
  /\ earlier' = [earlier EXCEPT ![c] = tracked]
  /\ UNCHANGED <<id, run, tries, markers, tracked, expired>>

\* Mutant: one instance more than the limit passes.
EnforceActiveLimitOneMore(c) ==
  /\ step[c] = "check"
  /\ Goto(c, IF Cardinality(listed[c]) <= ActiveLimit THEN "create" ELSE "refused")
  /\ UNCHANGED <<id, listed, run, tries, markers, tracked, earlier, expired>>

\* enforceActiveWorkflowLimit compares what was counted with the limit.
EnforceActiveLimit(c) ==
  /\ step[c] = "check"
  /\ Goto(c, IF Cardinality(listed[c]) < ActiveLimit THEN "create" ELSE "refused")
  /\ UNCHANGED <<id, listed, run, tries, markers, tracked, earlier, expired>>

\* Mutant: an instance that exists is taken for the new one.
CreateOrGet(c) ==
  /\ step[c] = "create"
  /\ run' = [run EXCEPT ![id[c]] = IF @ = "none" THEN "queued" ELSE @]
  /\ Goto(c, "track")
  /\ UNCHANGED <<id, listed, tries, markers, tracked, earlier, expired>>

Create(c) ==
  /\ step[c] = "create"
  /\ run[id[c]] = "none"
  /\ run' = [run EXCEPT ![id[c]] = "queued"]
  /\ Goto(c, "track")
  /\ UNCHANGED <<id, listed, tries, markers, tracked, earlier, expired>>

\* The id exists, or the call fails and may have created the instance.
CreateFails(c) ==
  /\ step[c] = "create"
  /\ \/ UNCHANGED run
     \/ run[id[c]] = "none" /\ run' = [run EXCEPT ![id[c]] = "queued"]
  /\ Goto(c, "error")
  /\ UNCHANGED <<id, listed, tries, markers, tracked, earlier, expired>>

\* trackActiveWorkflow
Track(c) ==
  /\ step[c] = "track"
  /\ markers' = markers \cup {id[c]}
  /\ tracked' = tracked \cup {c}
  /\ Goto(c, "status")
  /\ UNCHANGED <<id, listed, run, tries, earlier, expired>>

\* The put of the marker fails and may have taken effect.
TrackFails(c) ==
  /\ step[c] = "track"
  /\ markers' \in {markers, markers \cup {id[c]}}
  /\ Goto(c, "error")
  /\ UNCHANGED <<id, listed, run, tries, tracked, earlier, expired>>

\* instance.status() is answered, and then the request.
Status(c) ==
  /\ step[c] = "status"
  /\ Goto(c, "ok")
  /\ UNCHANGED <<id, listed, run, tries, markers, tracked, earlier, expired>>

\* The list of the markers or the status fails.
ReadFails(c) ==
  /\ step[c] \in {"idle", "status"}
  /\ Goto(c, "error")
  /\ UNCHANGED <<id, listed, run, tries, markers, tracked, earlier, expired>>

HandleCreate(c) == \/ RefuseCaller(c) \/ ListActive(c) \/ EnforceActiveLimit(c)
                   \/ Create(c) \/ CreateFails(c) \/ Track(c) \/ TrackFails(c)
                   \/ Status(c) \/ ReadFails(c)

-----------------------------------------------------------------------------
(* W7SWorkflow.run of instance i. *)

Becomes(i, next) == run' = [run EXCEPT ![i] = next]

\* The platform starts the run, or the next attempt of its step.
Attempt(i) ==
  /\ run[i] \in {"queued", "waiting"}
  /\ Becomes(i, "running")
  /\ UNCHANGED <<step, id, listed, tries, markers, tracked, earlier, expired>>

\* The consumer answers 2xx, or a usage limit ends the step with a 429.
StepReturns(i) ==
  /\ run[i] = "running"
  /\ Becomes(i, "returning")
  /\ UNCHANGED <<step, id, listed, tries, markers, tracked, earlier, expired>>

\* Mutant: an attempt cut off by its timeout is not counted.
StepFailsUncounted(i) ==
  /\ run[i] = "running"
  /\ Becomes(i, "waiting")
  /\ UNCHANGED <<step, id, listed, tries, markers, tracked, earlier, expired>>

\* Mutant: every attempt clears the marker when it ends.
StepFailsAndClears(i) ==
  /\ run[i] = "running"
  /\ tries' = [tries EXCEPT ![i] = @ + 1]
  /\ Becomes(i, IF tries'[i] = MaxAttempts THEN "throwing" ELSE "waiting")
  /\ markers' = markers \ {i}
  /\ UNCHANGED <<step, id, listed, tracked, earlier, expired>>

\* The attempt throws, times out or is answered otherwise; the last one throws.
StepFails(i) ==
  /\ run[i] = "running"
  /\ tries' = [tries EXCEPT ![i] = @ + 1]
  /\ Becomes(i, IF tries'[i] = MaxAttempts THEN "throwing" ELSE "waiting")
  /\ UNCHANGED <<step, id, listed, markers, tracked, earlier, expired>>

\* The finally block: clearActiveWorkflow, then the step's result or error.
Clear(i) ==
  /\ run[i] \in {"returning", "throwing"}
  /\ markers' = markers \ {i}
  /\ Becomes(i, IF run[i] = "returning" THEN "complete" ELSE "errored")
  /\ UNCHANGED <<step, id, listed, tries, tracked, earlier, expired>>

\* The delete fails and may have taken effect: its error is the run's.
ClearFails(i) ==
  /\ run[i] \in {"returning", "throwing"}
  /\ markers' \in {markers, markers \ {i}}
  /\ Becomes(i, "uncleared")
  /\ UNCHANGED <<step, id, listed, tries, tracked, earlier, expired>>

Run(i) == \/ Attempt(i) \/ StepReturns(i) \/ StepFails(i)
          \/ Clear(i) \/ ClearFails(i)

\* The marker's TTL has passed, which may be shorter than the run.
Expire(i) ==
  /\ i \in markers
  /\ markers' = markers \ {i}
  /\ expired' = expired \cup {i}
  /\ UNCHANGED <<step, id, listed, run, tries, tracked, earlier>>

Next == \/ \E c \in Creates : HandleCreate(c)
        \/ \E i \in Ids : Run(i) \/ Expire(i)

Spec == Init /\ [][Next]_vars

\* The platform goes on with every instance.
FairSpec == Spec /\ \A i \in Ids : WF_vars(Run(i))

-----------------------------------------------------------------------------

TypeOK ==
  /\ step \in [Creates -> Steps]
  /\ id \in [Creates -> Ids]
  /\ listed \in [Creates -> SUBSET Ids]
  /\ run \in [Ids -> {"none"} \cup Live \cup Ended]
  /\ tries \in [Ids -> 0..MaxAttempts]
  /\ markers \subseteq Ids
  /\ tracked \subseteq Creates
  /\ earlier \in [Creates -> SUBSET Creates]
  /\ expired \subseteq Ids

(***************************************************************************)
(* Every instance that is created ends, whatever its consumer answers.     *)
(***************************************************************************)
EveryRunEnds == \A i \in Ids : (run[i] = "queued") ~> (run[i] \in Ended)
=============================================================================
