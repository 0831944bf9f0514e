------------------------------ MODULE MCAppCalls ------------------------------
(***************************************************************************)
(* Instances of AppCalls for TLC: an app calls another of another owner,   *)
(* and one of the two is redeployed.                                       *)
(***************************************************************************)
EXTENDS AppCalls

CONSTANTS from, to, d1, d2, d3, c1, c2, one, other

Owners == [a \in Apps |-> a]

Backend(app, path, allows) ==
  [app |-> app, worker |-> TRUE, path |-> path, allows |-> allows]
Site(app) == [app |-> app, worker |-> FALSE, path |-> None, allows |-> {}]

Redeploys ==
  {Backend(from, None, {}), Site(from), Site(to),
   Backend(to, one, {}), Backend(to, other, {from}), Backend(to, None, {from})}

SomeHistories ==
  {[past |-> past, plan |-> [d \in Deploys |->
      CASE d = d1 -> Backend(from, None, {})
        [] d = d2 -> Backend(to, one, {from})
        [] OTHER  -> again]] :
     past \in {{d1, d2}, {d1}}, again \in Redeploys}

By(kind, d, claim) == [kind |-> kind, by |-> d, claim |-> claim, target |-> to]

\* Two messages to one queue, or one call with any headers, by either deploy.
SomeScenarios ==
  {[c \in Calls |-> By("queue", d1, None)]}
  \cup {[c \in Calls |-> IF c = c1 THEN By(kind, d, claim)
                         ELSE By("none", d, None)] :
          kind \in {"rpc", "queue", "ai"}, d \in {d1, d3},
          claim \in {from, to, None}}

(***************************************************************************)
(* The initial states that differ in what they answer.  A redeploy of the  *)
(* caller matters to its credentials; one of the target to what is called  *)
(* or consumed, and for that the calls of d1 with no header suffice, and   *)
(* one redeploy, to another path, for two messages and where the target is *)
(* deployed for the first time.                                            *)
(***************************************************************************)
TwoMessages == ask[c2].kind # "none"

Matters ==
  IF plan[d3].app = from
  THEN record[to] # None /\ ~ TwoMessages
  ELSE /\ ask[c1].by = d1 /\ ask[c1].claim = None /\ ask[c1].kind # "ai"
       /\ TwoMessages => record[to] # None
       /\ TwoMessages \/ record[to] = None => plan[d3].path = other

(***************************************************************************)
(* What is deployed matters to a call or message until it has ended, a     *)
(* suspension to a call, and to no deploy, nor a deploy under way to it.   *)
(* Two messages meet only once they are queued: they are sent one after    *)
(* the other, and then, while the target is redeployed, delivered.         *)
(***************************************************************************)
Relevant ==
  IF TwoMessages
  THEN /\ UNCHANGED toggles
       /\ pc[c1] # "ended" => UNCHANGED pc[c2]
       /\ pc[c2] # "ended" => UNCHANGED <<platform, step>>
  ELSE /\ platform' # platform =>
            pc[c1] # "ended" \/ message[c1] \in {"queued", "flying"}
       /\ toggles' # toggles =>
            /\ pc[c1] # "ended"
            /\ \A d \in Deploys : stage[d] \in {"new", "done"}
       /\ toggles > 0 => UNCHANGED <<stage, puts>>

RelevantInit == Init /\ Matters

RelevantSpec == RelevantInit /\ [][Next /\ Relevant]_vars /\ Fairness
=============================================================================
