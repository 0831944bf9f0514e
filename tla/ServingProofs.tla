---------------------------- MODULE ServingProofs ----------------------------
(***************************************************************************)
(* Proofs about what requests are served from.  First the answers of       *)
(* RuntimeRouting, for all apps, builds, routes and requests and any       *)
(* number of changes.                                                      *)
(*                                                                         *)
(* Then the metadata that the loaders cache, for every set of keys,        *)
(* isolates and calls, every Ttl and every Latency: the cached loaders of  *)
(* storage/deployments.ts never answer a value more than StalenessBound    *)
(* after it was overwritten.  AgesBounded is the inductive invariant: the  *)
(* age of a copy depends only on where it is.                              *)
(***************************************************************************)
EXTENDS MetadataCache, AnsweredRequests, FiniteSetTheorems, SequenceTheorems, TLAPS

-----------------------------------------------------------------------------
(***************************************************************************)
(* The steps of requests, and of what changes meanwhile.  The state and    *)
(* the promises are those of AnsweredRequests, and the instance's too.     *)
(***************************************************************************)
R == INSTANCE RuntimeRouting

\* What is assumed of the constants, in the instance's own words.
LEMMA BuildsAre ==
  /\ Builds \subseteq R!Build
  /\ \A b \in Builds : b.exact \/ b.index => b.site
  BY BuildsAssumption DEF Build, R!Build

\* The same of what requests ask for.
LEMMA AsksAre ==
  /\ Asks \subseteq R!Ask
  /\ \A asked \in Asks : asked.mail => asked.custom /\ ~ asked.get
  /\ \A asked \in Asks : ~ asked.custom => asked.candidates # <<>> /\ asked.envs # <<>>
  BY AsksAssumption DEF Ask, R!Ask, Candidate, R!Candidate

\* The same of routes.
LEMMA RoutesAre == RouteLists \subseteq Seq(R!Route)
  BY RoutesAssumption DEF Route, R!Route

\* The promises read the same in the instance.
LEMMA PromisesAlike ==
  /\ R!EffectsAreAnswered => EffectsAreAnswered
  /\ R!MailIsTakenOrRejected => MailIsTakenOrRejected
  /\ R!DomainBelongsToItsApps => DomainBelongsToItsApps
  /\ R!AnswersWereCurrent => AnswersWereCurrent
<1> USE DEF Answered, R!Answered
<1>1. R!EffectsAreAnswered => EffectsAreAnswered
  BY DEF EffectsAreAnswered, R!EffectsAreAnswered
<1>2. R!MailIsTakenOrRejected => MailIsTakenOrRejected
  BY DEF MailIsTakenOrRejected, R!MailIsTakenOrRejected
<1>3. R!DomainBelongsToItsApps => DomainBelongsToItsApps
  BY DEF DomainBelongsToItsApps, R!DomainBelongsToItsApps
<1>4. R!AnswersWereCurrent => AnswersWereCurrent
  BY DEF AnswersWereCurrent, R!AnswersWereCurrent
<1> QED
  BY <1>1, <1>2, <1>3, <1>4

(***************************************************************************)
(* Where a request is that has settled on a build.                         *)
(***************************************************************************)
Serving == {"suspension", "first", "exact", "worker", "fallback"}

(***************************************************************************)
(* A request that is to run a Worker or to serve a site has found a build, *)
(* and what is to be looked up has an environment.                         *)
(***************************************************************************)
FoundBuilds ==
  \A r \in Requests :
    /\ pc[r] \in Serving \cup {"gatewayRuns"} => found[r].build \in Builds
    /\ \A i \in 1..Len(queue[r]) : queue[r][i].envs # <<>>

RequestInv == R!TypeOK /\ FoundBuilds

(***************************************************************************)
(* A function on the numbers up to n is a sequence of that length.         *)
(***************************************************************************)
LEMMA SequenceOf ==
  ASSUME NEW n \in Nat, NEW S, NEW f \in [1..n -> S]
  PROVE  f \in Seq(S) /\ Len(f) = n
  BY SeqDef

(***************************************************************************)
(* A sequence is empty when its length is 0.                               *)
(***************************************************************************)
LEMMA EmptyIsShort ==
  ASSUME NEW S, NEW s \in Seq(S)
  PROVE  /\ Len(s) \in Nat
         /\ s # <<>> <=> Len(s) > 0
<1>1. Len(s) \in Nat /\ (s # <<>> => Len(s) \in Nat \ {0})
  BY EmptySeq, LenProperties
<1>2. s = <<>> => Len(s) = 0
  BY EmptySeq
<1> QED
  BY <1>1, <1>2

(***************************************************************************)
(* More than one element: something remains after the first.               *)
(***************************************************************************)
LEMMA TailIsNotEmpty ==
  ASSUME NEW S, NEW s \in Seq(S), s # <<>>, Len(s) # 1
  PROVE  Tail(s) \in Seq(S) /\ Tail(s) # <<>>
<1>1. Len(s) \in Nat /\ Len(s) > 0
  BY EmptyIsShort
<1>2. Tail(s) \in Seq(S) /\ Len(Tail(s)) = Len(s) - 1
  BY HeadTailProperties
<1>3. ASSUME NEW n \in Nat, NEW m, n > 0, n # 1, m = n - 1
      PROVE  m > 0
  BY <1>3
<1>4. Len(Tail(s)) > 0
  BY <1>1, <1>2, <1>3
<1> QED
  BY <1>2, <1>4, EmptyIsShort

(***************************************************************************)
(* What is to be looked up is one lookup per route or candidate.           *)
(***************************************************************************)
LEMMA LookupsType ==
  ASSUME NEW asked \in Asks, NEW list \in RouteLists
  PROVE  /\ R!Lookups(asked, list) \in Seq(R!Lookup)
         /\ \A i \in 1..Len(R!Lookups(asked, list)) : R!Lookups(asked, list)[i].envs # <<>>
         /\ Len(R!Lookups(asked, list)) =
              IF asked.custom THEN Len(list) ELSE Len(asked.candidates)
         /\ asked.custom => \A i \in 1..Len(list) : R!Lookups(asked, list)[i] =
              [app |-> list[i].app, envs |-> <<list[i].env>>, redirects |-> FALSE]
         /\ ~ asked.custom => \A i \in 1..Len(asked.candidates) :
              /\ R!Lookups(asked, list)[i].app = asked.candidates[i].app
              /\ R!Lookups(asked, list)[i].envs = asked.envs
<1> DEFINE looks == R!Lookups(asked, list)
           count == IF asked.custom THEN Len(list) ELSE Len(asked.candidates)
<1>1. /\ asked \in R!Ask /\ list \in Seq(R!Route)
      /\ asked.candidates \in Seq(R!Candidate) /\ asked.envs \in Seq(Envs)
      /\ asked.custom \in BOOLEAN
      /\ ~ asked.custom => asked.envs # <<>>
  BY AsksAre, RoutesAre DEF R!Ask
<1>2. count \in Nat
  BY <1>1
<1>3. ASSUME NEW i \in 1..count
      PROVE  /\ looks[i] \in R!Lookup
             /\ looks[i].envs # <<>>
  <2>1. CASE asked.custom
    <3>1. list[i] \in R!Route
      BY <1>1, <2>1, ElementOfSeq
    <3>2. /\ list[i].app \in Apps /\ list[i].env \in Envs
          /\ <<list[i].env>> \in Seq(Envs) /\ <<list[i].env>> # <<>>
      BY <3>1 DEF R!Route
    <3>3. looks[i] = [app |-> list[i].app, envs |-> <<list[i].env>>, redirects |-> FALSE]
      BY <2>1 DEF R!Lookups
    <3> QED
      BY <3>2, <3>3 DEF R!Lookup
  <2>2. CASE ~ asked.custom
    <3>1. asked.candidates[i] \in R!Candidate
      BY <1>1, <2>2, ElementOfSeq
    <3>2. looks[i] = [app |-> asked.candidates[i].app, envs |-> asked.envs,
                      redirects |-> asked.candidates[i].prefix /\ asked.candidates[i].bare]
      BY <2>2 DEF R!Lookups
    <3>3. (asked.candidates[i].prefix /\ asked.candidates[i].bare) \in BOOLEAN
      OBVIOUS
    <3> QED
      BY <1>1, <2>2, <3>1, <3>2, <3>3 DEF R!Lookup, R!Candidate
  <2> QED
    BY <2>1, <2>2
<1>4. looks \in [1..count -> R!Lookup]
  <2>1. looks = [i \in 1..count |-> looks[i]]
    BY <1>1 DEF R!Lookups
  <2> HIDE DEF looks, count
  <2> QED
    BY <1>3, <2>1
<1>5. looks \in Seq(R!Lookup) /\ Len(looks) = count
  <2> HIDE DEF looks, count
  <2> QED
    BY <1>2, <1>4, SequenceOf
<1> QED
  BY <1>1, <1>3, <1>5 DEF R!Lookups

(***************************************************************************)
(* What remains is without the first environment of the first lookup, or   *)
(* without that lookup when it was its last.                               *)
(***************************************************************************)
LEMMA RemainingEffect ==
  ASSUME NEW looks \in Seq(R!Lookup), looks # <<>>,
         \A i \in 1..Len(looks) : looks[i].envs # <<>>
  PROVE  /\ R!Remaining(looks) \in Seq(R!Lookup)
         /\ \A i \in 1..Len(R!Remaining(looks)) : R!Remaining(looks)[i].envs # <<>>
         /\ Len(looks[1].envs) = 1 => R!Remaining(looks) = Tail(looks)
         /\ Len(looks[1].envs) # 1 =>
              /\ Len(R!Remaining(looks)) = Len(looks)
              /\ R!Remaining(looks)[1].app = looks[1].app
              /\ R!Remaining(looks)[1].redirects = looks[1].redirects
              /\ R!Remaining(looks)[1].envs = Tail(looks[1].envs)
              /\ \A i \in 2..Len(looks) : R!Remaining(looks)[i] = looks[i]
<1>1. /\ Len(looks) \in Nat \ {0} /\ 1 \in 1..Len(looks)
      /\ looks[1] \in R!Lookup /\ looks[1].envs # <<>>
  BY EmptySeq, ElementOfSeq, LenProperties
<1>2. looks[1].envs \in Seq(Envs)
  BY <1>1 DEF R!Lookup
<1>3. CASE Len(looks[1].envs) = 1
  <2>1. R!Remaining(looks) = Tail(looks)
    BY <1>3 DEF R!Remaining
  <2>2. /\ Tail(looks) \in Seq(R!Lookup)
        /\ Len(Tail(looks)) = Len(looks) - 1
        /\ \A i \in 1..Len(Tail(looks)) : Tail(looks)[i] = looks[i + 1]
    BY HeadTailProperties
  <2> QED
    BY <1>1, <1>3, <2>1, <2>2
<1>4. CASE Len(looks[1].envs) # 1
  <2> DEFINE first == [looks[1] EXCEPT !.envs = Tail(@)]
  <2>1. R!Remaining(looks) = [looks EXCEPT ![1] = first]
    BY <1>4 DEF R!Remaining
  <2>2. Tail(looks[1].envs) \in Seq(Envs) /\ Len(Tail(looks[1].envs)) = Len(looks[1].envs) - 1
    BY <1>1, <1>2, HeadTailProperties
  <2>3. Tail(looks[1].envs) # <<>>
    BY <1>1, <1>2, <1>4, TailIsNotEmpty
  <2>4. /\ first \in R!Lookup /\ first.envs = Tail(looks[1].envs)
        /\ first.app = looks[1].app /\ first.redirects = looks[1].redirects
    BY <1>1, <2>2 DEF R!Lookup
  <2> HIDE DEF first
  <2>5. /\ R!Remaining(looks) \in Seq(R!Lookup)
        /\ Len(R!Remaining(looks)) = Len(looks)
        /\ \A i \in 1..Len(looks) :
             R!Remaining(looks)[i] = IF i = 1 THEN first ELSE looks[i]
    BY <1>1, <2>1, <2>4, ExceptSeq
  <2>6. \A i \in 1..Len(R!Remaining(looks)) : R!Remaining(looks)[i].envs # <<>>
    BY <2>3, <2>4, <2>5
  <2>7. R!Remaining(looks)[1] = first
    BY <1>1, <2>5
  <2>8. \A i \in 2..Len(looks) : R!Remaining(looks)[i] = looks[i]
    BY <1>1, <2>5
  <2> QED
    BY <1>4, <2>4, <2>5, <2>6, <2>7, <2>8
<1> QED
  BY <1>3, <1>4

(***************************************************************************)
(* The initial states have the types.                                      *)
(***************************************************************************)
LEMMA RequestsInitType == R!Init => RequestInv
<1> SUFFICES ASSUME R!Init PROVE RequestInv
  OBVIOUS
<1>1. R!Now.builds \subseteq R!Targets \X (Builds \cup {None})
  BY RegistriesAssumption DEF R!Init, R!Now, R!Targets
<1>2. /\ R!Now.suspended \subseteq SUBSET R!Targets
      /\ R!Now.routes \subseteq RouteLists
  BY DEF R!Init, R!Now
<1>3. R!Now = [builds |-> R!Now.builds, suspended |-> R!Now.suspended, routes |-> R!Now.routes]
  BY DEF R!Now
<1>4. R!Now \in R!Sights
  BY <1>1, <1>2, <1>3 DEF R!Sights
<1>5. seen \in [Requests -> R!Sights]
  BY <1>4 DEF R!Init
<1>6. /\ queue \in [Requests -> Seq(R!Lookup)]
      /\ ran \in [Requests -> Seq(Builds)]
      /\ \A r \in Requests : Len(queue[r]) = 0
  BY EmptySeq DEF R!Init
<1>7. FoundBuilds
  BY <1>6 DEF R!Init, FoundBuilds, Serving
<1>8. changes \in 0..MaxChanges
  BY MaxChangesAssumption DEF R!Init
<1>9. deployed \in [R!Targets -> Builds \cup {None}]
  BY RegistriesAssumption DEF R!Init, R!Targets
<1> QED
  BY <1>5, <1>6, <1>7, <1>8, <1>9
     DEF R!Init, RequestInv, R!TypeOK, R!Places, R!Findings, R!Sources

(***************************************************************************)
(* What there is at any time is of the type of what has been seen.         *)
(***************************************************************************)
LEMMA NowType ==
  ASSUME deployed \in [R!Targets -> Builds \cup {None}],
         routes \in RouteLists, suspended \subseteq R!Targets
  PROVE  /\ R!Now \in R!Sights
         /\ R!Now.builds \subseteq R!Targets \X (Builds \cup {None})
         /\ R!Now.suspended \subseteq SUBSET R!Targets
         /\ R!Now.routes \subseteq RouteLists
<1>1. R!Now.builds \subseteq R!Targets \X (Builds \cup {None})
  BY DEF R!Now
<1>2. /\ R!Now.suspended \subseteq SUBSET R!Targets
      /\ R!Now.routes \subseteq RouteLists
  BY DEF R!Now
<1>3. R!Now = [builds |-> R!Now.builds, suspended |-> R!Now.suspended, routes |-> R!Now.routes]
  BY DEF R!Now
<1> QED
  BY <1>1, <1>2, <1>3 DEF R!Sights

(***************************************************************************)
(* A step of a request changes what is the request's own.                  *)
(***************************************************************************)
Sole(f, g, r) == g = [f EXCEPT ![r] = g[r]]

StepOf(r) ==
  /\ UNCHANGED <<R!world, ask>>
  /\ Sole(pc, pc', r) /\ Sole(inner, inner', r) /\ Sole(queue, queue', r)
  /\ Sole(found, found', r) /\ Sole(ran, ran', r) /\ Sole(source, source', r)
  /\ Sole(seen, seen', r)

\* What belongs to other requests stays as it is.
LEMMA OthersAlone ==
  ASSUME R!TypeOK, NEW r \in Requests, R!Step(r)
  PROVE  StepOf(r)
<1> USE DEF StepOf, Sole, R!TypeOK
<1>1. CASE R!Begin(r)
  BY <1>1 DEF R!Begin, R!Goto
<1>2. CASE R!LoadGateway(r)
  BY <1>2 DEF R!LoadGateway, R!Goto, R!Reject
<1>3. CASE R!RunGateway(r)
  BY <1>3 DEF R!RunGateway, R!Run, R!Goto, R!Reject
<1>4. CASE R!Verdict(r)
  BY <1>4 DEF R!Verdict, R!Goto
<1>5. CASE R!Middleware(r)
  BY <1>5 DEF R!Middleware, R!Goto
<1>6. CASE R!Handlers(r)
  BY <1>6 DEF R!Handlers, R!Reply, R!Goto
<1>7. CASE R!Resolve(r)
  BY <1>7 DEF R!Resolve, R!Unresolved, R!Reply, R!Goto
<1>8. CASE R!Load(r)
  BY <1>8 DEF R!Load, R!Reply, R!Goto
<1>9. CASE R!Suspension(r)
  BY <1>9 DEF R!Suspension, R!Reply, R!Goto
<1>10. CASE R!WorkerFirst(r)
  BY <1>10 DEF R!WorkerFirst, R!Run, R!Reply, R!Goto
<1>11. CASE R!Exact(r)
  BY <1>11 DEF R!Exact, R!Reply, R!Goto
<1>12. CASE R!Worker(r)
  BY <1>12 DEF R!Worker, R!Run, R!Reply, R!Goto
<1>13. CASE R!Fallback(r)
  BY <1>13 DEF R!Fallback, R!Unresolved, R!Reply, R!Goto
<1> QED
  BY <1>1, <1>2, <1>3, <1>4, <1>5, <1>6, <1>7, <1>8, <1>9, <1>10, <1>11, <1>12, <1>13
     DEF R!Step

(***************************************************************************)
(* It keeps the types when it sets them to values of the types.            *)
(***************************************************************************)
LEMMA StepOfType ==
  ASSUME R!TypeOK, NEW r \in Requests, StepOf(r),
         pc'[r] \in R!Places, inner'[r] \in BOOLEAN, queue'[r] \in Seq(R!Lookup),
         found'[r] \in R!Findings, ran'[r] \in Seq(Builds), source'[r] \in R!Sources,
         seen'[r] \in R!Sights
  PROVE  R!TypeOK'
  BY DEF StepOf, Sole, R!TypeOK, R!world

(***************************************************************************)
(* A step of a request keeps the types, in which it settles on builds.     *)
(***************************************************************************)
OwnType(r) ==
  /\ pc[r] \in R!Places /\ inner[r] \in BOOLEAN /\ queue[r] \in Seq(R!Lookup)
  /\ found[r] \in R!Findings /\ ran[r] \in Seq(Builds) /\ source[r] \in R!Sources
  /\ seen[r] \in R!Sights
  /\ pc[r] \in Serving \cup {"gatewayRuns"} => found[r].build \in Builds
  /\ \A i \in 1..Len(queue[r]) : queue[r][i].envs # <<>>

\* So the types hold after a step when they hold of the request that took it.
LEMMA OwnTypeSuffices ==
  ASSUME RequestInv, NEW r \in Requests, StepOf(r), OwnType(r)'
  PROVE  RequestInv'
<1>1. R!TypeOK'
  BY StepOfType DEF RequestInv, OwnType
<1>2. ASSUME NEW s \in Requests, s # r
      PROVE  pc'[s] = pc[s] /\ found'[s] = found[s] /\ queue'[s] = queue[s]
  BY <1>2 DEF StepOf, Sole, RequestInv, R!TypeOK
<1>3. FoundBuilds'
  BY <1>2 DEF FoundBuilds, OwnType, RequestInv
<1> QED
  BY <1>1, <1>3 DEF RequestInv

\* The builds whose Workers have run are builds.
LEMMA RunsType ==
  ASSUME NEW r \in Requests, OwnType(r), found[r].build \in Builds
  PROVE  Append(ran[r], found[r].build) \in Seq(Builds)
<1>1. ran[r] \in Seq(Builds)
  BY DEF OwnType
<1> QED
  BY <1>1, AppendProperties

\* Action by action.
LEMMA StepOwnType ==
  ASSUME RequestInv, NEW r \in Requests, R!Step(r)
  PROVE  OwnType(r)'
<1> DEFINE Goal == OwnType(r)'
<1>0. OwnType(r) /\ R!TypeOK /\ deployed \in [R!Targets -> Builds \cup {None}]
  BY DEF RequestInv, R!TypeOK, FoundBuilds, OwnType
<1>1. ASSUME R!Begin(r) PROVE Goal
  <2>1. R!Now \in R!Sights
    BY NowType DEF RequestInv, R!TypeOK
  <2>2. /\ pc'[r] \in {"gateway", "middleware", "handlers"}
        /\ seen'[r] = R!Now
        /\ UNCHANGED <<inner, queue, found, ran, source>>
    BY <1>0, <1>1 DEF R!Begin, R!Goto, R!TypeOK
  <2> QED
    BY <1>0, <2>1, <2>2 DEF OwnType, R!Places, Serving
<1>2. ASSUME R!LoadGateway(r) PROVE Goal
  <2>1. /\ Gateway \in R!Targets
        /\ Gateway[1] \in Apps /\ Gateway[2] \in Envs
    BY GatewayAssumption DEF R!Targets
  <2>2. R!HasWorker(deployed[Gateway]) => deployed[Gateway] \in Builds
    BY <1>0, <2>1 DEF R!HasWorker
  <2> DEFINE gateway == [app |-> Gateway[1], env |-> Gateway[2],
                         build |-> deployed[Gateway], redirects |-> FALSE]
  <2>3. \/ /\ pc'[r] = "answered" /\ source'[r] = "rejected"
           /\ UNCHANGED found
        \/ /\ deployed[Gateway] \in Builds
           /\ found'[r] = gateway
           /\ pc'[r] = "gatewayRuns" /\ UNCHANGED source
    BY <1>0, <1>2, <2>2 DEF R!LoadGateway, R!Goto, R!Reject, R!TypeOK
  <2>4. UNCHANGED <<inner, queue, ran, seen>>
    BY <1>2 DEF R!LoadGateway
  <2>5. \/ UNCHANGED found /\ pc'[r] \notin Serving \cup {"gatewayRuns"}
        \/ found'[r] \in R!Findings /\ found'[r].build \in Builds
    <3>1. deployed[Gateway] \in Builds =>
            gateway \in R!Findings /\ gateway.build = deployed[Gateway]
      BY <2>1 DEF R!Findings
    <3> HIDE DEF gateway
    <3> QED
      BY <2>3, <3>1 DEF Serving
  <2>6. pc'[r] \in R!Places /\ source'[r] \in R!Sources
    BY <1>0, <2>3 DEF OwnType, R!Places, R!Sources
  <2> QED
    BY <1>0, <2>4, <2>5, <2>6 DEF OwnType
<1>3. ASSUME R!RunGateway(r) PROVE Goal
  <2>1. found[r].build \in Builds
    BY <1>0, <1>3 DEF R!RunGateway, OwnType
  <2>2. /\ ran'[r] = Append(ran[r], found[r].build)
        /\ inner'[r] = TRUE
        /\ pc'[r] \in {"answered", "resolve"}
        /\ source'[r] \in {"rejected", source[r]}
        /\ UNCHANGED <<queue, found, seen>>
    BY <1>0, <1>3 DEF R!RunGateway, R!Run, R!Goto, R!Reject, R!TypeOK
  <2>a. Append(ran[r], found[r].build) \in Seq(Builds) /\ ran[r] \in Seq(Builds)
    BY <1>0, <2>1, RunsType DEF OwnType
  <2>3. ran'[r] \in Seq(Builds)
    BY <2>a, <2>2
  <2> QED
    BY <1>0, <2>2, <2>3 DEF OwnType, R!Places, R!Sources, Serving
<1>4. ASSUME R!Verdict(r) \/ R!Middleware(r) \/ R!Handlers(r) PROVE Goal
  <2>1. /\ pc'[r] \in {"answered", "verdict", "resolve", "handlers"}
        /\ source'[r] \in {"accepted", "rejected", "handler", source[r]}
        /\ inner'[r] \in BOOLEAN
        /\ UNCHANGED <<queue, found, ran, seen>>
    BY <1>0, <1>4 DEF R!Verdict, R!Middleware, R!Handlers, R!Reply, R!Goto, R!TypeOK
  <2> QED
    BY <1>0, <2>1 DEF OwnType, R!Places, R!Sources, Serving
<1>5. ASSUME R!Resolve(r) PROVE Goal
  <2>1. ask[r] \in Asks /\ routes \in RouteLists
    BY DEF RequestInv, R!TypeOK
  <2>2. /\ R!Lookups(ask[r], routes) \in Seq(R!Lookup)
        /\ \A i \in 1..Len(R!Lookups(ask[r], routes)) :
             R!Lookups(ask[r], routes)[i].envs # <<>>
    BY <2>1, LookupsType
  <2>3. /\ pc'[r] \in {"answered", "verdict", "load"}
        /\ source'[r] \in {"notFound", "platform", source[r]}
        /\ queue'[r] = queue[r] \/ queue'[r] = R!Lookups(ask[r], routes)
        /\ UNCHANGED <<inner, found, ran, seen>>
    BY <1>0, <1>5 DEF R!Resolve, R!Unresolved, R!Reply, R!Goto, R!TypeOK
  <2> QED
    BY <1>0, <2>2, <2>3 DEF OwnType, R!Places, R!Sources, Serving
<1>6. ASSUME R!Load(r) PROVE Goal
  <2> DEFINE look == queue[r][1]
             env == look.envs[1]
             build == deployed[<<look.app, env>>]
  <2>0. UNCHANGED <<inner, ran, seen>>
    BY <1>6 DEF R!Load
  <2>1. CASE queue[r] = <<>>
    <3>1. /\ pc'[r] \in {"answered", "verdict"}
          /\ source'[r] = "notFound"
          /\ UNCHANGED <<queue, found>>
      BY <1>0, <1>6, <2>1 DEF R!Load, R!Reply, R!Goto, R!TypeOK
    <3> QED
      BY <1>0, <2>0, <3>1 DEF OwnType, R!Places, R!Sources, Serving
  <2>2. CASE queue[r] # <<>>
    <3>0. /\ queue[r] \in Seq(R!Lookup)
          /\ \A i \in 1..Len(queue[r]) : queue[r][i].envs # <<>>
      BY <1>0 DEF OwnType
    <3>1. look \in R!Lookup /\ look.envs # <<>>
      BY <3>0, <2>2, EmptyIsShort, ElementOfSeq
    <3>2. look.app \in Apps /\ look.redirects \in BOOLEAN /\ look.envs \in Seq(Envs)
      BY <3>1 DEF R!Lookup
    <3>3. env \in Envs
      BY <3>1, <3>2, EmptyIsShort, ElementOfSeq
    <3>4. build \in Builds \cup {None}
      BY <1>0, <3>2, <3>3 DEF R!Targets
    <3>5. /\ R!Remaining(queue[r]) \in Seq(R!Lookup)
          /\ \A i \in 1..Len(R!Remaining(queue[r])) : R!Remaining(queue[r])[i].envs # <<>>
      BY <3>0, <2>2, RemainingEffect
    <3>6. /\ Tail(queue[r]) \in Seq(R!Lookup)
          /\ \A i \in 1..Len(Tail(queue[r])) : Tail(queue[r])[i].envs # <<>>
      BY <3>0, <2>2, HeadTailProperties, LenProperties
    <3>7. \/ /\ queue'[r] \in {R!Remaining(queue[r]), Tail(queue[r])}
             /\ UNCHANGED <<pc, found, source>>
          \/ /\ build # None
             /\ queue'[r] = Tail(queue[r])
             /\ found'[r] = [app |-> look.app, env |-> env, build |-> build,
                             redirects |-> look.redirects]
             /\ pc'[r] = "suspension"
             /\ UNCHANGED source
      BY <1>0, <1>6, <2>2 DEF R!Load, R!Goto, R!TypeOK
    <3> HIDE DEF look, env, build
    <3>8. /\ queue'[r] \in Seq(R!Lookup)
          /\ \A i \in 1..Len(queue'[r]) : queue'[r][i].envs # <<>>
      BY <3>5, <3>6, <3>7
    <3>9. \/ UNCHANGED <<pc, found>>
          \/ /\ found'[r] \in R!Findings /\ found'[r].build \in Builds
             /\ pc'[r] = "suspension"
      BY <3>2, <3>3, <3>4, <3>7 DEF R!Findings
    <3> QED
      BY <1>0, <2>0, <3>7, <3>8, <3>9 DEF OwnType, R!Places
  <2> QED
    BY <2>1, <2>2
<1>7. ASSUME R!Suspension(r) \/ R!Exact(r) \/ R!Fallback(r) PROVE Goal
  <2>1. /\ pc[r] \in Serving
        /\ pc'[r] \in {"first", "exact", "worker", "verdict", "answered"}
        /\ source'[r] \in {"suspended", "slash", "exact", "fallback", "notFound",
                           "platform", source[r]}
        /\ UNCHANGED <<inner, queue, found, ran, seen>>
    BY <1>0, <1>7 DEF R!Suspension, R!Exact, R!Fallback, R!Unresolved, R!Reply, R!Goto,
       R!TypeOK, Serving
  <2> QED
    BY <1>0, <2>1 DEF OwnType, R!Places, R!Sources
<1>8. ASSUME R!WorkerFirst(r) \/ R!Worker(r) PROVE Goal
  <2>1. found[r].build \in Builds /\ pc[r] \in Serving
    BY <1>0, <1>8 DEF R!WorkerFirst, R!Worker, OwnType, Serving
  <2>2. /\ pc'[r] \in {"exact", "fallback", "verdict", "answered"}
        /\ source'[r] \in {"worker", source[r]}
        /\ ran'[r] = ran[r] \/ ran'[r] = Append(ran[r], found[r].build)
        /\ UNCHANGED <<inner, queue, found, seen>>
    BY <1>0, <1>8 DEF R!WorkerFirst, R!Worker, R!Run, R!Reply, R!Goto, R!TypeOK
  <2>a. Append(ran[r], found[r].build) \in Seq(Builds) /\ ran[r] \in Seq(Builds)
    BY <1>0, <2>1, RunsType DEF OwnType
  <2>3. ran'[r] \in Seq(Builds)
    BY <2>a, <2>2
  <2> QED
    BY <1>0, <2>1, <2>2, <2>3 DEF OwnType, R!Places, R!Sources
<1> HIDE DEF Goal
<1>9. Goal
  BY <1>1, <1>2, <1>3, <1>4, <1>5, <1>6, <1>7, <1>8, Zenon DEF R!Step
<1> QED
  BY <1>9 DEF Goal

(***************************************************************************)
(* Every step keeps the types.                                             *)
(***************************************************************************)
LEMMA ChangeType ==
  ASSUME RequestInv, R!Change
  PROVE  RequestInv'
<1>1. ASSUME NEW k \in R!Targets, NEW b \in Builds, R!Deploy(k, b)
      PROVE  deployed' \in [R!Targets -> Builds \cup {None}] /\ UNCHANGED <<routes, suspended>>
  BY <1>1 DEF R!Deploy, RequestInv, R!TypeOK
<1>2. ASSUME NEW list \in RouteLists, R!MoveRoutes(list)
      PROVE  routes' \in RouteLists /\ UNCHANGED <<deployed, suspended>>
  BY <1>2 DEF R!MoveRoutes
<1>3. ASSUME NEW k \in R!Targets, R!SuspendOrResume(k)
      PROVE  suspended' \subseteq R!Targets /\ UNCHANGED <<deployed, routes>>
  BY <1>3 DEF R!SuspendOrResume, RequestInv, R!TypeOK
<1>4. /\ deployed' \in [R!Targets -> Builds \cup {None}]
      /\ routes' \in RouteLists
      /\ suspended' \subseteq R!Targets
  BY <1>1, <1>2, <1>3 DEF R!Change, RequestInv, R!TypeOK
<1>5. R!Changed
  BY DEF R!Change, R!Deploy, R!MoveRoutes, R!SuspendOrResume
<1>6. /\ R!Now'.builds \subseteq R!Targets \X (Builds \cup {None})
      /\ R!Now'.suspended \subseteq SUBSET R!Targets
      /\ R!Now'.routes \subseteq RouteLists
  BY <1>4 DEF R!Now
<1>7. ASSUME NEW r \in Requests
      PROVE  seen'[r] \in R!Sights
  <2>1. /\ seen[r] \in R!Sights
        /\ \/ seen'[r] = seen[r]
           \/ seen'[r] = [builds |-> seen[r].builds \cup R!Now'.builds,
                          suspended |-> seen[r].suspended \cup R!Now'.suspended,
                          routes |-> seen[r].routes \cup R!Now'.routes]
    BY <1>5 DEF R!Changed, RequestInv, R!TypeOK
  <2> QED
    BY <1>6, <2>1 DEF R!Sights
<1>8. seen' \in [Requests -> R!Sights]
  <2>1. seen' = [r \in Requests |-> seen'[r]]
    BY <1>5 DEF R!Changed
  <2> QED
    BY <1>7, <2>1
<1>9. changes' \in 0..MaxChanges
  BY <1>5, MaxChangesAssumption DEF R!Changed, RequestInv, R!TypeOK
<1>10. UNCHANGED <<ask, pc, inner, queue, found, ran, source>>
  BY <1>5 DEF R!Changed
<1>11. R!TypeOK'
  BY <1>4, <1>8, <1>9, <1>10 DEF RequestInv, R!TypeOK
<1> QED
  BY <1>10, <1>11 DEF RequestInv, FoundBuilds

\* Every step keeps the types.
LEMMA RequestsStepType == RequestInv /\ [R!Next]_R!vars => RequestInv'
<1> SUFFICES ASSUME RequestInv, [R!Next]_R!vars
             PROVE  RequestInv'
  OBVIOUS
<1>1. CASE UNCHANGED R!vars
  <2>1. R!TypeOK'
    BY <1>1 DEF R!vars, RequestInv, R!TypeOK
  <2>2. FoundBuilds'
    BY <1>1 DEF R!vars, RequestInv, FoundBuilds
  <2> QED
    BY <2>1, <2>2 DEF RequestInv
<1>2. ASSUME NEW r \in Requests, R!Step(r)
      PROVE  RequestInv'
  BY <1>2, OthersAlone, StepOwnType, OwnTypeSuffices DEF RequestInv
<1> QED
  BY <1>1, <1>2, ChangeType DEF R!Next

(***************************************************************************)
(* RuntimeRouting has the types, and a request settles on real builds.     *)
(***************************************************************************)
THEOREM RequestsAreTyped == R!Spec => []RequestInv
  BY RequestsInitType, RequestsStepType, PTL DEF R!Spec

-----------------------------------------------------------------------------
(***************************************************************************)
(* What a step of a request makes of the request's own.                    *)
(***************************************************************************)
Goes(r, next) == pc'[r] = next /\ source'[r] = source[r]

Ends(r, from) ==
  /\ \/ ask[r].mail /\ pc'[r] = "verdict"
     \/ ~ ask[r].mail /\ pc'[r] = "answered"
  /\ source'[r] = from

Rejects(r) == pc'[r] = "answered" /\ source'[r] = "rejected"

Runs(r) == ran'[r] = Append(ran[r], found[r].build)

BeginEffect(r) ==
  /\ pc[r] = "new"
  /\ Goes(r, IF ask[r].mail THEN "gateway"
             ELSE IF ask[r].custom THEN "middleware" ELSE "handlers")
  /\ seen'[r] = R!Now
  /\ UNCHANGED <<inner[r], queue[r], found[r], ran[r]>>

LoadGatewayEffect(r) ==
  /\ pc[r] = "gateway"
  /\ \/ Rejects(r)
     \/ Goes(r, "gatewayRuns")
  /\ UNCHANGED <<inner[r], queue[r], ran[r], seen[r]>>

RunGatewayEffect(r) ==
  /\ pc[r] = "gatewayRuns"
  /\ Runs(r)
  /\ inner'[r] = TRUE
  /\ \/ Rejects(r)
     \/ Goes(r, "resolve")
  /\ UNCHANGED <<queue[r], found[r], seen[r]>>

VerdictEffect(r) ==
  /\ pc[r] = "verdict"
  /\ pc'[r] = "answered"
  /\ source'[r] = IF source[r] = "worker" /\ found[r].build.says = "ok"
                  THEN "accepted" ELSE "rejected"
  /\ UNCHANGED <<inner[r], queue[r], found[r], ran[r], seen[r]>>

MiddlewareEffect(r) ==
  /\ pc[r] = "middleware"
  /\ inner'[r] = (routes # <<>>)
  /\ Goes(r, IF routes # <<>> THEN "resolve" ELSE "handlers")
  /\ UNCHANGED <<queue[r], found[r], ran[r], seen[r]>>

HandlersEffect(r) ==
  /\ pc[r] = "handlers"
  /\ \/ ask[r].kind = "handled" /\ Ends(r, "handler")
     \/ ask[r].kind # "handled" /\ Goes(r, "resolve")
  /\ UNCHANGED <<inner[r], queue[r], found[r], ran[r], seen[r]>>

ResolveEffect(r) ==
  /\ pc[r] = "resolve"
  /\ \/ /\ \/ ~ ask[r].custom /\ ask[r].kind = "reserved"
           \/ ask[r].custom /\ routes = <<>>
        /\ Ends(r, IF inner[r] THEN "notFound" ELSE "platform")
        /\ UNCHANGED queue[r]
     \/ /\ ask[r].kind = "internal" /\ Ends(r, "notFound")
        /\ UNCHANGED queue[r]
     \/ /\ ask[r].custom => routes # <<>>
        /\ Goes(r, "load")
        /\ queue'[r] = R!Lookups(ask[r], routes)
  /\ UNCHANGED <<inner[r], found[r], ran[r], seen[r]>>

LoadEffect(r) ==
  LET look  == queue[r][1]
      key   == <<look.app, look.envs[1]>>
      build == deployed[key]
  IN
  /\ pc[r] = "load"
  /\ \/ /\ queue[r] = <<>>
        /\ Ends(r, "notFound")
        /\ UNCHANGED <<queue[r], found[r]>>
     \/ /\ queue[r] # <<>> /\ build = None
        /\ queue'[r] = R!Remaining(queue[r])
        /\ Goes(r, "load") /\ UNCHANGED found[r]
     \/ /\ queue[r] # <<>> /\ build # None /\ ~ ask[r].custom /\ ~ build.default
        /\ queue'[r] = Tail(queue[r])
        /\ Goes(r, "load") /\ UNCHANGED found[r]
     \/ /\ queue[r] # <<>> /\ build # None /\ (ask[r].custom \/ build.default)
        /\ queue'[r] = Tail(queue[r])
        /\ found'[r] = [app |-> look.app, env |-> look.envs[1], build |-> build,
                        redirects |-> look.redirects]
        /\ Goes(r, "suspension")
  /\ UNCHANGED <<inner[r], ran[r], seen[r]>>

SuspensionEffect(r) ==
  LET build == found[r].build
      slash == found[r].redirects /\ build.site /\ ask[r].get
      key   == <<found[r].app, found[r].env>>
  IN
  /\ pc[r] = "suspension"
  /\ \/ key \in suspended /\ Ends(r, "suspended")
     \/ key \notin suspended /\ slash /\ Ends(r, "slash")
     \/ /\ key \notin suspended /\ ~ slash
        /\ \/ ask[r].custom /\ build.says # "none" /\ Goes(r, "first")
           \/ ~ (ask[r].custom /\ build.says # "none") /\ Goes(r, "exact")
  /\ UNCHANGED <<inner[r], queue[r], found[r], ran[r], seen[r]>>

WorkerFirstEffect(r) ==
  /\ pc[r] = "first"
  /\ Runs(r)
  /\ \/ found[r].build.says = "redirect" /\ Ends(r, "worker")
     \/ found[r].build.says # "redirect" /\ Goes(r, "exact")
  /\ UNCHANGED <<inner[r], queue[r], found[r], seen[r]>>

ExactEffect(r) ==
  /\ pc[r] = "exact"
  /\ \/ ask[r].get /\ found[r].build.exact /\ Ends(r, "exact")
     \/ ~ (ask[r].get /\ found[r].build.exact) /\ Goes(r, "worker")
  /\ UNCHANGED <<inner[r], queue[r], found[r], ran[r], seen[r]>>

WorkerEffect(r) ==
  LET says == found[r].build.says IN
  /\ pc[r] = "worker"
  /\ \/ says = "none" /\ Goes(r, "fallback") /\ UNCHANGED ran[r]
     \/ /\ says # "none"
        /\ IF ask[r].custom THEN UNCHANGED ran[r] ELSE Runs(r)
        /\ \/ ask[r].get /\ says = "missing" /\ Goes(r, "fallback")
           \/ ~ (ask[r].get /\ says = "missing") /\ Ends(r, "worker")
  /\ UNCHANGED <<inner[r], queue[r], found[r], seen[r]>>

FallbackEffect(r) ==
  LET build == found[r].build IN
  /\ pc[r] = "fallback"
  /\ \/ ask[r].get /\ build.index /\ Ends(r, "fallback")
     \/ ~ (ask[r].get /\ build.index) /\ build.says # "none" /\ Ends(r, "notFound")
     \/ /\ ~ (ask[r].get /\ build.index) /\ build.says = "none"
        /\ Ends(r, IF inner[r] THEN "notFound" ELSE "platform")
  /\ UNCHANGED <<inner[r], queue[r], found[r], ran[r], seen[r]>>

StepEffect(r) ==
  \/ BeginEffect(r) \/ LoadGatewayEffect(r) \/ RunGatewayEffect(r) \/ VerdictEffect(r)
  \/ MiddlewareEffect(r) \/ HandlersEffect(r) \/ ResolveEffect(r) \/ LoadEffect(r)
  \/ SuspensionEffect(r) \/ WorkerFirstEffect(r) \/ ExactEffect(r) \/ WorkerEffect(r)
  \/ FallbackEffect(r)

\* Every step has the effect that is stated for its action.
LEMMA StepHasEffect ==
  ASSUME R!TypeOK, NEW r \in Requests, R!Step(r)
  PROVE  StepEffect(r)
<1> USE DEF R!TypeOK, Goes, Ends, Runs, Rejects
<1>1. ASSUME R!Begin(r) PROVE BeginEffect(r)
  BY <1>1 DEF R!Begin, R!Goto, BeginEffect
<1>2. ASSUME R!LoadGateway(r) PROVE LoadGatewayEffect(r)
  BY <1>2 DEF R!LoadGateway, R!Goto, R!Reject, LoadGatewayEffect
<1>3. ASSUME R!RunGateway(r) PROVE RunGatewayEffect(r)
  BY <1>3 DEF R!RunGateway, R!Run, R!Goto, R!Reject, RunGatewayEffect
<1>4. ASSUME R!Verdict(r) PROVE VerdictEffect(r)
  BY <1>4 DEF R!Verdict, R!Goto, VerdictEffect
<1>5. ASSUME R!Middleware(r) PROVE MiddlewareEffect(r)
  BY <1>5 DEF R!Middleware, R!Goto, MiddlewareEffect
<1>6. ASSUME R!Handlers(r) PROVE HandlersEffect(r)
  BY <1>6 DEF R!Handlers, R!Reply, R!Goto, HandlersEffect
<1>7. ASSUME R!Resolve(r) PROVE ResolveEffect(r)
  BY <1>7 DEF R!Resolve, R!Unresolved, R!Reply, R!Goto, ResolveEffect
<1>8. ASSUME R!Load(r) PROVE LoadEffect(r)
  <2> DEFINE look == queue[r][1]
             build == deployed[<<look.app, look.envs[1]>>]
             finding == [app |-> look.app, env |-> look.envs[1], build |-> build,
                         redirects |-> look.redirects]
  <2>1. /\ pc[r] = "load"
        /\ UNCHANGED <<inner, ran, seen>>
        /\ \/ queue[r] = <<>> /\ R!Reply(r, "notFound") /\ UNCHANGED <<queue, found>>
           \/ /\ queue[r] # <<>> /\ build = None
              /\ queue' = [queue EXCEPT ![r] = R!Remaining(queue[r])]
              /\ UNCHANGED <<pc, found, source>>
           \/ /\ queue[r] # <<>> /\ build # None /\ ~ ask[r].custom /\ ~ build.default
              /\ queue' = [queue EXCEPT ![r] = Tail(queue[r])]
              /\ UNCHANGED <<pc, found, source>>
           \/ /\ queue[r] # <<>> /\ build # None /\ (ask[r].custom \/ build.default)
              /\ found' = [found EXCEPT ![r] = finding]
              /\ queue' = [queue EXCEPT ![r] = Tail(queue[r])]
              /\ R!Goto(r, "suspension") /\ UNCHANGED source
    BY <1>8, Zenon DEF R!Load
  <2> HIDE DEF look, build, finding
  <2>2. /\ pc[r] = "load"
        /\ UNCHANGED <<inner[r], ran[r], seen[r]>>
        /\ \/ queue[r] = <<>> /\ Ends(r, "notFound") /\ UNCHANGED <<queue[r], found[r]>>
           \/ /\ queue[r] # <<>> /\ build = None
              /\ queue'[r] = R!Remaining(queue[r])
              /\ Goes(r, "load") /\ UNCHANGED found[r]
           \/ /\ queue[r] # <<>> /\ build # None /\ ~ ask[r].custom /\ ~ build.default
              /\ queue'[r] = Tail(queue[r])
              /\ Goes(r, "load") /\ UNCHANGED found[r]
           \/ /\ queue[r] # <<>> /\ build # None /\ (ask[r].custom \/ build.default)
              /\ found'[r] = finding
              /\ queue'[r] = Tail(queue[r])
              /\ Goes(r, "suspension")
    BY <2>1 DEF R!Reply, R!Goto
  <2> QED
    BY <2>2, Zenon DEF LoadEffect, look, build, finding
<1>9. ASSUME R!Suspension(r) PROVE SuspensionEffect(r)
  BY <1>9 DEF R!Suspension, R!Reply, R!Goto, SuspensionEffect
<1>10. ASSUME R!WorkerFirst(r) PROVE WorkerFirstEffect(r)
  BY <1>10 DEF R!WorkerFirst, R!Run, R!Reply, R!Goto, WorkerFirstEffect
<1>11. ASSUME R!Exact(r) PROVE ExactEffect(r)
  BY <1>11 DEF R!Exact, R!Reply, R!Goto, ExactEffect
<1>12. ASSUME R!Worker(r) PROVE WorkerEffect(r)
  BY <1>12 DEF R!Worker, R!Run, R!Reply, R!Goto, WorkerEffect
<1>13. ASSUME R!Fallback(r) PROVE FallbackEffect(r)
  BY <1>13 DEF R!Fallback, R!Unresolved, R!Reply, R!Goto, FallbackEffect
<1> QED
  BY <1>1, <1>2, <1>3, <1>4, <1>5, <1>6, <1>7, <1>8, <1>9, <1>10, <1>11, <1>12, <1>13,
     Zenon DEF R!Step, StepEffect

-----------------------------------------------------------------------------
(***************************************************************************)
(* The facts about a request that its steps rely on.                       *)
(***************************************************************************)
LEMMA OwnFacts ==
  ASSUME RequestInv, NEW r \in Requests
  PROVE  /\ OwnType(r) /\ ask[r] \in Asks
         /\ ask[r].mail \in BOOLEAN /\ ask[r].custom \in BOOLEAN /\ ask[r].get \in BOOLEAN
         /\ ask[r].mail => ask[r].custom /\ ~ ask[r].get
         /\ ran[r] \in Seq(Builds) /\ Len(ran[r]) \in Nat
         /\ ran[r] # <<>> <=> Len(ran[r]) > 0
<1>1. ask[r] \in Asks /\ ask[r] \in R!Ask /\ ran[r] \in Seq(Builds) /\ OwnType(r)
  BY AsksAre DEF RequestInv, R!TypeOK, FoundBuilds, OwnType
<1> QED
  BY <1>1, EmptyIsShort, AsksAre DEF R!Ask

\* Other requests do not see a step of r.
LEMMA Untouched ==
  ASSUME R!TypeOK, NEW r \in Requests, StepOf(r), NEW s \in Requests, s # r
  PROVE  /\ UNCHANGED <<deployed, routes, suspended, ask>>
         /\ pc'[s] = pc[s] /\ inner'[s] = inner[s] /\ queue'[s] = queue[s]
         /\ found'[s] = found[s] /\ ran'[s] = ran[s] /\ source'[s] = source[s]
         /\ seen'[s] = seen[s]
  BY DEF StepOf, Sole, R!TypeOK, R!world

(***************************************************************************)
(* How often Workers have run, by where the request is: no Worker at all,  *)
(* none of the app that serves the request, or that one once.  Mail has    *)
(* run the gateway's before.                                               *)
(***************************************************************************)
NoneAtAll(r) == ran[r] = <<>>

NoRun(r) == Len(ran[r]) = IF ask[r].mail THEN 1 ELSE 0

OneRun(r) ==
  /\ Len(ran[r]) = IF ask[r].mail THEN 2 ELSE 1
  /\ ask[r].mail => ran[r][2] = found[r].build

RunsSoFar(r) ==
  LET works == found[r].build.says # "none" IN
  /\ pc[r] \in {"new", "gateway", "gatewayRuns", "middleware", "handlers"} => NoneAtAll(r)
  /\ pc[r] \in {"middleware", "handlers"} => ~ ask[r].mail
  /\ pc[r] \in {"gateway", "gatewayRuns", "verdict"} => ask[r].mail
  /\ pc[r] \in {"resolve", "load", "suspension", "first"} => NoRun(r)
  /\ pc[r] = "first" => ask[r].custom /\ works
  /\ pc[r] \in {"exact", "worker"} =>
       IF ask[r].custom /\ works THEN OneRun(r) ELSE NoRun(r)
  /\ pc[r] = "fallback" =>
       IF works THEN OneRun(r) /\ ask[r].get ELSE NoRun(r)
  /\ pc[r] = "verdict" =>
       IF source[r] = "worker" THEN OneRun(r) ELSE NoRun(r)
  /\ pc[r] = "answered" /\ ~ ask[r].mail =>
       NoRun(r) \/ (OneRun(r) /\ (ask[r].get \/ source[r] = "worker"))
  /\ pc[r] = "answered" /\ ask[r].mail =>
       \/ (NoneAtAll(r) \/ NoRun(r)) /\ source[r] = "rejected"
       \/ /\ OneRun(r)
          /\ source[r] = IF found[r].build.says = "ok" THEN "accepted" ELSE "rejected"

(***************************************************************************)
(* A run adds one build, at the end; without one the count stays.          *)
(***************************************************************************)
LEMMA RunCounts ==
  ASSUME RequestInv, NEW r \in Requests, ask' = ask
  PROVE  /\ NoneAtAll(r) /\ ~ ask[r].mail => NoRun(r)
         /\ ran'[r] = ran[r] => (NoneAtAll(r)' <=> NoneAtAll(r)) /\ (NoRun(r)' <=> NoRun(r))
         /\ ran'[r] = ran[r] /\ found'[r] = found[r] => (OneRun(r)' <=> OneRun(r))
         /\ Runs(r) /\ NoneAtAll(r) /\ ask[r].mail /\ pc[r] = "gatewayRuns" => NoRun(r)'
         /\ Runs(r) /\ NoRun(r) /\ pc[r] \in Serving /\ found'[r] = found[r] => OneRun(r)'
<1>1. /\ ran[r] \in Seq(Builds) /\ (NoneAtAll(r) => Len(ran[r]) = 0)
      /\ pc[r] \in Serving \cup {"gatewayRuns"} => found[r].build \in Builds
  BY OwnFacts, EmptySeq DEF OwnType, NoneAtAll
<1>2. ASSUME Runs(r), pc[r] \in Serving \cup {"gatewayRuns"}
      PROVE  /\ Len(ran'[r]) = Len(ran[r]) + 1
             /\ ran'[r][Len(ran[r]) + 1] = found[r].build
  BY <1>1, <1>2, AppendProperties DEF Runs
<1>3. ASSUME Runs(r), NoneAtAll(r), ask[r].mail, pc[r] = "gatewayRuns"
      PROVE  NoRun(r)'
  <2>1. Len(ran[r]) = 0
    BY <1>1, <1>3
  <2>2. Len(ran'[r]) = 1
    BY <1>2, <1>3, <2>1
  <2> QED
    BY <1>3, <2>2 DEF NoRun
<1>4. ASSUME Runs(r), NoRun(r), pc[r] \in Serving, found'[r] = found[r]
      PROVE  OneRun(r)'
  <2>1. CASE ask[r].mail
    <3>1. Len(ran[r]) = 1
      BY <1>4, <2>1 DEF NoRun
    <3>2. Len(ran'[r]) = 2 /\ ran'[r][2] = found[r].build
      BY <1>2, <1>4, <3>1
    <3> QED
      BY <1>4, <2>1, <3>2 DEF OneRun
  <2>2. CASE ~ ask[r].mail
    <3>1. Len(ran[r]) = 0
      BY <1>4, <2>2 DEF NoRun
    <3>2. Len(ran'[r]) = 1
      BY <1>2, <1>4, <3>1
    <3> QED
      BY <1>4, <2>2, <3>2 DEF OneRun
  <2> QED
    BY <2>1, <2>2
<1>5. /\ NoneAtAll(r) /\ ~ ask[r].mail => NoRun(r)
      /\ ran'[r] = ran[r] => (NoneAtAll(r)' <=> NoneAtAll(r)) /\ (NoRun(r)' <=> NoRun(r))
      /\ ran'[r] = ran[r] /\ found'[r] = found[r] => (OneRun(r)' <=> OneRun(r))
  BY <1>1 DEF NoneAtAll, NoRun, OneRun
<1> QED
  BY <1>3, <1>4, <1>5

\* An answer that is not of a Worker, when none of the app's has run.
LEMMA EndsWithoutRun ==
  ASSUME NEW r \in Requests, NEW from, from # "worker", Ends(r, from), ask' = ask, NoRun(r)'
  PROVE  RunsSoFar(r)'
<1>1. CASE ask[r].mail
  <2>1. pc'[r] = "verdict" /\ source'[r] # "worker" /\ ask'[r].mail
    BY <1>1 DEF Ends
  <2> QED
    BY <2>1 DEF RunsSoFar
<1>2. CASE ~ ask[r].mail
  <2>1. pc'[r] = "answered" /\ ~ ask'[r].mail
    BY <1>2 DEF Ends
  <2>2. /\ NoRun(r)' \/ (OneRun(r)' /\ (ask'[r].get \/ source'[r] = "worker"))
        /\ pc'[r] \notin {"new", "gateway", "gatewayRuns", "middleware", "handlers",
                           "resolve", "load", "suspension", "first", "exact", "worker",
                           "fallback", "verdict"}
    BY <2>1
  <2> QED
    BY <2>1, <2>2, Zenon DEF RunsSoFar
<1> QED
  BY <1>1, <1>2

\* The answer of the Worker that has run.
LEMMA EndsWithRun ==
  ASSUME NEW r \in Requests, NEW from, Ends(r, from), ask' = ask, OneRun(r)',
         from = "worker" \/ ask[r].get, ask[r].mail => ~ ask[r].get
  PROVE  RunsSoFar(r)'
<1>1. CASE ask[r].mail
  <2>1. pc'[r] = "verdict" /\ source'[r] = "worker" /\ ask'[r].mail
    BY <1>1 DEF Ends
  <2> QED
    BY <2>1 DEF RunsSoFar
<1>2. CASE ~ ask[r].mail
  <2>1. pc'[r] = "answered" /\ ~ ask'[r].mail /\ (ask'[r].get \/ source'[r] = "worker")
    BY <1>2 DEF Ends
  <2> QED
    BY <2>1 DEF RunsSoFar
<1> QED
  BY <1>1, <1>2

\* A step keeps the counts: Workers run where RunsSoFar has it, and nowhere else.
LEMMA StepRuns ==
  ASSUME RequestInv, NEW r \in Requests, R!Step(r), RunsSoFar(r)
  PROVE  RunsSoFar(r)'
<1> DEFINE Goal == RunsSoFar(r)'
<1>0. ask' = ask /\ StepEffect(r)
  BY OthersAlone, StepHasEffect DEF RequestInv, StepOf
<1>a. /\ ask[r].mail \in BOOLEAN /\ ask[r].custom \in BOOLEAN /\ ask[r].get \in BOOLEAN
      /\ ask[r].mail => ask[r].custom /\ ~ ask[r].get
  BY OwnFacts
<1>b. /\ NoneAtAll(r) /\ ~ ask[r].mail => NoRun(r)
      /\ ran'[r] = ran[r] => (NoneAtAll(r)' <=> NoneAtAll(r)) /\ (NoRun(r)' <=> NoRun(r))
      /\ ran'[r] = ran[r] /\ found'[r] = found[r] => (OneRun(r)' <=> OneRun(r))
      /\ Runs(r) /\ NoneAtAll(r) /\ ask[r].mail /\ pc[r] = "gatewayRuns" => NoRun(r)'
      /\ Runs(r) /\ NoRun(r) /\ pc[r] \in Serving /\ found'[r] = found[r] => OneRun(r)'
  BY <1>0, RunCounts
<1> USE DEF Goes, Rejects, RunsSoFar
<1>1. ASSUME BeginEffect(r) PROVE Goal
  BY <1>0, <1>1, <1>a, <1>b DEF BeginEffect, Serving
<1>2. ASSUME LoadGatewayEffect(r) PROVE Goal
  BY <1>0, <1>2, <1>a, <1>b DEF LoadGatewayEffect, Serving
<1>3. ASSUME RunGatewayEffect(r) PROVE Goal
  BY <1>0, <1>3, <1>a, <1>b DEF RunGatewayEffect, Serving
<1>4. ASSUME VerdictEffect(r) PROVE Goal
  BY <1>0, <1>4, <1>a, <1>b DEF VerdictEffect, Serving
<1>5. ASSUME MiddlewareEffect(r) PROVE Goal
  BY <1>0, <1>5, <1>a, <1>b DEF MiddlewareEffect, Serving
<1>6. ASSUME HandlersEffect(r) PROVE Goal
  <2>1. /\ NoRun(r)'
        /\ Ends(r, "handler") \/ Goes(r, "resolve")
    BY <1>6, <1>b DEF HandlersEffect
  <2> QED
    BY <1>0, <2>1, EndsWithoutRun
<1>7. ASSUME ResolveEffect(r) PROVE Goal
  <2>1. /\ NoRun(r)'
        /\ Ends(r, "platform") \/ Ends(r, "notFound") \/ Goes(r, "load")
    BY <1>7, <1>b DEF ResolveEffect
  <2> QED
    BY <1>0, <2>1, EndsWithoutRun
<1>8. ASSUME LoadEffect(r) PROVE Goal
  <2>1. /\ pc[r] = "load" /\ ran'[r] = ran[r]
        /\ Goes(r, "load") \/ Goes(r, "suspension") \/ Ends(r, "notFound")
    BY <1>8 DEF LoadEffect
  <2>2. NoRun(r)'
    BY <1>b, <2>1
  <2> QED
    BY <1>0, <2>1, <2>2, EndsWithoutRun
<1>9. ASSUME SuspensionEffect(r) PROVE Goal
  <2>1. /\ pc[r] = "suspension" /\ ran'[r] = ran[r] /\ found'[r] = found[r]
        /\ \/ Ends(r, "suspended") \/ Ends(r, "slash")
           \/ ask[r].custom /\ found[r].build.says # "none" /\ Goes(r, "first")
           \/ ~ (ask[r].custom /\ found[r].build.says # "none") /\ Goes(r, "exact")
    BY <1>9 DEF SuspensionEffect
  <2>2. NoRun(r)'
    BY <1>b, <2>1
  <2>3. CASE ask[r].custom /\ found[r].build.says # "none" /\ Goes(r, "first")
    BY <1>0, <2>1, <2>2, <2>3
  <2>4. CASE ~ (ask[r].custom /\ found[r].build.says # "none") /\ Goes(r, "exact")
    BY <1>0, <2>1, <2>2, <2>4
  <2> QED
    BY <1>0, <2>1, <2>2, <2>3, <2>4, EndsWithoutRun
<1>10. ASSUME WorkerFirstEffect(r) PROVE Goal
  BY <1>0, <1>10, <1>a, <1>b DEF WorkerFirstEffect, Ends, Serving
<1>11. ASSUME ExactEffect(r) PROVE Goal
  BY <1>0, <1>11, <1>a, <1>b DEF ExactEffect, Ends, Serving
<1>12. ASSUME WorkerEffect(r) PROVE Goal
  BY <1>0, <1>12, <1>a, <1>b DEF WorkerEffect, Ends, Serving
<1>13. ASSUME FallbackEffect(r) PROVE Goal
  <2>1. /\ pc[r] = "fallback" /\ ran'[r] = ran[r] /\ found'[r] = found[r]
        /\ Ends(r, "fallback") \/ Ends(r, "notFound") \/ Ends(r, "platform")
    BY <1>13 DEF FallbackEffect
  <2>2. NoRun(r)' \/ (OneRun(r)' /\ ask[r].get)
    BY <1>b, <2>1
  <2>3. CASE NoRun(r)'
    BY <1>0, <2>1, <2>3, EndsWithoutRun
  <2>4. CASE OneRun(r)' /\ ask[r].get
    BY <1>0, <1>a, <2>1, <2>4, EndsWithRun
  <2> QED
    BY <2>2, <2>3, <2>4
<1> HIDE DEF Goal
<1>14. Goal
  BY <1>0, <1>1, <1>2, <1>3, <1>4, <1>5, <1>6, <1>7, <1>8, <1>9, <1>10, <1>11, <1>12,
     <1>13, Zenon DEF StepEffect
<1> QED
  BY <1>14 DEF Goal

(***************************************************************************)
(* A step of one request or a change elsewhere leaves what a request has   *)
(* run alone.                                                              *)
(***************************************************************************)
AllRuns == \A r \in Requests : RunsSoFar(r)

\* Other requests and changes leave the count of a request alone.
LEMMA RunsStay ==
  ASSUME RequestInv, AllRuns, [R!Next]_R!vars
  PROVE  AllRuns'
<1> DEFINE Same(r) == /\ pc'[r] = pc[r] /\ ask'[r] = ask[r] /\ found'[r] = found[r]
                      /\ ran'[r] = ran[r] /\ source'[r] = source[r]
<1>1. ASSUME NEW r \in Requests, Same(r)
      PROVE  RunsSoFar(r)'
  <2>1. RunsSoFar(r)
    BY DEF AllRuns
  <2>2. /\ NoneAtAll(r)' <=> NoneAtAll(r)
        /\ NoRun(r)' <=> NoRun(r)
        /\ OneRun(r)' <=> OneRun(r)
    BY <1>1 DEF NoneAtAll, NoRun, OneRun
  <2> QED
    BY <1>1, <2>1, <2>2 DEF RunsSoFar
<1>2. ASSUME NEW r \in Requests, R!Step(r)
      PROVE  AllRuns'
  <2>1. StepOf(r)
    BY <1>2, OthersAlone DEF RequestInv
  <2>2. RunsSoFar(r)'
    BY <1>2, StepRuns DEF AllRuns
  <2>3. ASSUME NEW s \in Requests, s # r
        PROVE  RunsSoFar(s)'
    <3>1. Same(s)
      BY <2>1, <2>3, Untouched DEF RequestInv
    <3> QED
      BY <1>1, <3>1
  <2> QED
    BY <2>2, <2>3 DEF AllRuns
<1>3. ASSUME UNCHANGED <<pc, ask, found, ran, source>>
      PROVE  AllRuns'
  <2>1. \A r \in Requests : Same(r)
    BY <1>3
  <2> QED
    BY <1>1, <2>1 DEF AllRuns
<1>4. \/ \E r \in Requests : R!Step(r)
      \/ UNCHANGED <<pc, ask, found, ran, source>>
  BY DEF R!Next, R!Change, R!Deploy, R!MoveRoutes, R!SuspendOrResume, R!Changed, R!vars
<1> QED
  BY <1>2, <1>3, <1>4

\* At first nothing has run.
LEMMA RunsAtFirst == R!Init => AllRuns
  BY DEF R!Init, AllRuns, RunsSoFar, NoneAtAll

\* An answered request has run as promised.
LEMMA RunsSuffice ==
  ASSUME RequestInv, AllRuns
  PROVE  R!EffectsAreAnswered /\ R!MailIsTakenOrRejected
<1>1. ASSUME NEW r \in Requests
      PROVE  NoneAtAll(r) \/ NoRun(r) \/ OneRun(r)
  <2>1. pc[r] \in R!Places
    BY DEF RequestInv, R!TypeOK
  <2> QED
    BY <2>1 DEF AllRuns, RunsSoFar, R!Places
<1>2. ASSUME NEW r \in Requests
      PROVE  /\ NoneAtAll(r) <=> Len(ran[r]) = 0
             /\ NoRun(r) => Len(ran[r]) = IF ask[r].mail THEN 1 ELSE 0
             /\ OneRun(r) => Len(ran[r]) = IF ask[r].mail THEN 2 ELSE 1
  <2>1. ran[r] \in Seq(Builds)
    BY DEF RequestInv, R!TypeOK
  <2> QED
    BY <2>1, EmptyIsShort DEF NoneAtAll, NoRun, OneRun
<1>3. ASSUME NEW r \in Requests
      PROVE  Len(ran[r]) <= IF ask[r].mail THEN 2 ELSE 1
  BY <1>1, <1>2
<1>4. ASSUME NEW r \in Requests, R!Answered(r), ran[r] # <<>>, ~ ask[r].get, ~ ask[r].mail
      PROVE  source[r] = "worker"
  <2>1. ~ NoRun(r)
    BY <1>2, <1>4 DEF NoneAtAll
  <2> QED
    BY <1>4, <2>1 DEF AllRuns, RunsSoFar, R!Answered
<1>5. ASSUME NEW r \in Requests, R!Answered(r), ask[r].mail
      PROVE  source[r] = IF Len(ran[r]) = 2 /\ ran[r][2].says = "ok"
                         THEN "accepted" ELSE "rejected"
  <2>1. CASE (NoneAtAll(r) \/ NoRun(r)) /\ source[r] = "rejected"
    <3>1. Len(ran[r]) # 2
      BY <1>2, <1>5, <2>1
    <3> QED
      BY <2>1, <3>1
  <2>2. CASE /\ OneRun(r)
             /\ source[r] = IF found[r].build.says = "ok" THEN "accepted" ELSE "rejected"
    <3>1. Len(ran[r]) = 2 /\ ran[r][2] = found[r].build
      BY <1>5, <2>2 DEF OneRun
    <3> QED
      BY <2>2, <3>1
  <2> QED
    BY <1>5, <2>1, <2>2 DEF AllRuns, RunsSoFar, R!Answered
<1>6. R!EffectsAreAnswered
  BY <1>3, <1>4 DEF R!EffectsAreAnswered
<1> QED
  BY <1>5, <1>6 DEF R!MailIsTakenOrRejected

(***************************************************************************)
(* For any number of requests and changes, of apps, builds and routes: a   *)
(* Worker runs once at most, what it did for a request that may change     *)
(* something is what the client is told, and mail is accepted exactly      *)
(* when the workspace's Worker took it.                                    *)
(***************************************************************************)
THEOREM EffectsStayAnswered == R!Spec => []EffectsAreAnswered
<1> QED
  BY RequestsInitType, RequestsStepType, RunsAtFirst, RunsStay, RunsSuffice,
     PromisesAlike, PTL DEF R!Spec

\* Whatever changes meanwhile, mail is accepted when the workspace took it.
THEOREM MailStaysTakenOrRejected == R!Spec => []MailIsTakenOrRejected
<1> QED
  BY RequestsInitType, RequestsStepType, RunsAtFirst, RunsStay, RunsSuffice,
     PromisesAlike, PTL DEF R!Spec

-----------------------------------------------------------------------------
(***************************************************************************)
(* While a request runs, what there is now is among what it has seen.      *)
(***************************************************************************)
Sees(r) ==
  /\ \A k \in R!Targets : <<k, deployed[k]>> \in seen[r].builds
  /\ suspended \in seen[r].suspended
  /\ routes \in seen[r].routes

Running(r) == pc[r] \notin {"new", "answered"}

RunningSees(r) == Running(r) => Sees(r)

Grows(r) ==
  /\ seen[r].builds \subseteq seen'[r].builds
  /\ seen[r].suspended \subseteq seen'[r].suspended
  /\ seen[r].routes \subseteq seen'[r].routes

(***************************************************************************)
(* A change adds what it makes to what running requests have seen, and     *)
(* nothing to what the others have.                                        *)
(***************************************************************************)
LEMMA ChangeEffect ==
  ASSUME RequestInv, R!Change, NEW r \in Requests
  PROVE  /\ UNCHANGED <<ask, pc, inner, queue, found, ran, source>>
         /\ Running(r) => Grows(r) /\ Sees(r)'
         /\ ~ Running(r) => seen'[r] = seen[r]
<1>1. R!Changed
  BY DEF R!Change, R!Deploy, R!MoveRoutes, R!SuspendOrResume
<1>2. /\ UNCHANGED <<ask, pc, inner, queue, found, ran, source>>
      /\ ~ Running(r) => seen'[r] = seen[r]
      /\ Running(r) => seen'[r] = [builds |-> seen[r].builds \cup R!Now'.builds,
                                   suspended |-> seen[r].suspended \cup R!Now'.suspended,
                                   routes |-> seen[r].routes \cup R!Now'.routes]
  BY <1>1 DEF R!Changed, Running
<1>3. /\ \A k \in R!Targets : <<k, deployed'[k]>> \in R!Now'.builds
      /\ suspended' \in R!Now'.suspended /\ routes' \in R!Now'.routes
  BY DEF R!Now
<1>4. Running(r) => Grows(r)
  BY <1>2 DEF Grows
<1>5. Running(r) => Sees(r)'
  BY <1>2, <1>3 DEF Sees, R!Targets
<1> QED
  BY <1>2, <1>4, <1>5

\* A request that begins looks around; later steps change nothing that it saw.
LEMMA StepSees ==
  ASSUME RequestInv, NEW r \in Requests, R!Step(r), RunningSees(r)
  PROVE  /\ Running(r)' => Sees(r)'
         /\ pc[r] # "new" => seen'[r] = seen[r]
         /\ pc[r] # "answered"
<1>0. StepEffect(r) /\ UNCHANGED <<deployed, suspended, routes>>
  BY OthersAlone, StepHasEffect DEF RequestInv, StepOf, R!world
<1>1. CASE BeginEffect(r)
  <2>1. seen'[r] = R!Now /\ pc[r] = "new"
    BY <1>1 DEF BeginEffect
  <2>2. Sees(r)'
    BY <1>0, <2>1 DEF Sees, R!Now, R!Targets
  <2> QED
    BY <2>1, <2>2
<1>2. CASE ~ BeginEffect(r)
  <2>1. /\ seen'[r] = seen[r]
        /\ pc[r] \notin {"new", "answered"}
    BY <1>0, <1>2 DEF StepEffect, LoadGatewayEffect, RunGatewayEffect, VerdictEffect,
         MiddlewareEffect, HandlersEffect, ResolveEffect, LoadEffect, SuspensionEffect,
         WorkerFirstEffect, ExactEffect, WorkerEffect, FallbackEffect
  <2>2. Sees(r)
    BY <2>1 DEF RunningSees, Running
  <2>3. Sees(r)'
    BY <1>0, <2>1, <2>2 DEF Sees, R!Targets
  <2> QED
    BY <2>1, <2>3
<1> QED
  BY <1>1, <1>2

(***************************************************************************)
(* On a custom domain a request gets to the platform's own handlers and    *)
(* pages only when the domain was without routes at some time.             *)
(***************************************************************************)
DomainSoFar(r) ==
  /\ Running(r) /\ pc[r] # "verdict" => source[r] = "none"
  /\ pc[r] = "new" => source[r] = "none"
  /\ ask[r].custom /\ pc[r] = "handlers" => <<>> \in seen[r].routes
  /\ ask[r].custom /\ pc[r] \in Serving \cup {"resolve", "load"} =>
       inner[r] \/ <<>> \in seen[r].routes
  /\ ask[r].custom /\ source[r] \in {"handler", "platform"} => <<>> \in seen[r].routes

\* Only the middleware, when it finds no routes, lets a request through to them.
LEMMA StepDomain ==
  ASSUME RequestInv, NEW r \in Requests, R!Step(r), RunningSees(r), DomainSoFar(r)
  PROVE  DomainSoFar(r)'
<1> DEFINE Goal == DomainSoFar(r)'
<1>0. ask' = ask /\ StepEffect(r)
  BY OthersAlone, StepHasEffect DEF RequestInv, StepOf
<1>a. /\ pc[r] # "new" => seen'[r] = seen[r]
      /\ Running(r) => routes \in seen[r].routes
  BY StepSees DEF RunningSees, Sees
<1> USE DEF Goes, Rejects, DomainSoFar, Running, Serving, Ends
<1>1. ASSUME BeginEffect(r) PROVE Goal
  BY <1>0, <1>1, <1>a DEF BeginEffect
<1>2. ASSUME LoadGatewayEffect(r) PROVE Goal
  BY <1>0, <1>2, <1>a DEF LoadGatewayEffect
<1>3. ASSUME RunGatewayEffect(r) PROVE Goal
  BY <1>0, <1>3, <1>a DEF RunGatewayEffect
<1>4. ASSUME VerdictEffect(r) PROVE Goal
  BY <1>0, <1>4, <1>a DEF VerdictEffect
<1>5. ASSUME MiddlewareEffect(r) PROVE Goal
  BY <1>0, <1>5, <1>a DEF MiddlewareEffect
<1>6. ASSUME HandlersEffect(r) PROVE Goal
  BY <1>0, <1>6, <1>a DEF HandlersEffect
<1>7. ASSUME ResolveEffect(r) PROVE Goal
  BY <1>0, <1>7, <1>a DEF ResolveEffect
<1>8. ASSUME LoadEffect(r) PROVE Goal
  <2>1. /\ pc[r] = "load" /\ inner'[r] = inner[r]
        /\ Goes(r, "load") \/ Goes(r, "suspension") \/ Ends(r, "notFound")
    BY <1>8 DEF LoadEffect
  <2> QED
    BY <1>0, <1>a, <2>1
<1>9. ASSUME SuspensionEffect(r) PROVE Goal
  BY <1>0, <1>9, <1>a DEF SuspensionEffect
<1>10. ASSUME WorkerFirstEffect(r) PROVE Goal
  BY <1>0, <1>10, <1>a DEF WorkerFirstEffect
<1>11. ASSUME ExactEffect(r) PROVE Goal
  BY <1>0, <1>11, <1>a DEF ExactEffect
<1>12. ASSUME WorkerEffect(r) PROVE Goal
  BY <1>0, <1>12, <1>a DEF WorkerEffect
<1>13. ASSUME FallbackEffect(r) PROVE Goal
  BY <1>0, <1>13, <1>a DEF FallbackEffect
<1> HIDE DEF Goal
<1>14. Goal
  BY <1>0, <1>1, <1>2, <1>3, <1>4, <1>5, <1>6, <1>7, <1>8, <1>9, <1>10, <1>11, <1>12,
     <1>13, Zenon DEF StepEffect
<1> QED
  BY <1>14 DEF Goal

(***************************************************************************)
(* What a request is to look up on a custom domain was a route of it, and  *)
(* the build it has settled on was current, routed to and, once that has   *)
(* been asked, not suspended, each at some time since the request began.   *)
(***************************************************************************)
Routed(r, app, env) ==
  \E list \in seen[r].routes :
    \E i \in 1..Len(list) : list[i] = [app |-> app, env |-> env]

LooksRouted(r) ==
  \A i \in 1..Len(queue[r]) :
    /\ Len(queue[r][i].envs) = 1
    /\ Routed(r, queue[r][i].app, queue[r][i].envs[1])

FoundCurrent(r) ==
  /\ <<<<found[r].app, found[r].env>>, found[r].build>> \in seen[r].builds
  /\ ask[r].custom => Routed(r, found[r].app, found[r].env)

FoundAwake(r) ==
  \E asleep \in seen[r].suspended : <<found[r].app, found[r].env>> \notin asleep

OfApps == {"slash", "worker", "exact", "fallback", "accepted"}

CurrentSoFar(r) ==
  /\ ask[r].custom /\ pc[r] = "load" => LooksRouted(r)
  /\ pc[r] \in Serving \/ source[r] \in OfApps => FoundCurrent(r)
  /\ pc[r] \in Serving \ {"suspension"} \/ source[r] \in OfApps => FoundAwake(r)
  /\ Running(r) /\ pc[r] # "verdict" => source[r] = "none"
  /\ pc[r] = "new" => source[r] = "none"

\* What was current stays among what the request has seen.
LEMMA CurrentGrows ==
  ASSUME NEW r \in Requests, ask' = ask, Grows(r)
  PROVE  /\ queue'[r] = queue[r] /\ LooksRouted(r) => LooksRouted(r)'
         /\ found'[r] = found[r] /\ FoundCurrent(r) => FoundCurrent(r)'
         /\ found'[r] = found[r] /\ FoundAwake(r) => FoundAwake(r)'
<1>1. ASSUME NEW app, NEW env, Routed(r, app, env)
      PROVE  \E list \in seen'[r].routes :
               \E i \in 1..Len(list) : list[i] = [app |-> app, env |-> env]
  BY <1>1 DEF Routed, Grows
<1>2. ASSUME queue'[r] = queue[r], LooksRouted(r)
      PROVE  LooksRouted(r)'
  BY <1>1, <1>2 DEF LooksRouted, Routed
<1>3. ASSUME found'[r] = found[r], FoundCurrent(r)
      PROVE  FoundCurrent(r)'
  <2>1. ask[r].custom => Routed(r, found[r].app, found[r].env)'
    BY <1>1, <1>3 DEF FoundCurrent, Routed
  <2> QED
    BY <1>3, <2>1 DEF FoundCurrent, Grows
<1>4. ASSUME found'[r] = found[r], FoundAwake(r)
      PROVE  FoundAwake(r)'
  BY <1>4 DEF FoundAwake, Grows
<1> QED
  BY <1>2, <1>3, <1>4

\* The lookups of a custom domain are its routes.
LEMMA ResolveCurrent ==
  ASSUME RequestInv, NEW r \in Requests, ResolveEffect(r), Sees(r), ask[r].custom,
         pc'[r] = "load"
  PROVE  LooksRouted(r)'
<1> DEFINE looks == R!Lookups(ask[r], routes)
<1>1. /\ queue'[r] = looks /\ seen'[r] = seen[r]
      /\ routes \in seen[r].routes
      /\ ask[r] \in Asks /\ routes \in RouteLists /\ routes \in Seq(R!Route)
  BY RoutesAre DEF ResolveEffect, Ends, Goes, Sees, RequestInv, R!TypeOK
<1>2. ASSUME NEW i \in 1..Len(looks)
      PROVE  /\ Len(looks[i].envs) = 1 /\ i \in 1..Len(routes)
             /\ routes[i] = [app |-> looks[i].app, env |-> looks[i].envs[1]]
  <2>1. /\ Len(looks) = Len(routes)
        /\ looks[i] = [app |-> routes[i].app, envs |-> <<routes[i].env>>, redirects |-> FALSE]
    BY <1>1, LookupsType
  <2>2. routes[i] \in R!Route
    BY <1>1, <2>1, ElementOfSeq
  <2> QED
    BY <2>1, <2>2 DEF R!Route
<1>3. ASSUME NEW i \in 1..Len(queue'[r])
      PROVE  /\ Len(queue'[r][i].envs) = 1
             /\ \E list \in seen'[r].routes : \E n \in 1..Len(list) :
                  list[n] = [app |-> queue'[r][i].app, env |-> queue'[r][i].envs[1]]
  <2> HIDE DEF looks
  <2> QED
    BY <1>1, <1>2, <1>3
<1> QED
  BY <1>3 DEF LooksRouted, Routed

\* What is found is deployed now, and of a route the request has seen.
LEMMA LoadCurrent ==
  ASSUME RequestInv, NEW r \in Requests, LoadEffect(r), Sees(r), ask' = ask,
         ask[r].custom => LooksRouted(r)
  PROVE  /\ ask[r].custom /\ pc'[r] = "load" => LooksRouted(r)'
         /\ pc'[r] = "suspension" => FoundCurrent(r)'
<1> DEFINE look  == queue[r][1]
           build == deployed[<<look.app, look.envs[1]>>]
<1>1. /\ queue[r] \in Seq(R!Lookup)
      /\ \A i \in 1..Len(queue[r]) : queue[r][i].envs # <<>>
  BY OwnFacts DEF OwnType
<1>2. CASE queue[r] = <<>>
  BY <1>2 DEF LoadEffect, Ends
<1>3. CASE queue[r] # <<>>
  <2>1. 1 \in 1..Len(queue[r]) /\ Len(queue[r]) \in Nat
    BY <1>1, <1>3, EmptyIsShort
  <2>2. look \in R!Lookup /\ look.envs # <<>>
    BY <1>1, <2>1, ElementOfSeq
  <2>3. look.envs \in Seq(Envs) /\ look.app \in Apps
    BY <2>2 DEF R!Lookup
  <2>4. <<look.app, look.envs[1]>> \in R!Targets
    BY <2>2, <2>3, EmptyIsShort, ElementOfSeq DEF R!Targets
  <2>5. /\ seen'[r] = seen[r]
        /\ \/ /\ queue'[r] = R!Remaining(queue[r]) \/ queue'[r] = Tail(queue[r])
              /\ pc'[r] = "load"
           \/ /\ pc'[r] = "suspension"
              /\ found'[r].app = look.app /\ found'[r].env = look.envs[1]
              /\ found'[r].build = build
    BY <1>3 DEF LoadEffect, Goes
  <2>6. ASSUME ask[r].custom, pc'[r] = "load"
        PROVE  LooksRouted(r)'
    <3>1. LooksRouted(r) /\ Len(look.envs) = 1
      BY <2>1, <2>6 DEF LooksRouted
    <3>2. queue'[r] = Tail(queue[r])
      BY <1>1, <1>3, <2>5, <2>6, <3>1, RemainingEffect
    <3>3. ASSUME NEW i \in 1..Len(Tail(queue[r]))
          PROVE  i + 1 \in 1..Len(queue[r]) /\ Tail(queue[r])[i] = queue[r][i + 1]
      BY <1>1, <1>3, <2>1, HeadTailProperties
    <3>4. ASSUME NEW i \in 1..Len(queue'[r])
          PROVE  /\ Len(queue'[r][i].envs) = 1
                 /\ \E list \in seen'[r].routes : \E n \in 1..Len(list) :
                      list[n] = [app |-> queue'[r][i].app, env |-> queue'[r][i].envs[1]]
      <4>1. i + 1 \in 1..Len(queue[r]) /\ queue'[r][i] = queue[r][i + 1]
        BY <3>2, <3>3, <3>4
      <4>2. /\ Len(queue[r][i + 1].envs) = 1
            /\ Routed(r, queue[r][i + 1].app, queue[r][i + 1].envs[1])
        BY <3>1, <4>1 DEF LooksRouted
      <4>3. seen'[r] = seen[r]
        BY <2>5
      <4> HIDE DEF look, build
      <4> QED
        BY <4>1, <4>2, <4>3 DEF Routed
    <3> QED
      BY <3>4 DEF LooksRouted, Routed
  <2>7. ASSUME pc'[r] = "suspension"
        PROVE  FoundCurrent(r)'
    <3>1. <<<<look.app, look.envs[1]>>, build>> \in seen[r].builds
      BY <2>4 DEF Sees
    <3>2. ask[r].custom => Routed(r, look.app, look.envs[1])
      BY <2>1 DEF LooksRouted
    <3> HIDE DEF look, build
    <3>3. /\ seen'[r] = seen[r]
          /\ found'[r].app = look.app /\ found'[r].env = look.envs[1]
          /\ found'[r].build = build
      BY <2>5, <2>7
    <3> QED
      BY <3>1, <3>2, <3>3 DEF FoundCurrent, Routed
  <2> QED
    BY <2>6, <2>7
<1> QED
  BY <1>2, <1>3

\* Every step keeps it.
LEMMA StepCurrent ==
  ASSUME RequestInv, NEW r \in Requests, R!Step(r), RunningSees(r), CurrentSoFar(r)
  PROVE  CurrentSoFar(r)'
<1> DEFINE Goal == CurrentSoFar(r)'
<1>0. ask' = ask /\ StepEffect(r)
  BY OthersAlone, StepHasEffect DEF RequestInv, StepOf
<1>a. Running(r) => Sees(r)
  BY DEF RunningSees
<1>b. ASSUME seen'[r] = seen[r], found'[r] = found[r]
      PROVE  (FoundCurrent(r) => FoundCurrent(r)') /\ (FoundAwake(r) => FoundAwake(r)')
  BY <1>0, <1>b DEF FoundCurrent, FoundAwake, Routed
<1> USE DEF Goes, Rejects, CurrentSoFar, Running, Serving, Ends, OfApps
<1>1. ASSUME BeginEffect(r) PROVE Goal
  BY <1>0, <1>1, <1>a, <1>b DEF BeginEffect
<1>2. ASSUME LoadGatewayEffect(r) PROVE Goal
  BY <1>0, <1>2, <1>a, <1>b DEF LoadGatewayEffect
<1>3. ASSUME RunGatewayEffect(r) PROVE Goal
  BY <1>0, <1>3, <1>a, <1>b DEF RunGatewayEffect
<1>4. ASSUME VerdictEffect(r) PROVE Goal
  BY <1>0, <1>4, <1>a, <1>b DEF VerdictEffect
<1>5. ASSUME MiddlewareEffect(r) PROVE Goal
  BY <1>0, <1>5, <1>a, <1>b DEF MiddlewareEffect
<1>6. ASSUME HandlersEffect(r) PROVE Goal
  BY <1>0, <1>6, <1>a, <1>b DEF HandlersEffect
<1>7. ASSUME ResolveEffect(r) PROVE Goal
  <2>1. /\ pc[r] = "resolve"
        /\ Goes(r, "load") \/ Ends(r, "notFound") \/ Ends(r, "platform")
    BY <1>7 DEF ResolveEffect
  <2>2. ask[r].custom /\ pc'[r] = "load" => LooksRouted(r)'
    BY <1>7, <1>a, <2>1, ResolveCurrent
  <2> QED
    BY <1>0, <2>1, <2>2
<1>8. ASSUME LoadEffect(r) PROVE Goal
  <2>1. /\ pc[r] = "load"
        /\ Goes(r, "load") \/ Goes(r, "suspension") \/ Ends(r, "notFound")
    BY <1>8 DEF LoadEffect
  <2>2. /\ ask[r].custom /\ pc'[r] = "load" => LooksRouted(r)'
        /\ pc'[r] = "suspension" => FoundCurrent(r)'
    BY <1>0, <1>8, <1>a, <2>1, LoadCurrent
  <2> QED
    BY <1>0, <2>1, <2>2
<1>9. ASSUME SuspensionEffect(r) PROVE Goal
  <2>1. /\ pc[r] = "suspension" /\ FoundCurrent(r)'
        /\ \/ Ends(r, "suspended")
           \/ /\ <<found[r].app, found[r].env>> \notin suspended
              /\ Goes(r, "first") \/ Goes(r, "exact") \/ Ends(r, "slash")
        /\ seen'[r] = seen[r] /\ found'[r] = found[r]
    BY <1>9, <1>b DEF SuspensionEffect
  <2>2. <<found[r].app, found[r].env>> \notin suspended => FoundAwake(r)'
    BY <1>a, <2>1 DEF FoundAwake, Sees
  <2> QED
    BY <1>0, <2>1, <2>2
<1>10. ASSUME WorkerFirstEffect(r) PROVE Goal
  BY <1>0, <1>10, <1>a, <1>b DEF WorkerFirstEffect
<1>11. ASSUME ExactEffect(r) PROVE Goal
  BY <1>0, <1>11, <1>a, <1>b DEF ExactEffect
<1>12. ASSUME WorkerEffect(r) PROVE Goal
  BY <1>0, <1>12, <1>a, <1>b DEF WorkerEffect
<1>13. ASSUME FallbackEffect(r) PROVE Goal
  BY <1>0, <1>13, <1>a, <1>b DEF FallbackEffect
<1> HIDE DEF Goal
<1>14. Goal
  BY <1>0, <1>1, <1>2, <1>3, <1>4, <1>5, <1>6, <1>7, <1>8, <1>9, <1>10, <1>11, <1>12,
     <1>13, Zenon DEF StepEffect
<1> QED
  BY <1>14 DEF Goal

(***************************************************************************)
(* The three hold of every request after every step.                       *)
(***************************************************************************)
SightsSoFar(r) == RunningSees(r) /\ DomainSoFar(r) /\ CurrentSoFar(r)

AllSights == \A r \in Requests : SightsSoFar(r)

\* So does a change.
LEMMA ChangeSights ==
  ASSUME RequestInv, R!Change, NEW r \in Requests, SightsSoFar(r)
  PROVE  SightsSoFar(r)'
<1>1. /\ UNCHANGED <<ask, pc, inner, queue, found, ran, source>>
      /\ Running(r) => Grows(r) /\ Sees(r)'
      /\ ~ Running(r) => seen'[r] = seen[r]
  BY ChangeEffect
<1>2. RunningSees(r)'
  BY <1>1 DEF RunningSees, Running
<1>3. Grows(r)
  BY <1>1 DEF Grows
<1>4. DomainSoFar(r)'
  BY <1>1, <1>3 DEF SightsSoFar, DomainSoFar, Running, Grows
<1>5. CurrentSoFar(r)'
  <2>1. /\ LooksRouted(r) => LooksRouted(r)'
        /\ FoundCurrent(r) => FoundCurrent(r)'
        /\ FoundAwake(r) => FoundAwake(r)'
    BY <1>1, <1>3, CurrentGrows
  <2> QED
    BY <1>1, <2>1 DEF SightsSoFar, CurrentSoFar, Running
<1> QED
  BY <1>2, <1>4, <1>5 DEF SightsSoFar

\* What leaves a request alone leaves its sights alone.
LEMMA SameSights ==
  ASSUME NEW r \in Requests, SightsSoFar(r), UNCHANGED <<deployed, routes, suspended, ask>>,
         pc'[r] = pc[r], inner'[r] = inner[r], queue'[r] = queue[r],
         found'[r] = found[r], source'[r] = source[r], seen'[r] = seen[r]
  PROVE  SightsSoFar(r)'
<1>1. Sees(r) => Sees(r)'
  BY DEF Sees, R!Targets
<1>2. /\ LooksRouted(r) => LooksRouted(r)'
      /\ FoundCurrent(r) => FoundCurrent(r)'
      /\ FoundAwake(r) => FoundAwake(r)'
  BY CurrentGrows DEF Grows
<1> QED
  BY <1>1, <1>2 DEF SightsSoFar, RunningSees, Running, DomainSoFar, CurrentSoFar

\* Together, for every request.
LEMMA SightsStay ==
  ASSUME RequestInv, AllSights, [R!Next]_R!vars
  PROVE  AllSights'
<1>1. ASSUME NEW r \in Requests, R!Step(r), NEW s \in Requests
      PROVE  SightsSoFar(s)'
  <2>1. StepOf(r)
    BY <1>1, OthersAlone DEF RequestInv
  <2>2. CASE s = r
    <3>1. RunningSees(r) /\ DomainSoFar(r) /\ CurrentSoFar(r)
      BY DEF AllSights, SightsSoFar
    <3>2. RunningSees(r)'
      BY <1>1, <3>1, StepSees DEF RunningSees
    <3>3. DomainSoFar(r)' /\ CurrentSoFar(r)'
      BY <1>1, <3>1, StepDomain, StepCurrent
    <3> QED
      BY <2>2, <3>2, <3>3 DEF SightsSoFar
  <2>3. CASE s # r
    BY <2>1, <2>3, Untouched, SameSights DEF RequestInv, AllSights
  <2> QED
    BY <2>2, <2>3
<1>2. CASE R!Change
  BY <1>2, ChangeSights DEF AllSights
<1>3. CASE UNCHANGED R!vars
  BY <1>3, SameSights DEF AllSights, R!vars
<1> QED
  BY <1>1, <1>2, <1>3 DEF R!Next, AllSights

\* No request has begun at first.
LEMMA SightsAtFirst == R!Init => AllSights
  BY DEF R!Init, AllSights, SightsSoFar, RunningSees, Running, DomainSoFar, CurrentSoFar,
         Serving, OfApps

\* They hold of the answers in particular.
LEMMA SightsSuffice ==
  ASSUME AllSights
  PROVE  R!DomainBelongsToItsApps /\ R!AnswersWereCurrent
<1>1. R!DomainBelongsToItsApps
  BY DEF AllSights, SightsSoFar, DomainSoFar, R!DomainBelongsToItsApps
<1>2. ASSUME NEW r \in Requests, source[r] \in OfApps
      PROVE  FoundCurrent(r) /\ FoundAwake(r)
  BY <1>2 DEF AllSights, SightsSoFar, CurrentSoFar
<1> QED
  BY <1>1, <1>2 DEF R!AnswersWereCurrent, OfApps, FoundCurrent, FoundAwake, Routed

(***************************************************************************)
(* A custom domain that has routes all the while is not answered by the    *)
(* platform, however they move.                                            *)
(***************************************************************************)
THEOREM DomainStaysWithItsApps == R!Spec => []DomainBelongsToItsApps
<1> QED
  BY RequestsInitType, RequestsStepType, SightsAtFirst, SightsStay, SightsSuffice,
     PromisesAlike, PTL DEF R!Spec

(***************************************************************************)
(* What answers was current, routed to and not suspended since the request *)
(* began.                                                                  *)
(***************************************************************************)
THEOREM AnswersStayCurrent == R!Spec => []AnswersWereCurrent
<1> QED
  BY RequestsInitType, RequestsStepType, SightsAtFirst, SightsStay, SightsSuffice,
     PromisesAlike, PTL DEF R!Spec

-----------------------------------------------------------------------------
(***************************************************************************)
(* The environments of lookups are sequences.                              *)
(***************************************************************************)
LEMMA LookTypes ==
  ASSUME NEW looks \in Seq(R!Lookup), NEW i \in 1..Len(looks)
  PROVE  /\ Len(looks) \in Nat
         /\ looks[i] \in R!Lookup
         /\ looks[i].envs \in Seq(Envs)
         /\ Len(looks[i].envs) \in Nat
<1>1. Len(looks) \in Nat /\ looks[i] \in R!Lookup
  BY ElementOfSeq, LenProperties
<1>2. looks[i].envs \in Seq(Envs)
  BY <1>1 DEF R!Lookup
<1> QED
  BY <1>1, <1>2, LenProperties

(***************************************************************************)
(* How far a request has come that looks its candidates up: those before c *)
(* are passed over; it has yet to look up c, without the environments up   *)
(* to j in which c was not deployed when they were looked up, and those    *)
(* after c.                                                                *)
(***************************************************************************)
Passed(q, asked, builds, looks, c, j) ==
  /\ c \in 1..(Len(looks) + 1) /\ j \in Nat
  /\ \A i \in 1..(c - 1) : PassedOver(asked, looks[i], builds)
  /\ Len(q) = Len(looks) - c + 1
  /\ \A i \in 2..Len(q) : q[i] = looks[c + i - 1]
  /\ c <= Len(looks) =>
       /\ q[1].app = looks[c].app /\ q[1].redirects = looks[c].redirects
       /\ Len(q[1].envs) = Len(looks[c].envs) - j
       /\ \A n \in 1..Len(q[1].envs) : q[1].envs[n] = looks[c].envs[n + j]
       /\ \A n \in 1..j : Absent(looks[c], n, builds)

OnTheWay(q, asked, builds, looks) ==
  \E c \in Nat, j \in Nat : Passed(q, asked, builds, looks, c, j)

\* Before the first lookup nothing has been passed.
LEMMA AtTheFirst ==
  ASSUME NEW asked, NEW builds, NEW looks \in Seq(R!Lookup)
  PROVE  OnTheWay(looks, asked, builds, looks)
<1>1. Len(looks) \in Nat
  BY LenProperties
<1>2. \A i \in 1..Len(looks) : Len(looks[i].envs) \in Nat
  BY LookTypes
<1>3. Passed(looks, asked, builds, looks, 1, 0)
  BY <1>1, <1>2 DEF Passed
<1> QED
  BY <1>3 DEF OnTheWay

\* A candidate that is passed over leaves the next.
LEMMA NextPassed ==
  ASSUME NEW q \in Seq(R!Lookup), q # <<>>, NEW looks \in Seq(R!Lookup), NEW asked, NEW builds,
         NEW c, NEW j, Passed(q, asked, builds, looks, c, j),
         PassedOver(asked, looks[c], builds)
  PROVE  OnTheWay(Tail(q), asked, builds, looks)
<1>1. /\ Len(looks) \in Nat /\ Len(q) \in Nat /\ Len(q) > 0
      /\ \A i \in 1..Len(looks) : Len(looks[i].envs) \in Nat
  BY LookTypes, EmptyIsShort
<1>2. c \in Nat /\ c <= Len(looks) /\ c + 1 \in 1..(Len(looks) + 1) /\ c + 1 \in Nat
  BY <1>1 DEF Passed
<1>3. /\ Tail(q) \in Seq(R!Lookup) /\ Len(Tail(q)) = Len(looks) - c
      /\ \A i \in 1..Len(Tail(q)) : Tail(q)[i] = q[i + 1]
  <2>1. Len(q) = Len(looks) - c + 1
    BY DEF Passed
  <2> QED
    BY <1>1, <1>2, <2>1, HeadTailProperties
<1>4. ASSUME NEW i \in 1..Len(Tail(q))
      PROVE  Tail(q)[i] = looks[c + i]
  <2>1. i + 1 \in 2..Len(q) /\ Tail(q)[i] = q[i + 1]
    BY <1>1, <1>2, <1>3 DEF Passed
  <2>2. q[i + 1] = looks[c + (i + 1) - 1] /\ c + (i + 1) - 1 = c + i
    BY <1>2, <2>1 DEF Passed
  <2> QED
    BY <2>1, <2>2
<1>5. \A i \in 1..c : PassedOver(asked, looks[i], builds)
  BY <1>2 DEF Passed
<1>6. Passed(Tail(q), asked, builds, looks, c + 1, 0)
  <2>1. ASSUME NEW i \in 2..Len(Tail(q))
        PROVE  Tail(q)[i] = looks[(c + 1) + i - 1]
    <3>1. Len(Tail(q)) \in Nat
      BY <1>3, LenProperties
    <3>2. i \in 1..Len(Tail(q)) /\ (c + 1) + i - 1 = c + i
      BY <1>2, <3>1
    <3> QED
      BY <1>4, <3>2
  <2>2. c + 1 <= Len(looks) => Tail(q)[1] = looks[c + 1]
    BY <1>1, <1>2, <1>3, <1>4
  <2>3. c + 1 <= Len(looks) => Len(looks[c + 1].envs) \in Nat
    BY <1>1, <1>2
  <2>4. \A i \in 1..((c + 1) - 1) : PassedOver(asked, looks[i], builds)
    BY <1>2, <1>5
  <2>5. Len(Tail(q)) = Len(looks) - (c + 1) + 1
    BY <1>1, <1>2, <1>3
  <2> QED
    BY <1>2, <2>1, <2>2, <2>3, <2>4, <2>5 DEF Passed
<1> QED
  BY <1>2, <1>6 DEF OnTheWay

(***************************************************************************)
(* The lookup that comes next is that of candidate c, in its environment   *)
(* after the j that were looked up.                                        *)
(***************************************************************************)
LEMMA NextLookup ==
  ASSUME NEW q \in Seq(R!Lookup), q # <<>>, \A i \in 1..Len(q) : q[i].envs # <<>>,
         NEW looks \in Seq(R!Lookup), NEW asked, NEW builds,
         NEW c \in Nat, NEW j \in Nat, Passed(q, asked, builds, looks, c, j)
  PROVE  /\ c \in 1..Len(looks) /\ looks[c] \in R!Lookup
         /\ Len(looks[c].envs) \in Nat /\ Len(q[1].envs) \in Nat
         /\ j + 1 \in 1..Len(looks[c].envs)
         /\ q[1].app = looks[c].app /\ q[1].redirects = looks[c].redirects
         /\ Len(q[1].envs) = Len(looks[c].envs) - j
         /\ q[1].envs[1] = looks[c].envs[j + 1]
         /\ KeyAt(q[1], 1) = KeyAt(looks[c], j + 1)
<1>1. /\ Len(looks) \in Nat /\ Len(q) \in Nat /\ Len(q) > 0 /\ 1 \in 1..Len(q)
  BY EmptyIsShort
<1>2. c \in 1..Len(looks)
  BY <1>1 DEF Passed
<1>3. looks[c] \in R!Lookup /\ Len(looks[c].envs) \in Nat
  BY <1>2, LookTypes
<1>4. q[1].envs \in Seq(Envs) /\ q[1].envs # <<>>
  BY <1>1, LookTypes
<1>5. Len(q[1].envs) \in Nat /\ Len(q[1].envs) > 0 /\ 1 \in 1..Len(q[1].envs)
  BY <1>4, EmptyIsShort
<1>6. /\ q[1].app = looks[c].app /\ q[1].redirects = looks[c].redirects
      /\ Len(q[1].envs) = Len(looks[c].envs) - j
      /\ \A n \in 1..Len(q[1].envs) : q[1].envs[n] = looks[c].envs[n + j]
  BY <1>2 DEF Passed
<1>7. q[1].envs[1] = looks[c].envs[1 + j] /\ 1 + j = j + 1
  BY <1>5, <1>6
<1> QED
  BY <1>2, <1>3, <1>5, <1>6, <1>7 DEF KeyAt

(***************************************************************************)
(* An environment in which the app was not deployed is passed.             *)
(***************************************************************************)
LEMMA EnvironmentPassed ==
  ASSUME NEW q \in Seq(R!Lookup), q # <<>>, \A i \in 1..Len(q) : q[i].envs # <<>>,
         NEW looks \in Seq(R!Lookup), NEW asked, NEW builds,
         OnTheWay(q, asked, builds, looks), Absent(q[1], 1, builds)
  PROVE  OnTheWay(R!Remaining(q), asked, builds, looks)
<1>1. PICK c \in Nat, j \in Nat : Passed(q, asked, builds, looks, c, j)
  BY DEF OnTheWay
<1>2. /\ c \in 1..Len(looks) /\ looks[c] \in R!Lookup
      /\ Len(looks[c].envs) \in Nat /\ Len(q[1].envs) \in Nat
      /\ j + 1 \in 1..Len(looks[c].envs)
      /\ q[1].app = looks[c].app /\ q[1].redirects = looks[c].redirects
      /\ Len(q[1].envs) = Len(looks[c].envs) - j
      /\ KeyAt(q[1], 1) = KeyAt(looks[c], j + 1)
  BY <1>1, NextLookup
<1>3. \A n \in 1..(j + 1) : Absent(looks[c], n, builds)
  <2>1. \A n \in 1..j : Absent(looks[c], n, builds)
    BY <1>1, <1>2 DEF Passed
  <2>2. Absent(looks[c], j + 1, builds)
    BY <1>2 DEF Absent
  <2>3. \A n \in 1..(j + 1) : n \in 1..j \/ n = j + 1
    OBVIOUS
  <2> QED
    BY <2>1, <2>2, <2>3
<1>4. CASE Len(q[1].envs) = 1
  <2>0. \A l \in Nat : l - j = 1 => l = j + 1
    OBVIOUS
  <2>1. Len(looks[c].envs) = j + 1
    <3>1. Len(looks[c].envs) \in Nat /\ Len(looks[c].envs) - j = 1
      BY <1>2, <1>4
    <3> QED
      BY <2>0, <3>1
  <2>2. PassedOver(asked, looks[c], builds)
    BY <1>3, <2>1 DEF PassedOver
  <2>3. R!Remaining(q) = Tail(q)
    BY <1>4 DEF R!Remaining
  <2> QED
    BY <1>1, <2>2, <2>3, NextPassed
<1>5. CASE Len(q[1].envs) # 1
  <2> DEFINE rest == R!Remaining(q)
  <2>1. /\ Len(rest) = Len(q)
        /\ rest[1].app = q[1].app /\ rest[1].redirects = q[1].redirects
        /\ rest[1].envs = Tail(q[1].envs)
        /\ \A i \in 2..Len(q) : rest[i] = q[i]
    BY <1>5, RemainingEffect
  <2>2. q[1].envs \in Seq(Envs) /\ q[1].envs # <<>>
    BY EmptyIsShort, LookTypes
  <2>3. /\ Len(Tail(q[1].envs)) = Len(q[1].envs) - 1
        /\ \A n \in 1..Len(Tail(q[1].envs)) : Tail(q[1].envs)[n] = q[1].envs[n + 1]
    BY <2>2, HeadTailProperties
  <2> HIDE DEF rest
  <2>4. Len(rest[1].envs) = Len(looks[c].envs) - (j + 1)
    BY <1>2, <2>1, <2>3
  <2>5. ASSUME NEW n \in 1..Len(rest[1].envs)
        PROVE  rest[1].envs[n] = looks[c].envs[n + (j + 1)]
    <3>1. n \in 1..Len(Tail(q[1].envs)) /\ rest[1].envs[n] = q[1].envs[n + 1]
      BY <2>1, <2>3, <2>5
    <3>2. n + 1 \in 1..Len(q[1].envs)
      BY <1>2, <2>3, <3>1
    <3>3. q[1].envs[n + 1] = looks[c].envs[(n + 1) + j]
      BY <1>1, <1>2, <3>2 DEF Passed
    <3>4. (n + 1) + j = n + (j + 1)
      BY <3>1, <1>2
    <3> QED
      BY <3>1, <3>3, <3>4
  <2>6. /\ c \in 1..(Len(looks) + 1)
        /\ \A i \in 1..(c - 1) : PassedOver(asked, looks[i], builds)
        /\ Len(q) = Len(looks) - c + 1
        /\ \A i \in 2..Len(q) : q[i] = looks[c + i - 1]
    BY <1>1 DEF Passed
  <2>7. Passed(rest, asked, builds, looks, c, j + 1)
    <3>1. j + 1 \in Nat
      OBVIOUS
    <3>2. \A i \in 2..Len(rest) : rest[i] = looks[c + i - 1]
      BY <2>1, <2>6
    <3>3. Len(rest) = Len(looks) - c + 1
      BY <2>1, <2>6
    <3>4. /\ rest[1].app = looks[c].app /\ rest[1].redirects = looks[c].redirects
      BY <1>2, <2>1
    <3> QED
      BY <1>3, <2>4, <2>5, <2>6, <3>1, <3>2, <3>3, <3>4 DEF Passed
  <2> QED
    BY <2>7 DEF OnTheWay, rest
<1> QED
  BY <1>4, <1>5

(***************************************************************************)
(* A request has settled on the build of the first candidate that was not  *)
(* passed over.                                                            *)
(***************************************************************************)
FoundAt(finding, asked, builds, looks) ==
  \E i \in 1..Len(looks) :
    /\ \A j \in 1..(i - 1) : PassedOver(asked, looks[j], builds)
    /\ \E n \in 1..Len(looks[i].envs) :
         /\ Serves(asked, looks[i], n, finding.build, builds)
         /\ <<finding.app, finding.env>> = KeyAt(looks[i], n)
         /\ finding.redirects = looks[i].redirects

\* A build that is found decides of its candidate, by whether it is kept off the host.
LEMMA FoundDecides ==
  ASSUME NEW q \in Seq(R!Lookup), q # <<>>, \A i \in 1..Len(q) : q[i].envs # <<>>,
         NEW looks \in Seq(R!Lookup), NEW asked, NEW builds, OnTheWay(q, asked, builds, looks),
         NEW build \in Builds, <<KeyAt(q[1], 1), build>> \in builds, NEW finding,
         finding.build = build, <<finding.app, finding.env>> = KeyAt(q[1], 1),
         finding.redirects = q[1].redirects
  PROVE  /\ OffHosts(asked, build) => OnTheWay(Tail(q), asked, builds, looks)
         /\ ~ OffHosts(asked, build) => FoundAt(finding, asked, builds, looks)
<1>1. PICK c \in Nat, j \in Nat : Passed(q, asked, builds, looks, c, j)
  BY DEF OnTheWay
<1>2. /\ c \in 1..Len(looks) /\ looks[c] \in R!Lookup
      /\ Len(looks[c].envs) \in Nat
      /\ j + 1 \in 1..Len(looks[c].envs)
      /\ q[1].redirects = looks[c].redirects
      /\ KeyAt(q[1], 1) = KeyAt(looks[c], j + 1)
  BY <1>1, NextLookup
<1>3. AbsentBefore(looks[c], j + 1, builds)
  <2>1. \A n \in 1..j : Absent(looks[c], n, builds)
    BY <1>1, <1>2 DEF Passed
  <2>2. (j + 1) - 1 = j
    OBVIOUS
  <2> QED
    BY <2>1, <2>2 DEF AbsentBefore
<1>4. ASSUME OffHosts(asked, build)
      PROVE  OnTheWay(Tail(q), asked, builds, looks)
  <2>1. OffHostsAt(asked, looks[c], j + 1, builds)
    BY <1>2, <1>4 DEF OffHostsAt
  <2>2. HidesTheRest(asked, looks[c], builds)
    BY <1>2, <1>3, <2>1 DEF HidesTheRest
  <2> QED
    BY <1>1, <2>2, NextPassed DEF PassedOver
<1>5. ASSUME ~ OffHosts(asked, build)
      PROVE  FoundAt(finding, asked, builds, looks)
  <2>1. Serves(asked, looks[c], j + 1, finding.build, builds)
    BY <1>2, <1>3, <1>5 DEF Serves
  <2>2. \A i \in 1..(c - 1) : PassedOver(asked, looks[i], builds)
    BY <1>1 DEF Passed
  <2> QED
    BY <1>2, <2>1, <2>2 DEF FoundAt
<1> QED
  BY <1>4, <1>5

(***************************************************************************)
(* When nothing is left to be looked up, all candidates are passed over.   *)
(***************************************************************************)
LEMMA AllPassedOver ==
  ASSUME NEW looks \in Seq(R!Lookup), NEW asked, NEW builds, NEW asleep,
         OnTheWay(<<>>, asked, builds, looks)
  PROVE  ByPriority(asked, "notFound", looks, builds, asleep)
<1>1. PICK c \in Nat, j \in Nat : Passed(<<>>, asked, builds, looks, c, j)
  BY DEF OnTheWay
<1>2. Len(looks) \in Nat
  BY LenProperties
<1>3. c = Len(looks) + 1
  BY <1>1, <1>2 DEF Passed
<1> QED
  BY <1>1, <1>2, <1>3 DEF Passed, ByPriority

\* What the build that was found answers is the answer by the priority.
LEMMA AnswerOfFound ==
  ASSUME NEW asked, NEW builds, NEW looks, NEW asleep, NEW finding, finding.build \in Builds,
         FoundAt(finding, asked, builds, looks), NEW from,
         from = IF <<finding.app, finding.env>> \in asleep THEN "suspended"
                ELSE Answer(asked, finding.build, finding.redirects)
  PROVE  ByPriority(asked, from, looks, builds, asleep)
<1>1. PICK i \in 1..Len(looks) :
        /\ \A j \in 1..(i - 1) : PassedOver(asked, looks[j], builds)
        /\ \E n \in 1..Len(looks[i].envs) :
             /\ Serves(asked, looks[i], n, finding.build, builds)
             /\ <<finding.app, finding.env>> = KeyAt(looks[i], n)
             /\ finding.redirects = looks[i].redirects
  BY DEF FoundAt
<1>2. PICK n \in 1..Len(looks[i].envs) :
        /\ Serves(asked, looks[i], n, finding.build, builds)
        /\ <<finding.app, finding.env>> = KeyAt(looks[i], n)
        /\ finding.redirects = looks[i].redirects
  BY <1>1
<1>3. from = IF KeyAt(looks[i], n) \in asleep THEN "suspended"
             ELSE Answer(asked, finding.build, looks[i].redirects)
  BY <1>2
<1> QED
  BY <1>1, <1>2, <1>3 DEF ByPriority

(***************************************************************************)
(* Having seen more, a request has passed over and found the same.         *)
(***************************************************************************)
LEMMA PassedOverStays ==
  ASSUME NEW asked, NEW look, NEW builds, NEW more, builds \subseteq more
  PROVE  /\ PassedOver(asked, look, builds) => PassedOver(asked, look, more)
         /\ \A n, b : Serves(asked, look, n, b, builds) => Serves(asked, look, n, b, more)
<1>1. /\ \A n : Absent(look, n, builds) => Absent(look, n, more)
      /\ \A n : OffHostsAt(asked, look, n, builds) => OffHostsAt(asked, look, n, more)
  BY DEF Absent, OffHostsAt
<1>2. \A n : AbsentBefore(look, n, builds) => AbsentBefore(look, n, more)
  BY <1>1 DEF AbsentBefore
<1> QED
  BY <1>1, <1>2 DEF PassedOver, HidesTheRest, Serves

\* So it has come as far as before.
LEMMA ProgressStays ==
  ASSUME NEW asked, NEW looks, NEW builds, NEW more, builds \subseteq more
  PROVE  /\ \A q : OnTheWay(q, asked, builds, looks) => OnTheWay(q, asked, more, looks)
         /\ \A finding : FoundAt(finding, asked, builds, looks) =>
                           FoundAt(finding, asked, more, looks)
         /\ \A from, asleep : ByPriority(asked, from, looks, builds, asleep) =>
                                ByPriority(asked, from, looks, more, asleep)
<1>1. /\ \A look : PassedOver(asked, look, builds) => PassedOver(asked, look, more)
      /\ \A look, n, b : Serves(asked, look, n, b, builds) => Serves(asked, look, n, b, more)
      /\ \A look, n : Absent(look, n, builds) => Absent(look, n, more)
  BY PassedOverStays DEF Absent
<1>2. ASSUME NEW q, OnTheWay(q, asked, builds, looks)
      PROVE  OnTheWay(q, asked, more, looks)
  <2>1. PICK c \in Nat, j \in Nat : Passed(q, asked, builds, looks, c, j)
    BY <1>2 DEF OnTheWay
  <2>2. Passed(q, asked, more, looks, c, j)
    BY <1>1, <2>1 DEF Passed
  <2> QED
    BY <2>2 DEF OnTheWay
<1>3. ASSUME NEW finding, FoundAt(finding, asked, builds, looks)
      PROVE  FoundAt(finding, asked, more, looks)
  BY <1>1, <1>3 DEF FoundAt
<1>4. ASSUME NEW from, NEW asleep, ByPriority(asked, from, looks, builds, asleep)
      PROVE  ByPriority(asked, from, looks, more, asleep)
  BY <1>1, <1>4 DEF ByPriority
<1> QED
  BY <1>2, <1>3, <1>4

(***************************************************************************)
(* How far a request for a page has come: it has passed over candidates    *)
(* rightly, by what it has seen, or has found the build that is to answer  *)
(* and passed what does not answer of it, or has its answer.               *)
(***************************************************************************)
Plain(r) ==
  ask[r].kind = "page" /\ ~ ask[r].mail /\ (ask[r].custom => <<>> \notin seen[r].routes)

LooksRightly(r) ==
  \E list \in seen[r].routes \cap RouteLists :
    OnTheWay(queue[r], ask[r], seen[r].builds, R!Lookups(ask[r], list))

FoundRightly(r) ==
  \E list \in seen[r].routes \cap RouteLists :
    FoundAt(found[r], ask[r], seen[r].builds, R!Lookups(ask[r], list))

AnsweredRightly(r) ==
  \E list \in seen[r].routes, asleep \in seen[r].suspended :
    ByPriority(ask[r], source[r], R!Lookups(ask[r], list), seen[r].builds, asleep)

PriorityAt(r) ==
  LET build == found[r].build
      slash == found[r].redirects /\ build.site /\ ask[r].get
  IN
  /\ pc[r] \notin {"gateway", "gatewayRuns", "verdict"}
  /\ pc[r] = "middleware" => ask[r].custom
  /\ pc[r] = "handlers" => ~ ask[r].custom
  /\ pc[r] \in {"resolve", "load"} \cup Serving => (inner[r] <=> ask[r].custom)
  /\ pc[r] = "load" => LooksRightly(r)
  /\ pc[r] \in Serving => FoundRightly(r)
  /\ pc[r] \in Serving \ {"suspension"} => FoundAwake(r) /\ ~ slash
  /\ pc[r] = "first" => ask[r].custom
  /\ pc[r] \in {"exact", "worker", "fallback"} =>
       ~ (ask[r].custom /\ build.says = "redirect")
  /\ pc[r] \in {"worker", "fallback"} => ~ (ask[r].get /\ build.exact)
  /\ pc[r] = "fallback" => build.says = "none" \/ (ask[r].get /\ build.says = "missing")
  /\ pc[r] = "answered" => AnsweredRightly(r)

OuterFirst(r) == pc[r] \in {"new", "middleware", "handlers"} => ~ inner[r]

Priority(r) == OuterFirst(r) /\ (Plain(r) /\ pc[r] # "new" => PriorityAt(r))

(***************************************************************************)
(* What a request for a page is about to read has its types.               *)
(***************************************************************************)
LEMMA PageFacts ==
  ASSUME RequestInv, NEW r \in Requests
  PROVE  /\ ask[r].custom \in BOOLEAN /\ ask[r].get \in BOOLEAN /\ ask[r].mail \in BOOLEAN
         /\ inner[r] \in BOOLEAN
         /\ pc[r] \in Serving =>
              /\ found[r].redirects \in BOOLEAN
              /\ found[r].build \in Builds
              /\ found[r].build.says \in {"none", "ok", "error", "redirect", "missing"}
              /\ found[r].build.site \in BOOLEAN /\ found[r].build.exact \in BOOLEAN
              /\ found[r].build.index \in BOOLEAN
<1>1. OwnType(r)
  BY OwnFacts
<1>2. pc[r] \in Serving => found[r].build \in Builds /\ found[r] \in R!Findings
  BY <1>1 DEF OwnType
<1>3. pc[r] \in Serving => found[r] # R!Unfound
  BY <1>2, RegistriesAssumption DEF R!Unfound
<1>4. pc[r] \in Serving => found[r].redirects \in BOOLEAN
  BY <1>2, <1>3 DEF R!Findings
<1> QED
  BY <1>1, <1>2, <1>4, OwnFacts, BuildsAre DEF OwnType, R!Build

\* A lookup passes a candidate, or one of its environments, or ends at the right one.
LEMMA LoadPriority ==
  ASSUME RequestInv, NEW r \in Requests, LoadEffect(r), ask' = ask, Sees(r), Plain(r),
         PriorityAt(r)
  PROVE  PriorityAt(r)'
<1> DEFINE q     == queue[r]
           asked == ask[r]
           build == deployed[KeyAt(q[1], 1)]
           builds == seen[r].builds
<1>1. /\ q \in Seq(R!Lookup) /\ \A i \in 1..Len(q) : q[i].envs # <<>>
      /\ asked \in Asks /\ pc[r] = "load" /\ ~ asked.mail
      /\ inner[r] <=> asked.custom
  BY OwnFacts DEF OwnType, LoadEffect, Plain, PriorityAt
<1>2. PICK list \in seen[r].routes \cap RouteLists :
        OnTheWay(q, asked, builds, R!Lookups(asked, list))
  BY <1>1 DEF PriorityAt, LooksRightly
<1> DEFINE looks == R!Lookups(asked, list)
<1>3. looks \in Seq(R!Lookup)
  BY <1>1, <1>2, LookupsType
<1>4. /\ inner'[r] = inner[r] /\ ask'[r] = ask[r] /\ seen'[r] = seen[r]
      /\ \/ q = <<>> /\ pc'[r] = "answered" /\ source'[r] = "notFound"
         \/ /\ q # <<>> /\ build = None
            /\ queue'[r] = R!Remaining(q) /\ pc'[r] = "load"
         \/ /\ q # <<>> /\ build # None /\ OffHosts(asked, build)
            /\ queue'[r] = Tail(q) /\ pc'[r] = "load"
         \/ /\ q # <<>> /\ build # None /\ ~ OffHosts(asked, build)
            /\ <<found'[r].app, found'[r].env>> = KeyAt(q[1], 1)
            /\ found'[r].build = build /\ found'[r].redirects = q[1].redirects
            /\ pc'[r] = "suspension"
  BY <1>1 DEF LoadEffect, Goes, Ends, KeyAt, OffHosts
<1>5. ASSUME q # <<>>
      PROVE  /\ <<KeyAt(q[1], 1), build>> \in builds
             /\ build # None => build \in Builds
  <2>1. q[1] \in R!Lookup /\ q[1].envs \in Seq(Envs) /\ q[1].envs # <<>>
    BY <1>1, <1>5, EmptyIsShort, LookTypes
  <2>2. q[1].app \in Apps /\ q[1].envs[1] \in Envs
    BY <2>1, EmptyIsShort, ElementOfSeq DEF R!Lookup
  <2>3. KeyAt(q[1], 1) \in R!Targets
    BY <2>2 DEF KeyAt, R!Targets
  <2> QED
    BY <2>3 DEF Sees, RequestInv, R!TypeOK
<1> HIDE DEF looks, q, build, asked, builds
<1>6. CASE q = <<>>
  <2>1. PICK asleep \in seen[r].suspended : TRUE
    BY DEF Sees
  <2>2. ByPriority(asked, "notFound", looks, builds, asleep)
    BY <1>2, <1>3, <1>6, AllPassedOver DEF looks
  <2>3. pc'[r] = "answered" /\ source'[r] = "notFound"
    BY <1>4, <1>6
  <2>4. AnsweredRightly(r)'
    BY <1>2, <1>4, <2>1, <2>2, <2>3 DEF AnsweredRightly, looks, builds, asked
  <2> QED
    BY <2>3, <2>4 DEF PriorityAt, Serving
<1>7. CASE q # <<>> /\ pc'[r] = "load"
  <2>1. CASE build = None
    <3>1. Absent(q[1], 1, builds)
      BY <1>5, <1>7, <2>1 DEF Absent
    <3>2. OnTheWay(R!Remaining(q), asked, builds, looks)
      BY <1>1, <1>2, <1>3, <1>7, <3>1, EnvironmentPassed DEF looks
    <3>3. queue'[r] = R!Remaining(q)
      BY <1>4, <1>7, <2>1
    <3>4. LooksRightly(r)'
      BY <1>2, <1>4, <3>2, <3>3 DEF LooksRightly, looks, builds, asked
    <3> QED
      BY <1>1, <1>4, <1>7, <3>4 DEF PriorityAt, Serving, asked
  <2>2. CASE build # None
    <3>1. OffHosts(asked, build) /\ queue'[r] = Tail(q)
      BY <1>4, <1>7, <2>2
    <3> DEFINE finding == [app |-> KeyAt(q[1], 1)[1], env |-> KeyAt(q[1], 1)[2],
                           build |-> build, redirects |-> q[1].redirects]
    <3>2. /\ finding.build = build /\ finding.redirects = q[1].redirects
          /\ <<finding.app, finding.env>> = KeyAt(q[1], 1)
      BY DEF KeyAt
    <3> HIDE DEF finding
    <3>3. OnTheWay(Tail(q), asked, builds, looks)
      BY <1>1, <1>2, <1>3, <1>5, <1>7, <2>2, <3>1, <3>2, FoundDecides DEF looks
    <3>4. LooksRightly(r)'
      BY <1>2, <1>4, <3>1, <3>3 DEF LooksRightly, looks, builds, asked
    <3> QED
      BY <1>1, <1>4, <1>7, <3>4 DEF PriorityAt, Serving, asked
  <2> QED
    BY <2>1, <2>2
<1>8. CASE q # <<>> /\ pc'[r] # "load"
  <2>1. /\ build # None /\ ~ OffHosts(asked, build)
        /\ <<found'[r].app, found'[r].env>> = KeyAt(q[1], 1)
        /\ found'[r].build = build /\ found'[r].redirects = q[1].redirects
        /\ pc'[r] = "suspension"
    BY <1>4, <1>8
  <2> DEFINE finding == found'[r]
  <2>2. /\ finding.build = build /\ finding.redirects = q[1].redirects
        /\ <<finding.app, finding.env>> = KeyAt(q[1], 1)
    BY <2>1
  <2> HIDE DEF finding
  <2>3. FoundAt(finding, asked, builds, looks)
    BY <1>1, <1>2, <1>3, <1>5, <1>8, <2>1, <2>2, FoundDecides DEF looks
  <2>4. FoundRightly(r)'
    BY <1>2, <1>4, <2>3 DEF FoundRightly, looks, builds, asked, finding
  <2> QED
    BY <1>1, <1>4, <2>1, <2>4 DEF PriorityAt, Serving, asked
<1> QED
  BY <1>6, <1>7, <1>8

(***************************************************************************)
(* The answer of the build that was found is right, once the request knows *)
(* whether its app is suspended.                                           *)
(***************************************************************************)
LEMMA EndsRightly ==
  ASSUME NEW r \in Requests, FoundRightly(r), found[r].build \in Builds,
         seen'[r] = seen[r], ask'[r] = ask[r],
         \/ /\ source'[r] = "suspended"
            /\ suspended \in seen[r].suspended /\ <<found[r].app, found[r].env>> \in suspended
         \/ /\ source'[r] = Answer(ask[r], found[r].build, found[r].redirects)
            /\ FoundAwake(r)
  PROVE  AnsweredRightly(r)'
<1>1. PICK list \in seen[r].routes :
        FoundAt(found[r], ask[r], seen[r].builds, R!Lookups(ask[r], list))
  BY DEF FoundRightly
<1>2. PICK asleep \in seen[r].suspended :
        source'[r] = IF <<found[r].app, found[r].env>> \in asleep THEN "suspended"
                     ELSE Answer(ask[r], found[r].build, found[r].redirects)
  BY DEF FoundAwake
<1>3. ByPriority(ask[r], source'[r], R!Lookups(ask[r], list), seen[r].builds, asleep)
  BY <1>1, <1>2, AnswerOfFound
<1> QED
  BY <1>1, <1>2, <1>3 DEF AnsweredRightly

\* A step within the build leaves what was found.
LEMMA StaysFound ==
  ASSUME NEW r \in Requests, seen'[r] = seen[r], ask'[r] = ask[r], found'[r] = found[r]
  PROVE  /\ FoundRightly(r) => FoundRightly(r)'
         /\ FoundAwake(r) => FoundAwake(r)'
  BY DEF FoundRightly, FoundAwake

\* The routes of a custom domain do not redirect to a directory.
LEMMA FoundSlashOnHosts ==
  ASSUME RequestInv, NEW r \in Requests, FoundRightly(r), found[r].redirects = TRUE
  PROVE  ~ ask[r].custom
<1>1. PICK list \in seen[r].routes \cap RouteLists :
        FoundAt(found[r], ask[r], seen[r].builds, R!Lookups(ask[r], list))
  BY DEF FoundRightly
<1>2. PICK i \in 1..Len(R!Lookups(ask[r], list)) :
        found[r].redirects = R!Lookups(ask[r], list)[i].redirects
  BY <1>1 DEF FoundAt
<1>3. SUFFICES ASSUME ask[r].custom
               PROVE  FALSE
  OBVIOUS
<1>4. ask[r] \in Asks
  BY DEF RequestInv, R!TypeOK
<1>5. R!Lookups(ask[r], list)[i].redirects = FALSE
  <2>1. i \in 1..Len(list)
    BY <1>3, <1>4, LookupsType
  <2>2. R!Lookups(ask[r], list)[i] =
          [app |-> list[i].app, envs |-> <<list[i].env>>, redirects |-> FALSE]
    BY <1>3, <1>4, <2>1, LookupsType
  <2> QED
    BY <2>2
<1> QED
  BY <1>2, <1>5

\* Every step of the request follows the priority.
LEMMA StepPriority ==
  ASSUME RequestInv, NEW r \in Requests, R!Step(r), pc[r] # "new", OuterFirst(r), Sees(r),
         Plain(r), PriorityAt(r)
  PROVE  PriorityAt(r)'
<1> DEFINE Goal == PriorityAt(r)'
           key == <<found[r].app, found[r].env>>
           by == Answer(ask[r], found[r].build, found[r].redirects)
           slash == found[r].redirects /\ found[r].build.site /\ ask[r].get
           says == found[r].build.says
<1>0. ask' = ask /\ StepEffect(r) /\ ~ ask[r].mail /\ ask[r].kind = "page"
  BY OthersAlone, StepHasEffect DEF RequestInv, StepOf, Plain
<1>a. /\ ask[r].custom \in BOOLEAN /\ ask[r].get \in BOOLEAN /\ inner[r] \in BOOLEAN
      /\ pc[r] \in Serving =>
           /\ found[r].redirects \in BOOLEAN /\ found[r].build \in Builds
           /\ found[r].build.says \in {"none", "ok", "error", "redirect", "missing"}
           /\ found[r].build.site \in BOOLEAN /\ found[r].build.exact \in BOOLEAN
           /\ found[r].build.index \in BOOLEAN
  BY PageFacts
<1>b. ask[r].custom => routes # <<>>
  BY DEF Plain, Sees
<1>c. ASSUME pc[r] \in Serving, seen'[r] = seen[r], found'[r] = found[r],
             pc'[r] = "answered", source'[r] = by, FoundAwake(r)
      PROVE  Goal
  <2>1. AnsweredRightly(r)'
    BY <1>0, <1>a, <1>c, EndsRightly DEF PriorityAt
  <2> QED
    BY <1>c, <2>1 DEF PriorityAt, Serving
<1>d. ASSUME pc[r] \in Serving, seen'[r] = seen[r], found'[r] = found[r], inner'[r] = inner[r]
      PROVE  /\ FoundRightly(r)' /\ (FoundAwake(r) => FoundAwake(r)')
             /\ inner'[r] <=> ask'[r].custom
  BY <1>0, <1>d, StaysFound DEF PriorityAt
<1> USE DEF Goes, Ends, Rejects, Serving
<1>1. ASSUME BeginEffect(r) PROVE Goal
  BY <1>1 DEF BeginEffect
<1>2. ASSUME LoadGatewayEffect(r) PROVE Goal
  BY <1>2 DEF LoadGatewayEffect, PriorityAt
<1>3. ASSUME RunGatewayEffect(r) PROVE Goal
  BY <1>3 DEF RunGatewayEffect, PriorityAt
<1>4. ASSUME VerdictEffect(r) PROVE Goal
  BY <1>4 DEF VerdictEffect, PriorityAt
<1>5. ASSUME MiddlewareEffect(r) PROVE Goal
  <2>1. pc'[r] = "resolve" /\ inner'[r] = TRUE /\ ask[r].custom
    BY <1>5, <1>b DEF MiddlewareEffect, PriorityAt
  <2> QED
    BY <1>0, <2>1 DEF PriorityAt
<1>6. ASSUME HandlersEffect(r) PROVE Goal
  <2>1. pc'[r] = "resolve" /\ inner'[r] = inner[r] /\ ~ ask[r].custom /\ ~ inner[r]
    BY <1>0, <1>6 DEF HandlersEffect, PriorityAt, OuterFirst
  <2> QED
    BY <1>0, <2>1 DEF PriorityAt
<1>7. ASSUME ResolveEffect(r) PROVE Goal
  <2>1. /\ pc'[r] = "load" /\ inner'[r] = inner[r] /\ (inner[r] <=> ask[r].custom)
        /\ queue'[r] = R!Lookups(ask[r], routes) /\ seen'[r] = seen[r]
    BY <1>0, <1>7, <1>b DEF ResolveEffect, PriorityAt
  <2>2. ask[r] \in Asks /\ routes \in RouteLists /\ routes \in seen[r].routes
    BY DEF RequestInv, R!TypeOK, Sees
  <2>3. OnTheWay(queue'[r], ask[r], seen[r].builds, R!Lookups(ask[r], routes))
    BY <2>1, <2>2, LookupsType, AtTheFirst
  <2>4. LooksRightly(r)'
    BY <1>0, <2>1, <2>2, <2>3 DEF LooksRightly
  <2> QED
    BY <1>0, <2>1, <2>4 DEF PriorityAt
<1>8. ASSUME LoadEffect(r) PROVE Goal
  BY <1>0, <1>8, LoadPriority
<1>9. ASSUME SuspensionEffect(r) PROVE Goal
  <2>1. /\ pc[r] = "suspension" /\ FoundRightly(r)
        /\ inner'[r] = inner[r] /\ found'[r] = found[r] /\ seen'[r] = seen[r]
        /\ ask'[r] = ask[r] /\ suspended \in seen[r].suspended
    BY <1>0, <1>9 DEF SuspensionEffect, PriorityAt, Sees
  <2>2. \/ key \in suspended /\ pc'[r] = "answered" /\ source'[r] = "suspended"
        \/ key \notin suspended /\ slash /\ pc'[r] = "answered" /\ source'[r] = "slash"
        \/ /\ key \notin suspended /\ ~ slash
           /\ \/ ask[r].custom /\ pc'[r] = "first"
              \/ ~ (ask[r].custom /\ says # "none") /\ pc'[r] = "exact"
    BY <1>0, <1>9 DEF SuspensionEffect
  <2>3. key \notin suspended => FoundAwake(r)
    BY <2>1 DEF FoundAwake
  <2>4. CASE key \in suspended
    <3>1. AnsweredRightly(r)' /\ pc'[r] = "answered"
      BY <1>a, <2>1, <2>2, <2>4, EndsRightly
    <3> QED
      BY <3>1 DEF PriorityAt
  <2>5. CASE key \notin suspended /\ slash
    <3>1. by = "slash" \/ (ask[r].custom /\ says = "redirect")
      BY <2>5 DEF Answer, Documented
    <3>2. found[r].redirects = TRUE
      BY <1>a, <2>1, <2>5
    <3>3. ~ ask[r].custom
      BY <2>1, <3>2, FoundSlashOnHosts
    <3> QED
      BY <1>c, <2>1, <2>2, <2>3, <2>5, <3>1, <3>3
  <2>6. CASE key \notin suspended /\ ~ slash
    <3>1. /\ FoundRightly(r)' /\ FoundAwake(r)' /\ (inner'[r] <=> ask'[r].custom)
          /\ ~ (found'[r].redirects /\ found'[r].build.site /\ ask'[r].get)
      BY <1>d, <2>1, <2>3, <2>6
    <3>2. \/ ask'[r].custom /\ pc'[r] = "first"
          \/ ~ (ask'[r].custom /\ found'[r].build.says = "redirect") /\ pc'[r] = "exact"
      BY <2>1, <2>2, <2>6
    <3> QED
      BY <3>1, <3>2 DEF PriorityAt
  <2> QED
    BY <2>4, <2>5, <2>6
<1>10. ASSUME WorkerFirstEffect(r) PROVE Goal
  <2>1. /\ pc[r] = "first" /\ seen'[r] = seen[r] /\ ask'[r] = ask[r]
        /\ inner'[r] = inner[r] /\ found'[r] = found[r]
        /\ FoundAwake(r) /\ ask[r].custom /\ ~ slash
    BY <1>0, <1>10 DEF WorkerFirstEffect, PriorityAt
  <2>2. \/ says = "redirect" /\ pc'[r] = "answered" /\ source'[r] = "worker"
        \/ says # "redirect" /\ pc'[r] = "exact"
    BY <1>0, <1>10 DEF WorkerFirstEffect
  <2>3. CASE says = "redirect"
    <3>1. by = "worker"
      BY <2>1, <2>3 DEF Answer
    <3> QED
      BY <1>c, <2>1, <2>2, <2>3, <3>1
  <2>4. CASE says # "redirect"
    <3>1. FoundRightly(r)' /\ FoundAwake(r)' /\ (inner'[r] <=> ask'[r].custom)
      BY <1>d, <2>1
    <3> QED
      BY <2>1, <2>2, <2>4, <3>1 DEF PriorityAt
  <2> QED
    BY <2>3, <2>4
<1>11. ASSUME ExactEffect(r) PROVE Goal
  <2>1. /\ pc[r] = "exact" /\ seen'[r] = seen[r] /\ ask'[r] = ask[r]
        /\ inner'[r] = inner[r] /\ found'[r] = found[r]
        /\ FoundAwake(r) /\ ~ slash /\ ~ (ask[r].custom /\ says = "redirect")
    BY <1>0, <1>11 DEF ExactEffect, PriorityAt
  <2>2. \/ ask[r].get /\ found[r].build.exact /\ pc'[r] = "answered" /\ source'[r] = "exact"
        \/ ~ (ask[r].get /\ found[r].build.exact) /\ pc'[r] = "worker"
    BY <1>0, <1>11 DEF ExactEffect
  <2>3. CASE ask[r].get /\ found[r].build.exact
    <3>1. by = "exact"
      BY <2>1, <2>3 DEF Answer, Documented
    <3> QED
      BY <1>c, <2>1, <2>2, <2>3, <3>1
  <2>4. CASE ~ (ask[r].get /\ found[r].build.exact)
    <3>1. FoundRightly(r)' /\ FoundAwake(r)' /\ (inner'[r] <=> ask'[r].custom)
      BY <1>d, <2>1
    <3> QED
      BY <2>1, <2>2, <2>4, <3>1 DEF PriorityAt
  <2> QED
    BY <2>3, <2>4
<1>12. ASSUME WorkerEffect(r) PROVE Goal
  <2>1. /\ pc[r] = "worker" /\ seen'[r] = seen[r] /\ ask'[r] = ask[r]
        /\ inner'[r] = inner[r] /\ found'[r] = found[r]
        /\ FoundAwake(r) /\ ~ slash /\ ~ (ask[r].custom /\ says = "redirect")
        /\ ~ (ask[r].get /\ found[r].build.exact)
    BY <1>0, <1>12 DEF WorkerEffect, PriorityAt
  <2>2. \/ says = "none" /\ pc'[r] = "fallback"
        \/ ask[r].get /\ says = "missing" /\ pc'[r] = "fallback"
        \/ /\ says # "none" /\ ~ (ask[r].get /\ says = "missing")
           /\ pc'[r] = "answered" /\ source'[r] = "worker"
    BY <1>0, <1>12 DEF WorkerEffect
  <2>3. CASE says # "none" /\ ~ (ask[r].get /\ says = "missing")
    <3>1. by = "worker"
      BY <1>a, <2>1, <2>3 DEF Answer, Documented
    <3> QED
      BY <1>c, <2>1, <2>2, <2>3, <3>1
  <2>4. CASE ~ (says # "none" /\ ~ (ask[r].get /\ says = "missing"))
    <3>1. FoundRightly(r)' /\ FoundAwake(r)' /\ (inner'[r] <=> ask'[r].custom)
      BY <1>d, <2>1
    <3> QED
      BY <2>1, <2>2, <2>4, <3>1 DEF PriorityAt
  <2> QED
    BY <2>3, <2>4
<1>13. ASSUME FallbackEffect(r) PROVE Goal
  <2> DEFINE index == ask[r].get /\ found[r].build.index
  <2>1. /\ pc[r] = "fallback" /\ seen'[r] = seen[r] /\ ask'[r] = ask[r]
        /\ found'[r] = found[r] /\ (inner[r] <=> ask[r].custom)
        /\ FoundAwake(r) /\ ~ slash /\ ~ (ask[r].custom /\ says = "redirect")
        /\ ~ (ask[r].get /\ found[r].build.exact)
        /\ says = "none" \/ (ask[r].get /\ says = "missing")
    BY <1>0, <1>13 DEF FallbackEffect, PriorityAt
  <2>2. /\ index => by = "fallback"
        /\ ~ index /\ says # "none" => by = "notFound"
        /\ ~ index /\ says = "none" => by = IF ask[r].custom THEN "notFound" ELSE "platform"
    BY <1>a, <2>1 DEF Answer, Documented
  <2>3. /\ pc'[r] = "answered"
        /\ \/ index /\ source'[r] = "fallback"
           \/ ~ index /\ says # "none" /\ source'[r] = "notFound"
           \/ ~ index /\ says = "none" /\ source'[r] = IF inner[r] THEN "notFound" ELSE "platform"
    BY <1>0, <1>13 DEF FallbackEffect
  <2>4. source'[r] = by
    BY <2>1, <2>2, <2>3
  <2> QED
    BY <1>c, <2>1, <2>3, <2>4
<1> HIDE DEF Goal
<1>14. Goal
  BY <1>0, <1>1, <1>2, <1>3, <1>4, <1>5, <1>6, <1>7, <1>8, <1>9, <1>10, <1>11, <1>12,
     <1>13, Zenon DEF StepEffect
<1> QED
  BY <1>14 DEF Goal

(***************************************************************************)
(* What has grown, or is left alone, keeps what is claimed.                *)
(***************************************************************************)
LEMMA GrownPriority ==
  ASSUME NEW r \in Requests, Priority(r), ask' = ask, Grows(r),
         pc'[r] = pc[r], inner'[r] = inner[r], queue'[r] = queue[r],
         found'[r] = found[r], source'[r] = source[r]
  PROVE  Priority(r)'
<1>1. OuterFirst(r)'
  BY DEF Priority, OuterFirst
<1>2. /\ LooksRightly(r) => LooksRightly(r)'
      /\ FoundRightly(r) => FoundRightly(r)'
      /\ AnsweredRightly(r) => AnsweredRightly(r)'
  <2>1. seen[r].builds \subseteq seen'[r].builds
    BY DEF Grows
  <2>2. \A list :
          /\ OnTheWay(queue[r], ask[r], seen[r].builds, R!Lookups(ask[r], list)) =>
               OnTheWay(queue[r], ask[r], seen'[r].builds, R!Lookups(ask[r], list))
          /\ FoundAt(found[r], ask[r], seen[r].builds, R!Lookups(ask[r], list)) =>
               FoundAt(found[r], ask[r], seen'[r].builds, R!Lookups(ask[r], list))
          /\ \A asleep :
               ByPriority(ask[r], source[r], R!Lookups(ask[r], list), seen[r].builds, asleep) =>
               ByPriority(ask[r], source[r], R!Lookups(ask[r], list), seen'[r].builds, asleep)
    BY <2>1, ProgressStays
  <2>3. LooksRightly(r) => LooksRightly(r)'
    BY <2>2 DEF LooksRightly, Grows
  <2>4. FoundRightly(r) => FoundRightly(r)'
    BY <2>2 DEF FoundRightly, Grows
  <2>5. AnsweredRightly(r) => AnsweredRightly(r)'
    BY <2>2 DEF AnsweredRightly, Grows
  <2> QED
    BY <2>3, <2>4, <2>5
<1>3. FoundAwake(r) => FoundAwake(r)'
  BY DEF FoundAwake, Grows
<1>4. Plain(r)' => Plain(r)
  BY DEF Plain, Grows
<1>5. PriorityAt(r) => PriorityAt(r)'
  BY <1>2, <1>3 DEF PriorityAt
<1> QED
  BY <1>1, <1>4, <1>5 DEF Priority

(***************************************************************************)
(* A step of a request keeps it for the request and leaves the others.     *)
(***************************************************************************)
LEMMA OuterStays ==
  ASSUME RequestInv, NEW r \in Requests, R!Step(r), OuterFirst(r)
  PROVE  OuterFirst(r)'
<1>1. StepEffect(r) /\ inner[r] \in BOOLEAN
  BY StepHasEffect, PageFacts DEF RequestInv
<1> QED
  BY <1>1 DEF OuterFirst, StepEffect, Goes, Ends, Rejects, BeginEffect, LoadGatewayEffect,
     RunGatewayEffect, VerdictEffect, MiddlewareEffect, HandlersEffect, ResolveEffect,
     LoadEffect, SuspensionEffect, WorkerFirstEffect, ExactEffect, WorkerEffect,
     FallbackEffect

\* A request that begins is at the middleware or the handlers.
LEMMA StepKeepsPriority ==
  ASSUME RequestInv, NEW r \in Requests, R!Step(r), RunningSees(r), Priority(r)
  PROVE  Priority(r)'
<1>0. ask' = ask /\ StepEffect(r)
  BY OthersAlone, StepHasEffect DEF RequestInv, StepOf
<1>1. OuterFirst(r)'
  BY OuterStays DEF Priority
<1>2. ASSUME Plain(r)'
      PROVE  PriorityAt(r)'
  <2>1. CASE pc[r] = "new"
    <3>1. /\ pc'[r] = IF ask[r].custom THEN "middleware" ELSE "handlers"
          /\ ask'[r] = ask[r]
      BY <1>0, <1>2, <2>1 DEF Plain, StepEffect, Goes, BeginEffect, LoadGatewayEffect,
         RunGatewayEffect, VerdictEffect, MiddlewareEffect, HandlersEffect, ResolveEffect,
         LoadEffect, SuspensionEffect, WorkerFirstEffect, ExactEffect, WorkerEffect,
         FallbackEffect
    <3> QED
      BY <3>1 DEF PriorityAt, Serving
  <2>2. CASE pc[r] # "new"
    <3>1. seen'[r] = seen[r] /\ pc[r] # "answered"
      BY <2>2, StepSees
    <3>2. Sees(r) /\ Plain(r)
      BY <1>0, <1>2, <2>2, <3>1 DEF RunningSees, Running, Plain
    <3> QED
      BY <2>2, <3>2, StepPriority DEF Priority
  <2> QED
    BY <2>1, <2>2
<1> QED
  BY <1>1, <1>2 DEF Priority

AllPriorities == \A r \in Requests : Priority(r)

\* Together, for every request.
LEMMA PriorityStays ==
  ASSUME RequestInv, AllSights, AllPriorities, [R!Next]_R!vars
  PROVE  AllPriorities'
<1>0. \A r \in Requests : RunningSees(r) /\ Priority(r)
  BY DEF AllSights, SightsSoFar, AllPriorities
<1>1. ASSUME NEW r \in Requests, R!Step(r), NEW s \in Requests
      PROVE  Priority(s)'
  <2>1. StepOf(r)
    BY <1>1, OthersAlone DEF RequestInv
  <2>2. CASE s = r
    BY <1>0, <1>1, <2>2, StepKeepsPriority
  <2>3. CASE s # r
    BY <1>0, <2>1, <2>3, Untouched, GrownPriority DEF RequestInv, Grows
  <2> QED
    BY <2>2, <2>3
<1>2. ASSUME R!Change, NEW r \in Requests
      PROVE  Priority(r)'
  <2>1. /\ UNCHANGED <<ask, pc, inner, queue, found, ran, source>>
        /\ Running(r) => Grows(r)
        /\ ~ Running(r) => seen'[r] = seen[r]
    BY <1>2, ChangeEffect
  <2>2. Grows(r)
    BY <2>1 DEF Grows
  <2> QED
    BY <1>0, <2>1, <2>2, GrownPriority
<1>3. CASE UNCHANGED R!vars
  BY <1>0, <1>3, GrownPriority DEF AllPriorities, R!vars, Grows
<1> QED
  BY <1>1, <1>2, <1>3 DEF R!Next, AllPriorities

\* No request has begun at first.
LEMMA PriorityAtFirst == R!Init => AllPriorities
  BY DEF R!Init, AllPriorities, Priority, OuterFirst

\* An answered request in particular has the answer of the priority.
LEMMA PrioritySuffices ==
  ASSUME AllPriorities
  PROVE  FollowsThePriority
<1>1. \A asked, list : R!Lookups(asked, list) = Lookups(asked, list)
  BY DEF R!Lookups, Lookups
<1>2. ASSUME NEW r \in Requests, Answered(r), Plain(r)
      PROVE  AnsweredRightly(r)
  BY <1>2 DEF AllPriorities, Priority, PriorityAt, Answered
<1> QED
  BY <1>1, <1>2 DEF FollowsThePriority, AnsweredRightly, Plain

(***************************************************************************)
(* Every page is answered by the priority, but for the departures that     *)
(* AnsweredRequests names, whatever is deployed, suspended and routed to   *)
(* before, during and after the request.                                   *)
(***************************************************************************)
THEOREM PriorityIsFollowed == R!Spec => []FollowsThePriority
<1> QED
  BY RequestsInitType, RequestsStepType, SightsAtFirst, SightsStay,
     PriorityAtFirst, PriorityStays, PrioritySuffices, PTL DEF R!Spec

-----------------------------------------------------------------------------
(***************************************************************************)
(* MetadataCache.                                                          *)
(***************************************************************************)
USE TtlAssumption, LatencyAssumption, CapacityAssumption, NoEntryAssumption

(***************************************************************************)
(* writeRuntimeCache changes at most two entries: it sets one, and may     *)
(* drop another.                                                           *)
(***************************************************************************)
LEMMA WriteMemoryEffect ==
  ASSUME TypeOK, NEW i \in Isolates, NEW k \in Keys, NEW v \in Nat,
         WriteMemory(i, k, v)
  PROVE  /\ memory' \in [Isolates -> [Keys -> Entry \cup {NoEntry}]]
         /\ order' \in [Isolates -> Seq(Keys)]
         /\ \A j \in Isolates, l \in Keys :
              \/ memory'[j][l] = memory[j][l]
              \/ memory'[j][l] = NoEntry
              \/ /\ l = k
                 /\ memory'[j][l] = [value |-> v, expires |-> now + Ttl]
<1> DEFINE entry == [value |-> v, expires |-> now + Ttl]
<1>1. entry \in Entry
  BY DEF TypeOK, Entry
<1>2. order[i] \in Seq(Keys) /\ memory[i] \in [Keys -> Entry \cup {NoEntry}]
  BY DEF TypeOK
<1>3. CASE Len(order[i]) >= Capacity /\ memory[i][k] = NoEntry
  <2> DEFINE oldest == Head(order[i])
  <2>1. order[i] # <<>>
    BY <1>2, <1>3
  <2>2. oldest \in Keys /\ Tail(order[i]) \in Seq(Keys)
    BY <1>2, <2>1
  <2>3. /\ memory' = [memory EXCEPT ![i] = [[memory[i] EXCEPT ![oldest] = NoEntry]
                                             EXCEPT ![k] = entry]]
        /\ order' = [order EXCEPT ![i] = Append(Tail(order[i]), k)]
    BY <1>3 DEF WriteMemory
  <2>4. Append(Tail(order[i]), k) \in Seq(Keys)
    BY <2>2
  <2> QED
    BY <1>1, <2>2, <2>3, <2>4 DEF TypeOK
<1>4. CASE ~(Len(order[i]) >= Capacity /\ memory[i][k] = NoEntry)
  <2>1. /\ memory' = [memory EXCEPT ![i][k] = entry]
        /\ order' = IF memory[i][k] = NoEntry
                    THEN [order EXCEPT ![i] = Append(order[i], k)]
                    ELSE order
    BY <1>4 DEF WriteMemory
  <2>2. Append(order[i], k) \in Seq(Keys)
    BY <1>2
  <2> QED
    BY <1>1, <2>1, <2>2 DEF TypeOK
<1> QED
  BY <1>3, <1>4

(***************************************************************************)
(* Dropping an expired entry only removes.                                 *)
(***************************************************************************)
LEMMA DropExpiredEffect ==
  ASSUME TypeOK, NEW i \in Isolates, NEW k \in Keys, DropExpired(i, k)
  PROVE  /\ memory' \in [Isolates -> [Keys -> Entry \cup {NoEntry}]]
         /\ order' \in [Isolates -> Seq(Keys)]
         /\ \A j \in Isolates, l \in Keys :
              \/ memory'[j][l] = memory[j][l]
              \/ memory'[j][l] = NoEntry
<1>1. order[i] \in Seq(Keys)
  BY DEF TypeOK
<1>2. \A n \in DOMAIN order[i] : RemoveAt(order[i], n) \in Seq(Keys)
  BY <1>1 DEF RemoveAt
<1>3. CASE memory[i][k] = NoEntry
  BY <1>3 DEF DropExpired, TypeOK
<1>4. CASE memory[i][k] # NoEntry
  <2>1. PICK n \in DOMAIN order[i] :
          order' = [order EXCEPT ![i] = RemoveAt(order[i], n)]
    BY <1>4 DEF DropExpired
  <2>2. memory' = [memory EXCEPT ![i][k] = NoEntry]
    BY <1>4 DEF DropExpired
  <2>3. order' \in [Isolates -> Seq(Keys)]
    BY <1>2, <2>1 DEF TypeOK
  <2> QED
    BY <2>2, <2>3 DEF TypeOK
<1> QED
  BY <1>3, <1>4

(***************************************************************************)
(* The pc of a call tells which fields it has.                             *)
(***************************************************************************)
LEMMA CallShape ==
  ASSUME TypeOK, NEW p \in Procs
  PROVE  /\ call[p].pc \in {"match", "get"} <=> call[p] \in Asking
         /\ call[p].pc \in {"matched", "fetched", "filled"}
              <=> call[p] \in Holding
         /\ call[p].pc = "idle" <=> call[p] = Idle
<1>1. call[p] \in Asking \/ call[p] \in Holding \/ call[p] = Idle
  BY DEF TypeOK
<1>2. call[p] \in Asking => call[p].pc \in {"match", "get"}
  BY DEF Asking
<1>3. call[p] \in Holding => call[p].pc \in {"matched", "fetched", "filled"}
  BY DEF Holding
<1>4. call[p] = Idle => call[p].pc = "idle"
  BY DEF Idle
<1> QED
  BY <1>1, <1>2, <1>3, <1>4

-----------------------------------------------------------------------------
(* Types *)

(***************************************************************************)
(* A fresh isolate with empty caches and an empty KV is well typed.        *)
(***************************************************************************)
LEMMA InitType == Init => TypeOK
  BY DEF Init, TypeOK, Idle, Entry

(***************************************************************************)
(* Every step of a load, a store or the environment keeps the types, an    *)
(* eviction from the Map included.                                         *)
(***************************************************************************)
LEMMA StepType == TypeOK /\ [Next]_vars => TypeOK'
<1> SUFFICES ASSUME TypeOK, [Next]_vars PROVE TypeOK'
  OBVIOUS
<1>1. ASSUME NEW p \in Procs, NEW i \in Isolates, NEW k \in Keys,
             LoadFromMemory(p, i, k)
      PROVE  TypeOK'
  BY <1>1 DEF LoadFromMemory, TypeOK
<1>2. ASSUME NEW p \in Procs, NEW i \in Isolates, NEW k \in Keys,
             LoadMissesMemory(p, i, k)
      PROVE  TypeOK'
  <2>1. DropExpired(i, k)
    BY <1>2 DEF LoadMissesMemory
  <2>2. [pc |-> "match", isolate |-> i, key |-> k] \in Asking
    BY DEF Asking
  <2> QED
    BY <1>2, <2>1, <2>2, DropExpiredEffect DEF LoadMissesMemory, TypeOK
<1>3. ASSUME NEW p \in Procs, NEW i \in Isolates, NEW k \in Keys,
             KvPut(p, i, k)
      PROVE  TypeOK'
  <2>1. /\ kv' = [kv EXCEPT ![k] = kv[k] + 1]
        /\ retired' = [retired EXCEPT ![k] = Append(retired[k], now)]
        /\ call' = [call EXCEPT ![p] =
             [pc |-> "fetched", isolate |-> i, key |-> k,
              value |-> kv[k] + 1, since |-> now, load |-> FALSE]]
        /\ UNCHANGED <<now, memory, order, edge>>
    BY <1>3 DEF KvPut
  <2>2. [pc |-> "fetched", isolate |-> i, key |-> k,
         value |-> kv[k] + 1, since |-> now, load |-> FALSE] \in Holding
    BY DEF TypeOK, Holding
  <2>3. Append(retired[k], now) \in Seq(Nat)
    BY DEF TypeOK
  <2> QED
    BY <2>1, <2>2, <2>3 DEF TypeOK
<1>4. ASSUME NEW p \in Procs, CallStep(p) PROVE TypeOK'
  <2>1. CASE EdgeHit(p)
    <3>1. call[p] \in Asking
      BY <2>1, CallShape DEF EdgeHit
    <3>2. edge[call[p].key] \in Entry
      BY <2>1, <3>1 DEF EdgeHit, Fresh, TypeOK, Asking
    <3>3. [pc |-> "matched", isolate |-> call[p].isolate, key |-> call[p].key,
           value |-> edge[call[p].key].value, since |-> now, load |-> TRUE]
             \in Holding
      BY <3>1, <3>2 DEF TypeOK, Asking, Holding, Entry
    <3> QED
      BY <2>1, <3>3 DEF EdgeHit, TypeOK
  <2>2. CASE EdgeMiss(p)
    <3>1. call[p] \in Asking
      BY <2>2, CallShape DEF EdgeMiss
    <3>2. [call[p] EXCEPT !.pc = "get"] \in Asking
      BY <3>1 DEF Asking
    <3> QED
      BY <2>2, <3>2 DEF EdgeMiss, TypeOK
  <2>3. CASE FillFromEdge(p)
    <3>1. call[p] \in Holding
      BY <2>3, CallShape DEF FillFromEdge
    <3>2. /\ call[p].isolate \in Isolates /\ call[p].key \in Keys
          /\ call[p].value \in Nat
          /\ WriteMemory(call[p].isolate, call[p].key, call[p].value)
      BY <2>3, <3>1 DEF FillFromEdge, Holding
    <3> QED
      BY <2>3, <3>2, WriteMemoryEffect DEF FillFromEdge, TypeOK
  <2>4. CASE KvGet(p)
    <3>1. call[p] \in Asking
      BY <2>4, CallShape DEF KvGet
    <3>2. [pc |-> "fetched", isolate |-> call[p].isolate, key |-> call[p].key,
           value |-> kv[call[p].key], since |-> now, load |-> TRUE] \in Holding
      BY <3>1 DEF TypeOK, Asking, Holding
    <3> QED
      BY <2>4, <3>2 DEF KvGet, TypeOK
  <2>5. CASE KvFails(p)
    BY <2>5 DEF KvFails, TypeOK
  <2>6. CASE FillMemory(p)
    <3>1. call[p] \in Holding
      BY <2>6, CallShape DEF FillMemory
    <3>2. /\ call[p].isolate \in Isolates /\ call[p].key \in Keys
          /\ call[p].value \in Nat
          /\ WriteMemory(call[p].isolate, call[p].key, call[p].value)
      BY <2>6, <3>1 DEF FillMemory, Holding
    <3>3. [[call[p] EXCEPT !.pc = "filled"] EXCEPT !.since = now] \in Holding
      BY <3>1 DEF Holding, TypeOK
    <3>4. call' = [call EXCEPT ![p] =
                     [[call[p] EXCEPT !.pc = "filled"] EXCEPT !.since = now]]
      BY <2>6, <3>1 DEF FillMemory, Holding, TypeOK
    <3>5. /\ memory' \in [Isolates -> [Keys -> Entry \cup {NoEntry}]]
          /\ order' \in [Isolates -> Seq(Keys)]
      BY <3>2, WriteMemoryEffect
    <3>6. call' \in [Procs -> Asking \cup Holding \cup {Idle}]
      BY <3>3, <3>4 DEF TypeOK
    <3>7. UNCHANGED <<now, kv, retired, edge>>
      BY <2>6 DEF FillMemory
    <3> QED
      BY <3>5, <3>6, <3>7 DEF TypeOK
  <2>7. CASE FillEdge(p)
    <3>1. call[p] \in Holding
      BY <2>7, CallShape DEF FillEdge
    <3>2. [value |-> call[p].value, expires |-> now + Ttl] \in Entry
      BY <3>1 DEF Holding, Entry, TypeOK
    <3> QED
      BY <2>7, <3>2 DEF FillEdge, TypeOK
  <2> QED
    BY <1>4, <2>1, <2>2, <2>3, <2>4, <2>5, <2>6, <2>7 DEF CallStep
<1>5. ASSUME NEW i \in Isolates, Recycle(i) PROVE TypeOK'
  <2>1. <<>> \in Seq(Keys)
    OBVIOUS
  <2>2. [k \in Keys |-> NoEntry] \in [Keys -> Entry \cup {NoEntry}]
    OBVIOUS
  <2> QED
    BY <1>5, <2>1, <2>2 DEF Recycle, TypeOK
<1>6. CASE Tick
  BY <1>6 DEF Tick, TypeOK
<1>7. CASE UNCHANGED vars
  BY <1>7 DEF vars, TypeOK
<1> QED
  BY <1>1, <1>2, <1>3, <1>4, <1>5, <1>6, <1>7 DEF Next

(***************************************************************************)
(* Type correctness: caches, history and suspended calls stay well formed. *)
(***************************************************************************)
THEOREM TypeCorrect == Spec => []TypeOK
  BY InitType, StepType, PTL DEF Spec

-----------------------------------------------------------------------------
(* Ages *)

(***************************************************************************)
(* What a step does to the clock and the store.                            *)
(***************************************************************************)
LEMMA StoreSteps ==
  ASSUME TypeOK, [Next]_vars
  PROVE  \/ UNCHANGED <<now, kv, retired>>
         \/ now' = now + 1 /\ UNCHANGED <<kv, retired>>
         \/ \E k \in Keys :
              /\ now' = now
              /\ kv' = [kv EXCEPT ![k] = kv[k] + 1]
              /\ retired' = [retired EXCEPT ![k] = Append(retired[k], now)]
  BY DEF Next, vars, LoadFromMemory, LoadMissesMemory, KvPut, CallStep, EdgeHit,
         EdgeMiss, FillFromEdge, KvGet, KvFails, FillMemory, FillEdge,
         Recycle, Tick

(***************************************************************************)
(* A value that was ever put is either overwritten at some time up to now  *)
(* or still current.                                                       *)
(***************************************************************************)
LEMMA LiveUntilNat ==
  ASSUME TypeOK, HistoryOrdered, NEW k \in Keys, NEW v \in 0..kv[k]
  PROVE  Register!LiveUntil(k, v) \in Nat
<1>1. /\ now \in Nat /\ kv[k] \in Nat /\ retired[k] \in Seq(Nat)
      /\ Len(retired[k]) = kv[k]
  BY DEF TypeOK, HistoryOrdered
<1>2. CASE v = kv[k]
  BY <1>1, <1>2 DEF Register!LiveUntil
<1>3. CASE v # kv[k]
  <2>1. v + 1 \in 1..Len(retired[k])
    BY <1>1, <1>3
  <2>2. retired[k][v + 1] \in Nat
    BY <1>1, <2>1
  <2> QED
    BY <1>3, <2>2 DEF Register!LiveUntil
<1> QED
  BY <1>2, <1>3

(***************************************************************************)
(* A stored value's last moment moves with the clock, an overwritten one's *)
(* is settled: a copy never becomes older than its place allows by itself. *)
(***************************************************************************)
LEMMA CopiesAge ==
  ASSUME TypeOK, HistoryOrdered, [Next]_vars,
         NEW k \in Keys, NEW v, NEW t \in Nat, NEW age \in Int,
         Copied(k, v, t, age)
  PROVE  Copied(k, v, t, age)'
<1>1. /\ now \in Nat /\ kv[k] \in Nat /\ retired[k] \in Seq(Nat)
      /\ Len(retired[k]) = kv[k]
  BY DEF TypeOK, HistoryOrdered
<1>2. v \in 0..kv[k]
  BY DEF Copied
<1>3. t <= (IF v = kv[k] THEN now ELSE retired[k][v + 1]) + age
  BY DEF Copied, Register!LiveUntil
<1>4. CASE UNCHANGED <<now, kv, retired>>
  BY <1>2, <1>3, <1>4 DEF Copied, Register!LiveUntil
<1>5. CASE now' = now + 1 /\ UNCHANGED <<kv, retired>>
  <2>1. t <= (IF v = kv[k] THEN now' ELSE retired[k][v + 1]) + age
    BY <1>1, <1>3, <1>5
  <2> QED
    BY <1>2, <1>5, <2>1 DEF Copied, Register!LiveUntil
<1>6. ASSUME NEW l \in Keys,
             now' = now,
             kv' = [kv EXCEPT ![l] = kv[l] + 1],
             retired' = [retired EXCEPT ![l] = Append(retired[l], now)]
      PROVE  Copied(k, v, t, age)'
  <2>1. CASE l # k
    <3>1. kv'[k] = kv[k] /\ retired'[k] = retired[k]
      BY <1>6, <2>1 DEF TypeOK
    <3> QED
      BY <1>2, <1>3, <1>6, <3>1 DEF Copied, Register!LiveUntil
  <2>2. CASE l = k
    <3>1. kv'[k] = kv[k] + 1 /\ retired'[k] = Append(retired[k], now)
      BY <1>6, <2>2 DEF TypeOK
    <3>2. v \in 0..kv'[k] /\ v # kv'[k]
      BY <1>1, <1>2, <3>1
    <3>3. retired'[k][v + 1] = IF v = kv[k] THEN now ELSE retired[k][v + 1]
      BY <1>1, <1>2, <3>1
    <3> QED
      BY <1>3, <3>2, <3>3 DEF Copied, Register!LiveUntil
  <2> QED
    BY <2>1, <2>2
<1> QED
  BY <1>4, <1>5, <1>6, StoreSteps

(***************************************************************************)
(* Only the two fills add to a Map, and only the edge put to the edge.     *)
(***************************************************************************)
LEMMA MemorySteps ==
  ASSUME TypeOK, [Next]_vars, NEW i \in Isolates, NEW k \in Keys
  PROVE  \/ memory'[i][k] = memory[i][k]
         \/ memory'[i][k] = NoEntry
         \/ \E p \in Procs :
              /\ FillFromEdge(p) \/ FillMemory(p)
              /\ call[p].key = k
              /\ memory'[i][k] = [value |-> call[p].value, expires |-> now + Ttl]
<1>1. ASSUME NEW p \in Procs, FillFromEdge(p) \/ FillMemory(p)
      PROVE  \/ memory'[i][k] = memory[i][k]
             \/ memory'[i][k] = NoEntry
             \/ /\ call[p].key = k
                /\ memory'[i][k] = [value |-> call[p].value,
                                    expires |-> now + Ttl]
  <2>1. call[p] \in Holding
    BY <1>1, CallShape DEF FillFromEdge, FillMemory
  <2>2. /\ call[p].isolate \in Isolates /\ call[p].key \in Keys
        /\ call[p].value \in Nat
        /\ WriteMemory(call[p].isolate, call[p].key, call[p].value)
    BY <1>1, <2>1 DEF FillFromEdge, FillMemory, Holding
  <2>3. \A j \in Isolates, l \in Keys :
          \/ memory'[j][l] = memory[j][l]
          \/ memory'[j][l] = NoEntry
          \/ /\ l = call[p].key
             /\ memory'[j][l] = [value |-> call[p].value,
                                 expires |-> now + Ttl]
    BY <2>2, WriteMemoryEffect
  <2> QED
    BY <2>3
<1>2. ASSUME NEW p \in Procs, NEW j \in Isolates, NEW l \in Keys,
             LoadMissesMemory(p, j, l)
      PROVE  memory'[i][k] = memory[i][k] \/ memory'[i][k] = NoEntry
  BY <1>2, DropExpiredEffect DEF LoadMissesMemory
<1>3. ASSUME NEW j \in Isolates, Recycle(j)
      PROVE  memory'[i][k] = memory[i][k] \/ memory'[i][k] = NoEntry
  BY <1>3 DEF Recycle, TypeOK
<1>4. \/ UNCHANGED memory
      \/ \E p \in Procs : FillFromEdge(p) \/ FillMemory(p)
      \/ \E p \in Procs, j \in Isolates, l \in Keys : LoadMissesMemory(p, j, l)
      \/ \E j \in Isolates : Recycle(j)
  BY DEF Next, vars, LoadFromMemory, KvPut, CallStep, EdgeHit, EdgeMiss, KvGet,
         KvFails, FillEdge, Tick
<1> QED
  BY <1>1, <1>2, <1>3, <1>4

(***************************************************************************)
(* Every put writes down when the value before it was overwritten.         *)
(***************************************************************************)
LEMMA HistoryStep ==
  ASSUME TypeOK, TypeOK', HistoryOrdered, [Next]_vars
  PROVE  HistoryOrdered'
<1> SUFFICES ASSUME NEW k \in Keys
             PROVE  /\ Len(retired'[k]) = kv'[k]
                    /\ \A n \in DOMAIN retired'[k] : retired'[k][n] <= now'
  BY DEF HistoryOrdered
<1>1. /\ now \in Nat /\ kv[k] \in Nat /\ retired[k] \in Seq(Nat)
      /\ Len(retired[k]) = kv[k]
      /\ \A n \in DOMAIN retired[k] : retired[k][n] <= now
  BY DEF TypeOK, HistoryOrdered
<1>2. CASE UNCHANGED <<now, kv, retired>>
  BY <1>1, <1>2
<1>3. CASE now' = now + 1 /\ UNCHANGED <<kv, retired>>
  <2>1. \A n \in DOMAIN retired[k] : retired[k][n] \in Nat
    BY <1>1
  <2> QED
    BY <1>1, <1>3, <2>1
<1>4. ASSUME NEW l \in Keys,
             now' = now,
             kv' = [kv EXCEPT ![l] = kv[l] + 1],
             retired' = [retired EXCEPT ![l] = Append(retired[l], now)]
      PROVE  /\ Len(retired'[k]) = kv'[k]
             /\ \A n \in DOMAIN retired'[k] : retired'[k][n] <= now'
  <2>1. CASE l # k
    BY <1>1, <1>4, <2>1 DEF TypeOK
  <2>2. CASE l = k
    <3>1. kv'[k] = kv[k] + 1 /\ retired'[k] = Append(retired[k], now)
      BY <1>4, <2>2 DEF TypeOK
    <3> QED
      BY <1>1, <1>4, <3>1
  <2> QED
    BY <2>1, <2>2
<1> QED
  BY <1>2, <1>3, <1>4, StoreSteps

(***************************************************************************)
(* What writeRuntimeCache stores is as old as what the call held, and the  *)
(* entry lives for one Ttl more.                                           *)
(***************************************************************************)
LEMMA MemoryAgeStep ==
  ASSUME TypeOK, TypeOK', AgesBounded, [Next]_vars
  PROVE  MemoryAge'
<1> SUFFICES ASSUME NEW i \in Isolates, NEW k \in Keys, memory'[i][k] # NoEntry
             PROVE  Copied(k, memory[i][k].value, memory[i][k].expires,
                           2 * Ttl + 3 * Latency - 1)'
  BY DEF MemoryAge
<1> DEFINE age == 2 * Ttl + 3 * Latency - 1
<1>1. Ttl \in Nat /\ Ttl >= 1 /\ age \in Int /\ now \in Nat
  BY DEF TypeOK
<1>2. CASE memory'[i][k] = memory[i][k]
  <2>1. memory[i][k] \in Entry
    BY <1>2 DEF TypeOK
  <2>2. memory[i][k].expires \in Nat
    BY <2>1 DEF Entry
  <2>3. Copied(k, memory[i][k].value, memory[i][k].expires, age)
    BY <1>2 DEF AgesBounded, MemoryAge
  <2>4. \A v, t : t \in Nat /\ Copied(k, v, t, age)
                    => v \in 0..kv'[k] /\ t <= Register!LiveUntil(k, v)' + age
    BY <1>1, CopiesAge DEF AgesBounded, Copied
  <2> QED
    BY <1>2, <2>2, <2>3, <2>4 DEF Copied, Register!LiveUntil
<1>3. ASSUME NEW p \in Procs,
             FillFromEdge(p) \/ FillMemory(p),
             call[p].key = k,
             memory'[i][k] = [value |-> call[p].value, expires |-> now + Ttl]
      PROVE  Copied(k, memory[i][k].value, memory[i][k].expires, age)'
  <2>1. call[p] \in Holding /\ call[p].pc \in {"matched", "fetched"}
    BY <1>3, CallShape DEF FillFromEdge, FillMemory
  <2>2. call[p].since \in Nat
    BY <2>1 DEF Holding
  <2>3. /\ now <= call[p].since + Latency
        /\ Copied(k, call[p].value, call[p].since, PcAge(call[p].pc))
    BY <1>3, <2>1 DEF AgesBounded, CallAge
  <2>4. PcAge(call[p].pc) \in Int /\ PcAge(call[p].pc) <= Ttl + 2 * Latency - 1
    BY <1>1, <2>1 DEF PcAge
  <2>5. UNCHANGED <<now, kv, retired>>
    BY <1>3 DEF FillFromEdge, FillMemory
  <2>6. Register!LiveUntil(k, call[p].value) \in Nat
    <3>1. call[p].value \in 0..kv[k]
      BY <2>3 DEF Copied
    <3> QED
      BY <3>1, LiveUntilNat DEF AgesBounded
  <2>7. now + Ttl <= Register!LiveUntil(k, call[p].value) + age
    BY <1>1, <2>2, <2>3, <2>4, <2>6 DEF Copied
  <2>8. call[p].value \in 0..kv[k]
    BY <2>3 DEF Copied
  <2> QED
    BY <1>3, <2>5, <2>7, <2>8 DEF Copied, Register!LiveUntil
<1> QED
  BY <1>2, <1>3, MemorySteps

(***************************************************************************)
(* What writeMetadataEdgeCache stores is as old as a filled call's value,  *)
(* and the entry lives for one Ttl more.                                   *)
(***************************************************************************)
LEMMA EdgeAgeStep ==
  ASSUME TypeOK, TypeOK', AgesBounded, [Next]_vars
  PROVE  EdgeAge'
<1> SUFFICES ASSUME NEW k \in Keys, edge'[k] # NoEntry
             PROVE  Copied(k, edge[k].value, edge[k].expires, Ttl + 2 * Latency)'
  BY DEF EdgeAge
<1> DEFINE age == Ttl + 2 * Latency
<1>1. Ttl \in Nat /\ age \in Int /\ now \in Nat
  BY DEF TypeOK
<1>2. CASE edge'[k] = edge[k]
  <2>1. edge[k] \in Entry
    BY <1>2 DEF TypeOK
  <2>2. edge[k].expires \in Nat
    BY <2>1 DEF Entry
  <2>3. Copied(k, edge[k].value, edge[k].expires, age)
    BY <1>2 DEF AgesBounded, EdgeAge
  <2>4. \A v, t : t \in Nat /\ Copied(k, v, t, age)
                    => v \in 0..kv'[k] /\ t <= Register!LiveUntil(k, v)' + age
    BY <1>1, CopiesAge DEF AgesBounded, Copied
  <2> QED
    BY <1>2, <2>2, <2>3, <2>4 DEF Copied, Register!LiveUntil
<1>3. ASSUME NEW p \in Procs, FillEdge(p), call[p].key = k,
             edge'[k] = [value |-> call[p].value, expires |-> now + Ttl]
      PROVE  Copied(k, edge[k].value, edge[k].expires, age)'
  <2>1. call[p] \in Holding /\ call[p].pc = "filled"
    BY <1>3, CallShape DEF FillEdge
  <2>2. call[p].since \in Nat
    BY <2>1 DEF Holding
  <2>3. /\ now <= call[p].since + Latency
        /\ Copied(k, call[p].value, call[p].since, Latency)
    BY <1>3, <2>1 DEF AgesBounded, CallAge, PcAge
  <2>4. call[p].value \in 0..kv[k]
    BY <2>3 DEF Copied
  <2>5. UNCHANGED <<now, kv, retired>>
    BY <1>3 DEF FillEdge
  <2>6. Register!LiveUntil(k, call[p].value) \in Nat
    BY <2>4, LiveUntilNat DEF AgesBounded
  <2>7. now + Ttl <= Register!LiveUntil(k, call[p].value) + age
    BY <1>1, <2>2, <2>3, <2>6 DEF Copied
  <2> QED
    BY <1>3, <2>4, <2>5, <2>7 DEF Copied, Register!LiveUntil
<1>4. \/ edge'[k] = edge[k]
      \/ \E p \in Procs :
           /\ FillEdge(p) /\ call[p].key = k
           /\ edge'[k] = [value |-> call[p].value, expires |-> now + Ttl]
  <2>1. UNCHANGED edge \/ \E p \in Procs : FillEdge(p)
    BY DEF Next, vars, LoadFromMemory, LoadMissesMemory, KvPut, CallStep,
           EdgeHit, EdgeMiss, FillFromEdge, KvGet, KvFails, FillMemory,
           Recycle, Tick
  <2>2. ASSUME NEW p \in Procs, FillEdge(p)
        PROVE  \/ edge'[k] = edge[k]
               \/ /\ call[p].key = k
                  /\ edge'[k] = [value |-> call[p].value, expires |-> now + Ttl]
    BY <2>2 DEF FillEdge, TypeOK
  <2> QED
    BY <2>1, <2>2
<1> QED
  BY <1>2, <1>3, <1>4

(***************************************************************************)
(* A call comes to hold a value at a KV answer, an accepted put, an edge   *)
(* hit or its own memory fill; otherwise it keeps what it holds.           *)
(***************************************************************************)
LEMMA CallAgeStep ==
  ASSUME TypeOK, TypeOK', AgesBounded, [Next]_vars
  PROVE  CallAge'
<1> DEFINE Aged(p) ==
             call[p].pc \in {"fetched", "filled", "matched"} =>
               /\ call[p].since <= now
               /\ now <= call[p].since + Latency
               /\ Copied(call[p].key, call[p].value, call[p].since,
                         PcAge(call[p].pc))
<1> SUFFICES ASSUME NEW q \in Procs PROVE Aged(q)'
  BY DEF CallAge
<1>0. now \in Nat /\ now' \in Nat /\ Aged(q)
  BY DEF TypeOK, AgesBounded, CallAge
<1>1. ASSUME call'[q] = call[q],
             call[q].pc \in {"fetched", "filled", "matched"} =>
               call[q].since <= now' /\ now' <= call[q].since + Latency
      PROVE  Aged(q)'
  <2> SUFFICES ASSUME call[q].pc \in {"fetched", "filled", "matched"}
               PROVE  Copied(call[q].key, call[q].value, call[q].since,
                             PcAge(call[q].pc))'
    BY <1>0, <1>1
  <2>1. call[q] \in Holding
    BY CallShape
  <2>2. call[q].key \in Keys /\ call[q].since \in Nat
    BY <2>1 DEF Holding
  <2>3. PcAge(call[q].pc) \in Int
    BY <2>2 DEF PcAge
  <2>4. \A k \in Keys : \A v, t, a : t \in Nat /\ a \in Int /\ Copied(k, v, t, a)
                    => v \in 0..kv'[k] /\ t <= Register!LiveUntil(k, v)' + a
    BY CopiesAge DEF AgesBounded, Copied
  <2>5. Copied(call[q].key, call[q].value, call[q].since,
               PcAge(call[q].pc))
    BY <1>0
  <2> DEFINE k == call[q].key
             v == call[q].value
             a == PcAge(call[q].pc)
  <2>6. v \in 0..kv'[k] /\ call[q].since <= Register!LiveUntil(k, v)' + a
    <3> HIDE DEF a
    <3>1. a \in Int
      BY <2>3 DEF a
    <3>2. Copied(k, v, call[q].since, a)
      BY <2>5 DEF a
    <3> QED
      BY <1>1, <2>2, <2>4, <3>1, <3>2 DEF Register!LiveUntil
  <2> QED
    BY <1>1, <2>6 DEF Copied, Register!LiveUntil, PcAge
<1>2. ASSUME call'[q] = call[q], now' = now PROVE Aged(q)'
  BY <1>0, <1>1, <1>2
<1>3. ASSUME call'[q].pc \notin {"fetched", "filled", "matched"} PROVE Aged(q)'
  BY <1>3
<1>4. ASSUME NEW p \in Procs, NEW i \in Isolates, NEW k \in Keys,
             LoadFromMemory(p, i, k) \/ LoadMissesMemory(p, i, k)
      PROVE  Aged(q)'
  BY <1>2, <1>3, <1>4 DEF LoadFromMemory, LoadMissesMemory, TypeOK
<1>5. ASSUME NEW p \in Procs, NEW i \in Isolates, NEW k \in Keys,
             KvPut(p, i, k)
      PROVE  Aged(q)'
  <2>1. CASE p # q
    BY <1>2, <1>5, <2>1 DEF KvPut, TypeOK
  <2>2. CASE p = q
    <3>1. /\ call'[q] = [pc |-> "fetched", isolate |-> i, key |-> k,
                         value |-> kv[k] + 1, since |-> now, load |-> FALSE]
          /\ kv'[k] = kv[k] + 1 /\ kv[k] \in Nat /\ now' = now
      BY <1>5, <2>2 DEF KvPut, TypeOK
    <3> QED
      BY <1>0, <3>1 DEF Copied, Register!LiveUntil, PcAge
  <2> QED
    BY <2>1, <2>2
<1>6. ASSUME NEW p \in Procs, CallStep(p) PROVE Aged(q)'
  <2>1. CASE p # q
    BY <1>2, <1>6, <2>1 DEF CallStep, EdgeHit, EdgeMiss, FillFromEdge, KvGet,
                            KvFails, FillMemory, FillEdge, TypeOK
  <2>2. CASE p = q /\ EdgeHit(q)
    <3> DEFINE k == call[q].key
    <3>1. call[q] \in Asking
      BY <2>2, CallShape DEF EdgeHit
    <3>2. k \in Keys /\ edge[k] # NoEntry /\ now < edge[k].expires
      BY <2>2, <3>1 DEF EdgeHit, Fresh, Asking
    <3>3. edge[k] \in Entry
      BY <3>2 DEF TypeOK
    <3>4. edge[k].value \in 0..kv[k]
          /\ edge[k].expires <= Register!LiveUntil(k, edge[k].value)
                                 + (Ttl + 2 * Latency)
      BY <3>2 DEF AgesBounded, EdgeAge, Copied
    <3>5. Register!LiveUntil(k, edge[k].value) \in Nat
      BY <3>2, <3>4, LiveUntilNat DEF AgesBounded
    <3>6. now <= Register!LiveUntil(k, edge[k].value) + (Ttl + 2 * Latency - 1)
      BY <1>0, <3>2, <3>3, <3>4, <3>5 DEF Entry
    <3>7. /\ call'[q] = [pc |-> "matched", isolate |-> call[q].isolate,
                         key |-> k, value |-> edge[k].value,
                         since |-> now, load |-> TRUE]
          /\ UNCHANGED <<now, kv, retired>>
      BY <2>2 DEF EdgeHit, TypeOK
    <3> QED
      BY <1>0, <3>4, <3>6, <3>7 DEF Copied, Register!LiveUntil, PcAge
  <2>3. CASE p = q /\ KvGet(q)
    <3> DEFINE k == call[q].key
    <3>1. call[q] \in Asking
      BY <2>3, CallShape DEF KvGet
    <3>2. k \in Keys /\ kv[k] \in Nat
      BY <3>1 DEF Asking, TypeOK
    <3>3. /\ call'[q] = [pc |-> "fetched", isolate |-> call[q].isolate,
                         key |-> k, value |-> kv[k],
                         since |-> now, load |-> TRUE]
          /\ UNCHANGED <<now, kv, retired>>
      BY <2>3 DEF KvGet, TypeOK
    <3> QED
      BY <1>0, <3>2, <3>3 DEF Copied, Register!LiveUntil, PcAge
  <2>4. CASE p = q /\ FillMemory(q)
    <3> DEFINE k == call[q].key
               v == call[q].value
    <3>1. call[q] \in Holding /\ call[q].pc = "fetched"
      BY <2>4, CallShape DEF FillMemory
    <3>2. k \in Keys /\ call[q].since \in Nat
      BY <3>1 DEF Holding
    <3>3. /\ now <= call[q].since + Latency
          /\ v \in 0..kv[k]
          /\ call[q].since <= Register!LiveUntil(k, v) + 0
      BY <1>0, <3>1 DEF Copied, PcAge
    <3>4. Register!LiveUntil(k, v) \in Nat
      BY <3>2, <3>3, LiveUntilNat DEF AgesBounded
    <3>5. now <= Register!LiveUntil(k, v) + Latency
      BY <1>0, <3>2, <3>3, <3>4
    <3>6. /\ call'[q].pc = "filled" /\ call'[q].since = now
          /\ call'[q].key = k /\ call'[q].value = v
          /\ UNCHANGED <<now, kv, retired>>
      BY <2>4, <3>1 DEF FillMemory, TypeOK, Holding
    <3> QED
      BY <1>0, <3>3, <3>5, <3>6 DEF Copied, Register!LiveUntil, PcAge
  <2>5. CASE p = q /\ EdgeMiss(q)
    <3>1. call'[q].pc = "get"
      <4>1. call[q] \in Asking
        BY <2>5, CallShape DEF EdgeMiss
      <4> QED
        BY <2>5, <4>1 DEF EdgeMiss, TypeOK, Asking
    <3> QED
      BY <1>3, <3>1
  <2>6. CASE p = q /\ (FillFromEdge(q) \/ KvFails(q) \/ FillEdge(q))
    <3>1. call'[q] = Idle
      BY <2>6 DEF FillFromEdge, KvFails, FillEdge, TypeOK
    <3> QED
      BY <1>3, <3>1 DEF Idle
  <2> QED
    BY <1>6, <2>1, <2>2, <2>3, <2>4, <2>5, <2>6 DEF CallStep
<1>7. ASSUME NEW i \in Isolates, Recycle(i) PROVE Aged(q)'
  <2>1. (call'[q] = Idle \/ call'[q] = call[q]) /\ now' = now
    BY <1>7 DEF Recycle
  <2> QED
    BY <1>2, <1>3, <2>1 DEF Idle
<1>8. CASE Tick
  <2>1. /\ call' = call /\ now' = now + 1
        /\ call[q].pc \in {"matched", "fetched", "filled"} =>
             now < call[q].since + Latency
    BY <1>8 DEF Tick
  <2>2. call[q].pc \in {"matched", "fetched", "filled"} => call[q].since \in Nat
    BY CallShape DEF Holding
  <2> QED
    BY <1>0, <1>1, <2>1, <2>2
<1>9. CASE UNCHANGED vars
  BY <1>2, <1>9 DEF vars
<1> QED
  BY <1>4, <1>5, <1>6, <1>7, <1>8, <1>9 DEF Next

(***************************************************************************)
(* With empty caches and no call in flight there is no copy to be old.     *)
(***************************************************************************)
LEMMA InitAges == Init => AgesBounded
  BY DEF Init, AgesBounded, HistoryOrdered, MemoryAge, EdgeAge, CallAge, Idle

(***************************************************************************)
(* Ages are bounded in every reachable state: each copy of a value is      *)
(* younger than the waits and lifetimes it has been through.               *)
(***************************************************************************)
THEOREM AgesAreBounded == Spec => []AgesBounded
<1>1. TypeOK /\ TypeOK' /\ AgesBounded /\ [Next]_vars => AgesBounded'
  BY HistoryStep, MemoryAgeStep, EdgeAgeStep, CallAgeStep DEF AgesBounded
<1> QED
  BY InitAges, TypeCorrect, <1>1, PTL DEF Spec

-----------------------------------------------------------------------------
(* Refinement *)

(***************************************************************************)
(* The empty caches and the empty KV are the register's initial state.     *)
(***************************************************************************)
LEMMA InitRegister == Init => Register!Init
  BY DEF Init, Register!Init

(***************************************************************************)
(* A return is an Answer of the register when what is returned is young    *)
(* enough.                                                                 *)
(***************************************************************************)
LEMMA ReturnAnswers ==
  ASSUME TypeOK, AgesBounded, NEW p \in Procs, NEW k \in Keys, NEW v, NEW t \in Nat,
         NEW age \in Int, Copied(k, v, t, age), now <= t + Latency,
         age + Latency <= StalenessBound[k],
         Return(p, k, v), UNCHANGED <<now, kv, retired>>
  PROVE  Register!Next
<1>1. v \in 0..kv[k]
  BY DEF Copied
<1>2. Register!LiveUntil(k, v) \in Nat /\ now \in Nat
  BY <1>1, LiveUntilNat DEF AgesBounded, TypeOK
<1>3. StalenessBound[k] \in Int
  BY DEF StalenessBound
<1>4. now <= Register!LiveUntil(k, v) + StalenessBound[k]
  BY <1>2, <1>3 DEF Copied
<1>5. Register!Answer(p, k, v)
  BY <1>1, <1>4 DEF Register!Answer, Return
<1> QED
  BY <1>1, <1>5 DEF Register!Next

(***************************************************************************)
(* Every step is a step of the register, or leaves it as it is.            *)
(***************************************************************************)
LEMMA StepRegister ==
  TypeOK /\ AgesBounded /\ [Next]_vars => [Register!Next]_(Register!vars)
<1> SUFFICES ASSUME TypeOK, AgesBounded, [Next]_vars
             PROVE  [Register!Next]_(Register!vars)
  OBVIOUS
<1>0. now \in Nat /\ Ttl \in Nat /\ Ttl >= 1
  BY DEF TypeOK
<1>1. ASSUME NEW p \in Procs, NEW i \in Isolates, NEW k \in Keys,
             LoadFromMemory(p, i, k)
      PROVE  Register!Next
  <2>1. memory[i][k] \in Entry /\ now < memory[i][k].expires
    BY <1>1 DEF LoadFromMemory, Fresh, TypeOK
  <2>2. memory[i][k].value \in 0..kv[k]
        /\ memory[i][k].expires <= Register!LiveUntil(k, memory[i][k].value)
                                   + (2 * Ttl + 3 * Latency - 1)
    BY <1>1 DEF LoadFromMemory, Fresh, AgesBounded, MemoryAge, Copied
  <2>3. Register!LiveUntil(k, memory[i][k].value) \in Nat
    BY <2>2, LiveUntilNat DEF AgesBounded
  <2>4. now <= Register!LiveUntil(k, memory[i][k].value) + StalenessBound[k]
    BY <1>0, <2>1, <2>2, <2>3 DEF Entry, StalenessBound
  <2>5. Register!Answer(p, k, memory[i][k].value)
    BY <1>1, <2>2, <2>4 DEF Register!Answer, LoadFromMemory, Return
  <2> QED
    BY <2>2, <2>5 DEF Register!Next
<1>2. ASSUME NEW p \in Procs, NEW i \in Isolates, NEW k \in Keys,
             KvPut(p, i, k)
      PROVE  Register!Next
  BY <1>2 DEF KvPut, Register!Next, Register!Put
<1>3. ASSUME NEW p \in Procs, FillFromEdge(p)
      PROVE  Register!Next
  <2>1. call[p] \in Holding /\ call[p].pc = "matched"
    BY <1>3, CallShape DEF FillFromEdge
  <2>2. call[p].key \in Keys /\ call[p].since \in Nat
    BY <2>1 DEF Holding
  <2>3. /\ now <= call[p].since + Latency
        /\ Copied(call[p].key, call[p].value, call[p].since,
                  Ttl + 2 * Latency - 1)
    BY <2>1 DEF AgesBounded, CallAge, PcAge
  <2>4. /\ Ttl + 2 * Latency - 1 \in Int
        /\ Ttl + 2 * Latency - 1 + Latency
               <= StalenessBound[call[p].key]
    BY <1>0, <2>2 DEF StalenessBound
  <2>5. /\ Return(p, call[p].key, call[p].value)
        /\ UNCHANGED <<now, kv, retired>>
    BY <1>3 DEF FillFromEdge
  <2> QED
    BY <2>2, <2>3, <2>4, <2>5, ReturnAnswers
<1>4. ASSUME NEW p \in Procs, FillEdge(p)
      PROVE  [Register!Next]_(Register!vars)
  <2>1. call[p] \in Holding /\ call[p].pc = "filled"
    BY <1>4, CallShape DEF FillEdge
  <2>2. call[p].key \in Keys /\ call[p].since \in Nat /\ call[p].load \in BOOLEAN
    BY <2>1 DEF Holding
  <2>3. UNCHANGED <<now, kv, retired>>
    BY <1>4 DEF FillEdge
  <2>4. CASE ~call[p].load
    BY <1>4, <2>3, <2>4 DEF FillEdge, Register!vars
  <2>5. CASE call[p].load
    <3>1. /\ now <= call[p].since + Latency
          /\ Copied(call[p].key, call[p].value, call[p].since, Latency)
      BY <2>1 DEF AgesBounded, CallAge, PcAge
    <3>2. Latency + Latency <= StalenessBound[call[p].key]
      BY <1>0, <2>2 DEF StalenessBound
    <3>3. Return(p, call[p].key, call[p].value)
      BY <1>4, <2>5 DEF FillEdge, Return
    <3> QED
      BY <2>2, <2>3, <3>1, <3>2, <3>3, ReturnAnswers
  <2> QED
    BY <2>2, <2>4, <2>5
<1>5. CASE Tick
  BY <1>5 DEF Tick, Register!Next, Register!Tick
<1>6. ASSUME UNCHANGED <<now, kv, retired, answer>>
      PROVE  [Register!Next]_(Register!vars)
  BY <1>6 DEF Register!vars
<1> QED
  BY <1>1, <1>2, <1>3, <1>4, <1>5, <1>6
     DEF Next, vars, CallStep, LoadMissesMemory, EdgeHit, EdgeMiss, KvGet,
         KvFails, FillMemory, Recycle

(***************************************************************************)
(* The cached loaders implement the stale register: an answer is the       *)
(* stored value, or was until at most StalenessBound ago.                  *)
(***************************************************************************)
THEOREM CacheImplementsStaleRegister == Spec => ImplementsStaleRegister
<1>1. Spec => Register!Spec
  BY InitRegister, StepRegister, TypeCorrect, AgesAreBounded, PTL
     DEF Spec, Register!Spec
<1> QED
  BY <1>1 DEF ImplementsStaleRegister

-----------------------------------------------------------------------------
(* The Map's capacity and order *)

Held(map) == {k \in Keys : map[k] # NoEntry}

(***************************************************************************)
(* The keys of a Map in insertion order, each once, and not too many.      *)
(***************************************************************************)
Listed(map, keys) ==
  /\ IsFiniteSet(Held(map))
  /\ Len(keys) = Cardinality(Held(map)) /\ Len(keys) <= Capacity
  /\ {keys[n] : n \in DOMAIN keys} = Held(map)
  /\ \A m, n \in DOMAIN keys : keys[m] = keys[n] => m = n

Map == [Keys -> Entry \cup {NoEntry}]

\* Setting a key that is listed keeps the list of keys.
LEMMA SetKeepsListed ==
  ASSUME NEW map \in Map, NEW keys \in Seq(Keys), Listed(map, keys),
         NEW k \in Keys, map[k] # NoEntry,
         NEW after, after[k] # NoEntry,
         \A l \in Keys : l # k => after[l] = map[l]
  PROVE  Listed(after, keys)
<1>1. Held(after) = Held(map)
  BY DEF Held
<1> QED
  BY <1>1 DEF Listed

\* So does setting and appending one that is not.
LEMMA AppendKeepsListed ==
  ASSUME NEW map \in Map, NEW keys \in Seq(Keys), Listed(map, keys),
         NEW k \in Keys, map[k] = NoEntry, Len(keys) < Capacity,
         NEW after, after[k] # NoEntry,
         \A l \in Keys : l # k => after[l] = map[l],
         NEW more, more = Append(keys, k)
  PROVE  Listed(after, more)
<1>1. Held(after) = Held(map) \cup {k} /\ k \notin Held(map)
  BY DEF Held
<1>2. /\ IsFiniteSet(Held(map) \cup {k})
      /\ Cardinality(Held(map) \cup {k}) = Cardinality(Held(map)) + 1
  BY <1>1, FS_AddElement DEF Listed
<1>3. /\ Len(more) = Len(keys) + 1 /\ DOMAIN more = 1..(Len(keys) + 1)
      /\ DOMAIN keys = 1..Len(keys) /\ Len(keys) \in Nat
      /\ more[Len(keys) + 1] = k
      /\ \A n \in 1..Len(keys) : more[n] = keys[n]
  OBVIOUS
<1>4. {more[n] : n \in DOMAIN more} = Held(map) \cup {k}
  BY <1>3 DEF Listed
<1>5. ASSUME NEW m \in DOMAIN more, NEW n \in DOMAIN more, more[m] = more[n]
      PROVE  m = n
  BY <1>1, <1>3, <1>5 DEF Listed
<1>6. Len(more) <= Capacity
  BY <1>3
<1> QED
  BY <1>1, <1>2, <1>3, <1>4, <1>5, <1>6 DEF Listed

\* And removing one from both.
LEMMA RemoveKeepsListed ==
  ASSUME NEW map \in Map, NEW keys \in Seq(Keys), Listed(map, keys),
         NEW n \in DOMAIN keys, NEW less \in Seq(Keys),
         Len(less) = Len(keys) - 1,
         \A m \in 1..(Len(keys) - 1) :
           less[m] = IF m < n THEN keys[m] ELSE keys[m + 1],
         NEW after, after[keys[n]] = NoEntry,
         \A l \in Keys : l # keys[n] => after[l] = map[l]
  PROVE  Listed(after, less)
<1>1. DOMAIN keys = 1..Len(keys) /\ Len(keys) \in Nat
      /\ DOMAIN less = 1..(Len(keys) - 1) /\ keys[n] \in Keys
  OBVIOUS
<1>2. Held(after) = Held(map) \ {keys[n]} /\ keys[n] \in Held(map)
  BY <1>1 DEF Held, Listed
<1>3. /\ IsFiniteSet(Held(map) \ {keys[n]})
      /\ Cardinality(Held(map) \ {keys[n]}) = Cardinality(Held(map)) - 1
  BY <1>2, FS_RemoveElement DEF Listed
<1>4. {less[m] : m \in DOMAIN less} = Held(map) \ {keys[n]}
  <2>1. ASSUME NEW m \in DOMAIN less
        PROVE  less[m] \in Held(map) \ {keys[n]}
    BY <1>1 DEF Listed
  <2>2. ASSUME NEW k \in Held(map) \ {keys[n]}
        PROVE  \E m \in DOMAIN less : less[m] = k
    <3>1. PICK m \in DOMAIN keys : keys[m] = k
      BY DEF Listed
    <3>2. CASE m < n
      BY <1>1, <3>1, <3>2
    <3>3. CASE m > n
      <4>1. m - 1 \in DOMAIN less /\ less[m - 1] = keys[m]
        BY <1>1, <3>1, <3>3
      <4> QED
        BY <3>1, <4>1
    <3> QED
      BY <1>1, <3>1, <3>2, <3>3
  <2> QED
    BY <2>1, <2>2
<1>5. ASSUME NEW l \in DOMAIN less, NEW m \in DOMAIN less, less[l] = less[m]
      PROVE  l = m
  <2> DEFINE from(a) == IF a < n THEN a ELSE a + 1
  <2>1. /\ from(l) \in DOMAIN keys /\ less[l] = keys[from(l)]
        /\ from(m) \in DOMAIN keys /\ less[m] = keys[from(m)]
    BY <1>1
  <2>2. from(l) = from(m)
    <3> HIDE DEF from
    <3> QED
      BY <1>5, <2>1 DEF Listed
  <2> QED
    BY <1>1, <2>2
<1>6. Len(less) = Cardinality(Held(after)) /\ Len(less) <= Capacity
  BY <1>1, <1>2, <1>3 DEF Listed
<1> QED
  BY <1>2, <1>3, <1>4, <1>5, <1>6 DEF Listed

MapInv == \A i \in Isolates : Listed(memory[i], order[i])

\* A list of each key once is as long as the keys are many.
LEMMA MapSuffices == MapInv => MapBounded
<1>1. \A i \in Isolates :
        {k \in Keys : memory[i][k] # NoEntry} = Held(memory[i])
  BY DEF Held
<1> QED
  BY <1>1 DEF MapInv, MapBounded, Listed

(***************************************************************************)
(* writeRuntimeCache.                                                      *)
(***************************************************************************)
LEMMA WriteKeepsListed ==
  ASSUME TypeOK, MapInv, NEW i \in Isolates, NEW k \in Keys, NEW v \in Nat,
         WriteMemory(i, k, v)
  PROVE  MapInv'
<1> DEFINE entry == [value |-> v, expires |-> now + Ttl]
<1>1. entry # NoEntry
  BY DEF TypeOK
<1>2. /\ order[i] \in Seq(Keys) /\ memory[i] \in Map /\ Listed(memory[i], order[i])
      /\ memory = [j \in Isolates |-> memory[j]]
      /\ order = [j \in Isolates |-> order[j]]
  BY DEF TypeOK, MapInv, Map
<1>3. \A j \in Isolates : j # i => memory'[j] = memory[j] /\ order'[j] = order[j]
  BY <1>2 DEF WriteMemory
<1>4. CASE Len(order[i]) >= Capacity /\ memory[i][k] = NoEntry
  <2> DEFINE less == Tail(order[i])
             kept == [memory[i] EXCEPT ![Head(order[i])] = NoEntry]
  <2>1. /\ order[i] # <<>> /\ 1 \in DOMAIN order[i]
        /\ Head(order[i]) = order[i][1] /\ order[i][1] \in Keys
    BY <1>2, <1>4
  <2>2. /\ less \in Seq(Keys) /\ Len(less) = Len(order[i]) - 1
        /\ \A m \in 1..(Len(order[i]) - 1) : less[m] = order[i][m + 1]
    BY <1>2, <2>1
  <2>3. Listed(kept, less)
    <3>1. \A m \in 1..(Len(order[i]) - 1) :
            less[m] = IF m < 1 THEN order[i][m] ELSE order[i][m + 1]
      BY <1>2, <2>2
    <3>2. /\ kept[order[i][1]] = NoEntry
          /\ \A l \in Keys : l # order[i][1] => kept[l] = memory[i][l]
      BY <1>2, <2>1 DEF Map
    <3> HIDE DEF less, kept
    <3> QED
      BY <1>2, <2>1, <2>2, <3>1, <3>2, RemoveKeepsListed
  <2>4. kept \in Map /\ kept[k] = NoEntry
    BY <1>2, <1>4, <2>1 DEF Map
  <2>5. Len(less) < Capacity
    BY <1>2, <2>1, <2>2 DEF Listed
  <2>6. /\ memory'[i] = [kept EXCEPT ![k] = entry]
        /\ order'[i] = Append(less, k)
    BY <1>2, <1>4 DEF WriteMemory
  <2>7. Listed(memory'[i], order'[i])
    <3>1. /\ memory'[i][k] # NoEntry
          /\ \A l \in Keys : l # k => memory'[i][l] = kept[l]
      BY <1>1, <2>4, <2>6 DEF Map
    <3> HIDE DEF kept, less
    <3> QED
      BY <2>2, <2>3, <2>4, <2>5, <2>6, <3>1, AppendKeepsListed
  <2> QED
    BY <1>2, <1>3, <2>7 DEF MapInv
<1>5. CASE ~ (Len(order[i]) >= Capacity /\ memory[i][k] = NoEntry)
  <2>1. /\ memory'[i] = [memory[i] EXCEPT ![k] = entry]
        /\ order'[i] = IF memory[i][k] = NoEntry
                       THEN Append(order[i], k) ELSE order[i]
    BY <1>2, <1>5 DEF WriteMemory
  <2>2. Listed(memory'[i], order'[i])
    <3>0. /\ memory'[i][k] # NoEntry
          /\ \A l \in Keys : l # k => memory'[i][l] = memory[i][l]
      BY <1>1, <1>2, <2>1 DEF Map
    <3>1. CASE memory[i][k] = NoEntry
      <4>1. Len(order[i]) < Capacity
        BY <1>2, <1>5, <3>1
      <4> QED
        BY <1>2, <2>1, <3>0, <3>1, <4>1, AppendKeepsListed
    <3>2. CASE memory[i][k] # NoEntry
      BY <1>2, <2>1, <3>0, <3>2, SetKeepsListed
    <3> QED
      BY <3>1, <3>2
  <2> QED
    BY <1>2, <1>3, <2>2 DEF MapInv
<1> QED
  BY <1>4, <1>5

(***************************************************************************)
(* A sequence without its element at n: what is before n and what is after *)
(* n, one after the other.                                                 *)
(***************************************************************************)
LEMMA JoinAround ==
  ASSUME NEW S, NEW s \in Seq(S), NEW n \in 1..Len(s),
         NEW f \in Seq(S), Len(f) = n - 1,
         \A m \in 1..(n - 1) : f[m] = s[m],
         NEW b \in Seq(S), Len(b) = Len(s) - n,
         \A m \in 1..(Len(s) - n) : b[m] = s[m + n],
         NEW less, less = f \o b
  PROVE  /\ less \in Seq(S) /\ Len(less) = Len(s) - 1
         /\ \A m \in 1..(Len(s) - 1) :
              less[m] = IF m < n THEN s[m] ELSE s[m + 1]
<1>0. Len(s) \in Nat /\ n \in Nat /\ n >= 1 /\ n <= Len(s)
  OBVIOUS
<1>1. /\ f \o b \in Seq(S) /\ Len(f \o b) = Len(f) + Len(b)
      /\ \A m \in 1..(Len(f) + Len(b)) :
           (f \o b)[m] = IF m <= Len(f) THEN f[m] ELSE b[m - Len(f)]
  BY ConcatProperties
<1>2. Len(f) + Len(b) = Len(s) - 1
  BY <1>0
<1>3. ASSUME NEW m \in 1..(Len(s) - 1)
      PROVE  less[m] = IF m < n THEN s[m] ELSE s[m + 1]
  <2>1. less[m] = IF m <= n - 1 THEN f[m] ELSE b[m - (n - 1)]
    BY <1>1, <1>2
  <2>2. CASE m < n
    BY <1>0, <2>1, <2>2
  <2>3. CASE ~ (m < n)
    <3>1. /\ m - (n - 1) \in 1..(Len(s) - n)
          /\ (m - (n - 1)) + n = m + 1
      BY <1>0, <2>3
    <3>2. less[m] = b[m - (n - 1)]
      BY <1>0, <2>1, <2>3
    <3> QED
      BY <2>3, <3>1, <3>2
  <2> QED
    BY <2>2, <2>3
<1> QED
  BY <1>1, <1>2, <1>3

\* Removing the key at a place is removing that key.
LEMMA RemoveAtKeepsListed ==
  ASSUME NEW map \in Map, NEW keys \in Seq(Keys), Listed(map, keys),
         NEW n \in 1..Len(keys),
         NEW after, after[keys[n]] = NoEntry,
         \A l \in Keys : l # keys[n] => after[l] = map[l]
  PROVE  Listed(after, RemoveAt(keys, n))
<1> DEFINE f == SubSeq(keys, 1, n - 1)
           b == SubSeq(keys, n + 1, Len(keys))
           less == RemoveAt(keys, n)
<1>1. n \in 1..Len(keys) /\ Len(keys) \in Nat
  OBVIOUS
<1>2. /\ f \in Seq(Keys) /\ Len(f) = n - 1
      /\ \A m \in 1..(n - 1) : f[m] = keys[m]
  BY <1>1
<1>3. /\ b \in Seq(Keys) /\ Len(b) = Len(keys) - n
      /\ \A m \in 1..(Len(keys) - n) : b[m] = keys[m + n]
  BY <1>1
<1>4. less = f \o b
  BY DEF RemoveAt
<1> HIDE DEF f, b, less
<1>5. /\ less \in Seq(Keys) /\ Len(less) = Len(keys) - 1
      /\ \A m \in 1..(Len(keys) - 1) :
           less[m] = IF m < n THEN keys[m] ELSE keys[m + 1]
  BY <1>1, <1>2, <1>3, <1>4, JoinAround
<1>6. n \in DOMAIN keys
  BY <1>1
<1>7. Listed(after, less)
  BY <1>5, <1>6, RemoveKeepsListed
<1> QED
  BY <1>7 DEF less

(***************************************************************************)
(* readRuntimeCache of an expired entry.                                   *)
(***************************************************************************)
LEMMA DropKeepsListed ==
  ASSUME TypeOK, MapInv, NEW i \in Isolates, NEW k \in Keys, DropExpired(i, k)
  PROVE  MapInv'
<1>1. CASE UNCHANGED <<memory, order>>
  BY <1>1 DEF MapInv
<1>2. ASSUME NEW n \in DOMAIN order[i], order[i][n] = k,
             memory' = [memory EXCEPT ![i][k] = NoEntry],
             order' = [order EXCEPT ![i] = RemoveAt(@, n)]
      PROVE  MapInv'
  <2>1. /\ order[i] \in Seq(Keys) /\ memory[i] \in Map
        /\ Listed(memory[i], order[i])
        /\ memory = [j \in Isolates |-> memory[j]]
        /\ order = [j \in Isolates |-> order[j]]
    BY DEF TypeOK, MapInv, Map
  <2>2. n \in 1..Len(order[i])
    BY <2>1
  <2>3. /\ memory'[i][order[i][n]] = NoEntry
        /\ \A l \in Keys : l # order[i][n] => memory'[i][l] = memory[i][l]
        /\ order'[i] = RemoveAt(order[i], n)
        /\ \A j \in Isolates : j # i => memory'[j] = memory[j] /\ order'[j] = order[j]
    BY <1>2, <2>1 DEF Map
  <2>4. Listed(memory'[i], RemoveAt(order[i], n))
    BY <2>1, <2>2, <2>3, RemoveAtKeepsListed
  <2> QED
    BY <2>1, <2>3, <2>4 DEF MapInv
<1> QED
  BY <1>1, <1>2 DEF DropExpired

\* Every step keeps the list of keys.
LEMMA MapStep ==
  ASSUME TypeOK, MapInv, [Next]_vars
  PROVE  MapInv'
<1>1. ASSUME UNCHANGED <<memory, order>>
      PROVE  MapInv'
  BY <1>1 DEF MapInv
<1>2. ASSUME NEW p \in Procs, FillFromEdge(p) \/ FillMemory(p)
      PROVE  MapInv'
  <2>1. call[p] \in Holding
    BY <1>2, CallShape DEF FillFromEdge, FillMemory
  <2>2. /\ call[p].isolate \in Isolates /\ call[p].key \in Keys
        /\ call[p].value \in Nat
        /\ WriteMemory(call[p].isolate, call[p].key, call[p].value)
    BY <1>2, <2>1 DEF FillFromEdge, FillMemory, Holding
  <2> QED
    BY <2>2, WriteKeepsListed
<1>3. ASSUME NEW i \in Isolates, Recycle(i)
      PROVE  MapInv'
  <2>1. /\ memory'[i] = [k \in Keys |-> NoEntry] /\ order'[i] = <<>>
        /\ \A j \in Isolates : j # i => memory'[j] = memory[j] /\ order'[j] = order[j]
    BY <1>3 DEF Recycle, TypeOK
  <2>2. Held([k \in Keys |-> NoEntry]) = {}
    BY DEF Held
  <2>3. Listed([k \in Keys |-> NoEntry], <<>>)
    BY <2>2, FS_EmptySet DEF Listed
  <2> QED
    BY <2>1, <2>3 DEF MapInv
<1>4. \/ UNCHANGED <<memory, order>>
      \/ \E p \in Procs : FillFromEdge(p) \/ FillMemory(p)
      \/ \E p \in Procs, j \in Isolates, l \in Keys : LoadMissesMemory(p, j, l)
      \/ \E j \in Isolates : Recycle(j)
  BY DEF Next, vars, LoadFromMemory, KvPut, CallStep, EdgeHit, EdgeMiss, KvGet,
         KvFails, FillEdge, Tick
<1> QED
  BY <1>1, <1>2, <1>3, <1>4, DropKeepsListed DEF LoadMissesMemory

(***************************************************************************)
(* The Map of an isolate stays within its capacity and lists its keys in   *)
(* the order in which they are evicted, for any keys, isolates and         *)
(* capacity.                                                               *)
(***************************************************************************)
THEOREM MapsAreBounded == Spec => []MapBounded
<1>1. Init => MapInv
  <2>1. Held([k \in Keys |-> NoEntry]) = {}
    BY DEF Held
  <2>2. Listed([k \in Keys |-> NoEntry], <<>>)
    BY <2>1, FS_EmptySet DEF Listed
  <2> QED
    BY <2>2 DEF Init, MapInv
<1> QED
  BY <1>1, InitType, StepType, MapStep, MapSuffices, PTL DEF Spec
==============================================================================
