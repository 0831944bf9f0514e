---------------------------- MODULE RoutingProofs ----------------------------
(***************************************************************************)
(* Proofs about CustomDomains, for any applications, hostnames, paths,     *)
(* deploys, plans and initial owners.                                      *)
(***************************************************************************)
EXTENDS CustomDomains, WellFoundedInduction, TLAPS

-----------------------------------------------------------------------------
(* Keys, tables and writes *)

(***************************************************************************)
(* A key is the mapping of its hostname, the list of its hostname, or the  *)
(* record of its hostname and path.                                        *)
(***************************************************************************)
LEMMA KeyForms ==
  /\ \A h \in Hosts : /\ Mapping(h) \in Keys /\ Mapping(h).form = "mapping"
                      /\ Mapping(h).host = h /\ Mapping(h).path = Root
  /\ \A h \in Hosts : /\ List(h) \in Keys /\ List(h).form = "list"
                      /\ List(h).host = h /\ List(h).path = Root
  /\ \A h \in Hosts, p \in Paths :
       /\ Record(h, p) \in Keys /\ Record(h, p).form = "record"
       /\ Record(h, p).host = h /\ Record(h, p).path = p
  /\ \A k \in Keys : /\ k.host \in Hosts /\ k.path \in Paths
                     /\ k.form \in {"mapping", "list", "record"}
                     /\ k.form = "mapping" => k = Mapping(k.host) /\ k.path = Root
                     /\ k.form = "list" => k = List(k.host) /\ k.path = Root
                     /\ k.form = "record" => k = Record(k.host, k.path)
<1>1. Root \in Paths
  BY PathsAssumption
<1>2. ASSUME NEW k \in Keys
      PROVE  /\ k.host \in Hosts /\ k.path \in Paths
             /\ k.form \in {"mapping", "list", "record"}
             /\ k.form = "mapping" => k = Mapping(k.host) /\ k.path = Root
             /\ k.form = "list" => k = List(k.host) /\ k.path = Root
             /\ k.form = "record" => k = Record(k.host, k.path)
  BY DEF Keys, Forms, Mapping, List, Record
<1> QED
  BY <1>1, <1>2 DEF Keys, Forms, Mapping, List, Record

(***************************************************************************)
(* A table says of every path who owns it, and is known by that.           *)
(***************************************************************************)
LEMMA TableIs ==
  /\ Empty \in Table /\ \A p \in Paths : Empty[p] = None
  /\ \A p \in Paths, a \in Owners :
       /\ Only(p, a) \in Table
       /\ \A q \in Paths : Only(p, a)[q] = IF q = p THEN a ELSE None
  /\ \A s, t \in Table : (\A p \in Paths : s[p] = t[p]) => s = t
<1>1. None \in Owners
  BY DEF Owners
<1> QED
  BY <1>1 DEF Empty, Only, Table

(***************************************************************************)
(* What is stored for given owners.                                        *)
(***************************************************************************)
LEMMA StoredIs ==
  ASSUME NEW r \in [Hosts -> Table]
  PROVE  /\ Stored(r) \in [Keys -> Table]
         /\ \A k \in Keys, p \in Paths :
              Stored(r)[k][p] = IF k.form = "list" \/ p = k.path
                                THEN r[k.host][p] ELSE None
<1>1. \A k \in Keys, p \in Paths : r[k.host] \in Table /\ r[k.host][p] \in Owners
  BY KeyForms DEF Table
<1>2. \A k \in Keys : Stored(r)[k] = IF k.form = "list" THEN r[k.host]
                                     ELSE Only(k.path, r[k.host][k.path])
  BY DEF Stored
<1>3. \A k \in Keys : Stored(r)[k] \in Table
  BY <1>1, <1>2, TableIs, KeyForms
<1>4. \A k \in Keys, p \in Paths :
        Stored(r)[k][p] = IF k.form = "list" \/ p = k.path
                          THEN r[k.host][p] ELSE None
  BY <1>1, <1>2, TableIs, KeyForms
<1>5. Stored(r) = [k \in Keys |-> Stored(r)[k]]
  BY DEF Stored
<1> QED
  BY <1>3, <1>4, <1>5

(***************************************************************************)
(* A deploy reads and makes tables.                                        *)
(***************************************************************************)
LEMMA DeployType ==
  ASSUME TypeOK, NEW d \in Deploys
  PROVE  /\ plan[d] \in Plan /\ plan[d].app \in Apps /\ plan[d].app \in Owners
         /\ plan[d].app # None
         /\ plan[d].routes \subseteq Routes /\ plan[d].stale \subseteq Hosts
         /\ HostsOf(d) \subseteq Hosts
         /\ \A k \in Keys : kv[k] \in Table /\ Retained(d, k) \in Table
         /\ \A h \in Hosts : Merged(d, h) \in Table
<1>1. plan[d] \in Plan
  BY PlansAssumption DEF TypeOK
<1>2. /\ plan[d].app \in Apps /\ plan[d].app \in Owners /\ plan[d].app # None
      /\ plan[d].routes \subseteq Routes /\ plan[d].stale \subseteq Hosts
  BY <1>1, NoneAssumption DEF Plan, Owners
<1>3. HostsOf(d) \subseteq Hosts
  BY DEF HostsOf, TypeOK, Routes
<1>4. \A k \in Keys : kv[k] \in Table /\ \A p \in Paths : kv[k][p] \in Owners
  BY DEF TypeOK, Table
<1>5. None \in Owners
  BY DEF Owners
<1>6. \A k \in Keys : Retained(d, k) \in Table
  BY <1>4, <1>5 DEF Retained, Table
<1>7. \A h \in Hosts : Merged(d, h) \in Table
  BY <1>2, <1>4, <1>5, KeyForms DEF Merged, Table
<1> QED
  BY <1>1, <1>2, <1>3, <1>4, <1>6, <1>7

(***************************************************************************)
(* What a deploy puts for a key it visits: the key's own retained table.   *)
(***************************************************************************)
LEMMA PutsAre ==
  ASSUME TypeOK, NEW d \in Deploys, NEW k \in Keys
  PROVE  /\ Puts(d, k) \subseteq Write
         /\ \A w \in Puts(d, k) :
              /\ w.key = k /\ w.table = Retained(d, k)
              /\ \/ k.form = "list" /\ Retained(d, k) # Empty
                 \/ /\ Retained(d, k) # kv[k]
                    /\ k.form = "list" => k.host \notin HostsOf(d)
<1>1. [key |-> k, table |-> Retained(d, k)] \in Write
  BY DeployType DEF Write
<1> QED
  BY <1>1 DEF Puts

(***************************************************************************)
(* What a deploy puts for a hostname it merges.                            *)
(***************************************************************************)
LEMMA MergePutsAre ==
  ASSUME TypeOK, NEW d \in Deploys, NEW h \in Hosts
  PROVE  /\ MergePuts(d, h) \subseteq Write
         /\ \A w \in MergePuts(d, h) :
              \/ w.key = Mapping(h) /\ w.table = Only(Root, Merged(d, h)[Root])
              \/ w.key = List(h) /\ w.table = Merged(d, h)
              \/ \E p \in Paths : /\ <<h, p>> \in attached[d]
                                  /\ w.key = Record(h, p)
                                  /\ w.table = Only(p, plan[d].app)
         /\ \E w \in MergePuts(d, h) : w.key = Mapping(h)
         /\ \E w \in MergePuts(d, h) : w.key = List(h)
         /\ \A p \in Paths : <<h, p>> \in attached[d] =>
              \E w \in MergePuts(d, h) : w.key = Record(h, p)
<1>1. Merged(d, h) \in Table /\ Merged(d, h)[Root] \in Owners
  BY DeployType, PathsAssumption DEF Table
<1>2. /\ Only(Root, Merged(d, h)[Root]) \in Table
      /\ \A p \in Paths : Only(p, plan[d].app) \in Table
  BY <1>1, TableIs, DeployType, PathsAssumption
<1>3. /\ [key |-> Mapping(h), table |-> Only(Root, Merged(d, h)[Root])] \in Write
      /\ [key |-> List(h), table |-> Merged(d, h)] \in Write
      /\ \A p \in Paths : [key |-> Record(h, p), table |-> Only(p, plan[d].app)] \in Write
  BY <1>1, <1>2, KeyForms DEF Write
<1>4. \A w : w \in MergePuts(d, h) <=>
        \/ w = [key |-> Mapping(h), table |-> Only(Root, Merged(d, h)[Root])]
        \/ w = [key |-> List(h), table |-> Merged(d, h)]
        \/ \E p \in Paths : /\ <<h, p>> \in attached[d]
                            /\ w = [key |-> Record(h, p), table |-> Only(p, plan[d].app)]
  BY Zenon DEF MergePuts
<1>5. MergePuts(d, h) \subseteq Write
  BY <1>3, <1>4
<1>6. \A w \in MergePuts(d, h) :
              \/ w.key = Mapping(h) /\ w.table = Only(Root, Merged(d, h)[Root])
              \/ w.key = List(h) /\ w.table = Merged(d, h)
              \/ \E p \in Paths : /\ <<h, p>> \in attached[d]
                                  /\ w.key = Record(h, p)
                                  /\ w.table = Only(p, plan[d].app)
  BY <1>4
<1>7. \E w \in MergePuts(d, h) : w.key = Mapping(h)
  <2>1. [key |-> Mapping(h), table |-> Only(Root, Merged(d, h)[Root])]
          \in MergePuts(d, h)
    BY <1>4
  <2> QED
    BY <2>1
<1>8. \E w \in MergePuts(d, h) : w.key = List(h)
  <2>1. [key |-> List(h), table |-> Merged(d, h)] \in MergePuts(d, h)
    BY <1>4
  <2> QED
    BY <2>1
<1>9. ASSUME NEW p \in Paths, <<h, p>> \in attached[d]
      PROVE  \E w \in MergePuts(d, h) : w.key = Record(h, p)
  <2>1. [key |-> Record(h, p), table |-> Only(p, plan[d].app)] \in MergePuts(d, h)
    BY <1>4, <1>9
  <2> QED
    BY <2>1
<1> QED
  BY <1>5, <1>6, <1>7, <1>8, <1>9

-----------------------------------------------------------------------------
(* Types *)

(***************************************************************************)
(* What earlier deploys have left.                                         *)
(***************************************************************************)
LEMMA InitType == Init => TypeOK
<1> SUFFICES ASSUME Init
             PROVE  TypeOK
  OBVIOUS
<1>1. first \in [Hosts -> Table] /\ owner \in [Hosts -> Table]
  BY RegistriesAssumption DEF Init
<1>2. kv \in [Keys -> Table]
  BY <1>1, StoredIs DEF Init
<1> QED
  BY <1>1, <1>2 DEF Init, TypeOK, Forms

(***************************************************************************)
(* Who may be answered for the root of a hostname.                         *)
(***************************************************************************)
LEMMA RootAnswersType ==
  ASSUME TypeOK, NEW h \in Hosts
  PROVE  RootAnswers(h) \subseteq Owners
  BY KeyForms, PathsAssumption DEF TypeOK, RootAnswers, Table

(***************************************************************************)
(* Every step keeps the types.                                             *)
(***************************************************************************)
LEMMA StepType == TypeOK /\ [Next]_vars => TypeOK'
<1> SUFFICES ASSUME TypeOK, [Next]_vars
             PROVE  TypeOK'
  OBVIOUS
<1>1. CASE UNCHANGED vars
  BY <1>1 DEF vars, TypeOK
<1>2. ASSUME NEW d \in Deploys, Begin(d)
      PROVE  TypeOK'
  <2>1. {Record(route[1], route[2]) : route \in plan[d].routes} \subseteq Keys
    BY DeployType, KeyForms DEF Routes
  <2>2. met' \subseteq SUBSET Deploys
    BY <1>2 DEF Begin, TypeOK
  <2> QED
    BY <1>2, <2>1, <2>2 DEF Begin, TypeOK
<1>3. ASSUME NEW d \in Deploys, NEW route \in Routes, Claim(d, route)
      PROVE  TypeOK'
  <2>1. route[1] \in Hosts /\ WildcardOf[route[1]] \in Hosts
    BY HostsAssumption DEF Routes
  <2>2. attached' \in [Deploys -> SUBSET Routes]
    <3>1. \/ attached' = attached
          \/ attached' = [attached EXCEPT ![d] = @ \cup {route}]
      BY <1>3, Zenon DEF Claim
    <3> QED
      BY <3>1 DEF TypeOK
  <2>3. cached' \in [Hosts -> SUBSET Owners]
    <3>1. PICK root \in RootAnswers(route[1]), wildroot \in RootAnswers(WildcardOf[route[1]]) :
            cached' = [cached EXCEPT ![route[1]] = @ \cup {root},
                                     ![WildcardOf[route[1]]] = @ \cup {wildroot}]
      BY <1>3 DEF Claim
    <3>2. root \in Owners /\ wildroot \in Owners
      BY <2>1, RootAnswersType
    <3> QED
      BY <2>1, <3>1, <3>2 DEF TypeOK
  <2>4. misled' \in BOOLEAN
    BY <1>3, Zenon DEF Claim
  <2>5. todo' \in [Deploys -> SUBSET Keys]
    BY <1>3 DEF Claim, TypeOK
  <2>6. UNCHANGED <<kv, status, plan, pass, writes, first, owner, met>>
    BY <1>3 DEF Claim
  <2> QED
    BY <2>2, <2>3, <2>4, <2>5, <2>6 DEF TypeOK
<1>4. ASSUME NEW d \in Deploys, Planned(d)
      PROVE  TypeOK'
  BY <1>4 DEF Planned, TypeOK
<1>5. ASSUME NEW d \in Deploys, NEW k \in Keys, Visit(d, k)
      PROVE  TypeOK'
  <2>1. writes' \in [Deploys -> SUBSET Write]
    BY <1>5, PutsAre DEF Visit, TypeOK
  <2> QED
    BY <1>5, <2>1 DEF Visit, TypeOK
<1>6. ASSUME NEW d \in Deploys, PassOver(d)
      PROVE  TypeOK'
  <2>1. todo' \in [Deploys -> SUBSET Keys]
    <3>1. {List(h) : h \in HostsOf(d)} \subseteq Keys
      BY DeployType, KeyForms
    <3> QED
      BY <1>6, <3>1 DEF PassOver, TypeOK
  <2>2. pass[d] \in {"mapping", "list", "record"}
    BY <1>6 DEF PassOver, TypeOK, Forms
  <2>3. pass' \in [Deploys -> Forms \cup {"merge"}]
    BY <1>6, <2>2 DEF PassOver, TypeOK, Forms, After
  <2> QED
    BY <1>6, <2>1, <2>3 DEF PassOver, TypeOK
<1>7. ASSUME NEW d \in Deploys, NEW h \in Hosts, Merge(d, h)
      PROVE  TypeOK'
  <2>1. Merged(d, h)[Root] \in Owners
    BY DeployType, PathsAssumption DEF Table
  <2>2. cached' \in [Hosts -> SUBSET Owners]
    BY <1>7, <2>1 DEF Merge, TypeOK
  <2>3. writes' \in [Deploys -> SUBSET Write]
    BY <1>7, MergePutsAre DEF Merge, TypeOK
  <2> QED
    BY <1>7, <2>2, <2>3 DEF Merge, TypeOK
<1>8. ASSUME NEW d \in Deploys, NEW w \in writes[d], Land(d, w)
      PROVE  TypeOK'
  <2>1. w.key \in Keys /\ w.table \in Table
    BY DEF TypeOK, Write
  <2> QED
    BY <1>8, <2>1 DEF Land, TypeOK
<1>9. ASSUME NEW d \in Deploys, Done(d)
      PROVE  TypeOK'
  <2>1. owner' \in [Hosts -> Table]
    <3>1. /\ plan[d].app \in Owners /\ None \in Owners
          /\ \A h \in Hosts, p \in Paths : owner[h][p] \in Owners
      BY DeployType DEF TypeOK, Table, Owners
    <3> QED
      BY <1>9, <3>1 DEF Done, Table
  <2> QED
    BY <1>9, <2>1 DEF Done, TypeOK
<1>10. ASSUME NEW d \in Deploys, Fails(d) \/ Abandon(d)
       PROVE  TypeOK'
  BY <1>10 DEF Fails, Abandon, TypeOK
<1>11. ASSUME NEW h \in Hosts, Fill(h) \/ Expire(h)
       PROVE  TypeOK'
  <2>1. kv[Mapping(h)][Root] \in Owners
    BY RootAnswersType DEF RootAnswers
  <2> QED
    BY <1>11, <2>1 DEF Fill, Expire, TypeOK
<1> QED
  BY <1>1, <1>2, <1>3, <1>4, <1>5, <1>6, <1>7, <1>8, <1>9, <1>10, <1>11
     DEF Next, Step

(***************************************************************************)
(* The variables of CustomDomains keep their types.                        *)
(***************************************************************************)
THEOREM TypeCorrect == Spec => []TypeOK
  BY InitType, StepType, PTL DEF Spec

-----------------------------------------------------------------------------
(* What a step does *)

(***************************************************************************)
(* A request keeps its plan, and once it acts also what it was granted.    *)
(***************************************************************************)
LEMMA Moves ==
  ASSUME TypeOK, [Next]_vars
  PROVE  /\ plan' = plan /\ first' = first
         /\ misled => misled'
         /\ met \subseteq met'
         /\ \A d \in Deploys : attached[d] \subseteq attached'[d]
         /\ \A d \in Acting : d \in Acting' /\ attached'[d] = attached[d]
<1> DEFINE Goal == /\ plan' = plan /\ first' = first
                   /\ misled => misled'
                   /\ met \subseteq met'
                   /\ \A d \in Deploys : attached[d] \subseteq attached'[d]
                   /\ \A d \in Acting : d \in Acting' /\ attached'[d] = attached[d]
<1>1. ASSUME UNCHANGED vars
      PROVE  Goal
  BY <1>1 DEF vars, Acting
<1>2. ASSUME NEW d \in Deploys, Begin(d)
      PROVE  Goal
  BY <1>2 DEF Begin, TypeOK, Acting
<1>3. ASSUME NEW d \in Deploys, NEW route \in Routes, Claim(d, route)
      PROVE  Goal
  <2>1. \/ attached' = attached
        \/ attached' = [attached EXCEPT ![d] = @ \cup {route}]
    BY <1>3, Zenon DEF Claim
  <2>2. misled => misled'
    BY <1>3, Zenon DEF Claim
  <2>3. UNCHANGED <<status, plan, first, met>> /\ d \notin Acting
    BY <1>3 DEF Claim, Acting
  <2> QED
    BY <2>1, <2>2, <2>3 DEF TypeOK, Acting
<1>4. ASSUME NEW d \in Deploys, Planned(d)
      PROVE  Goal
  BY <1>4 DEF Planned, TypeOK, Acting
<1>5. ASSUME NEW d \in Deploys, NEW k \in Keys, Visit(d, k)
      PROVE  Goal
  BY <1>5 DEF Visit, Acting
<1>6. ASSUME NEW d \in Deploys, PassOver(d)
      PROVE  Goal
  BY <1>6 DEF PassOver, Acting
<1>7. ASSUME NEW d \in Deploys, NEW h \in Hosts, Merge(d, h)
      PROVE  Goal
  BY <1>7 DEF Merge, Acting
<1>8. ASSUME NEW d \in Deploys, NEW w \in writes[d], Land(d, w)
      PROVE  Goal
  BY <1>8 DEF Land, Acting
<1>9. ASSUME NEW d \in Deploys, Done(d)
      PROVE  Goal
  BY <1>9 DEF Done, TypeOK, Acting
<1>10. ASSUME NEW d \in Deploys, Fails(d)
       PROVE  Goal
  BY <1>10 DEF Fails, TypeOK, Acting
<1>11. ASSUME NEW d \in Deploys, Abandon(d)
       PROVE  Goal
  BY <1>11 DEF Abandon, Acting
<1>12. ASSUME NEW h \in Hosts, Fill(h) \/ Expire(h)
       PROVE  Goal
  BY <1>12 DEF Fill, Expire, Acting
<1> HIDE DEF Goal
<1>13. Goal
  BY <1>2, <1>3, <1>4, <1>5, <1>6, <1>7, <1>8, <1>9, <1>10, <1>11, <1>12, <1>1, Zenon
     DEF Next, Step
<1> QED
  BY <1>13 DEF Goal

(***************************************************************************)
(* A claim, once held, is held for ever; who is uncontested has been so.   *)
(***************************************************************************)
LEMMA ClaimsStay ==
  ASSUME TypeOK, [Next]_vars, NEW h \in Hosts, NEW p \in Paths
  PROVE  /\ \A a \in Apps : HeldBy(a, h, p) => HeldBy(a, h, p)'
         /\ \A a \in Apps : Uncontested(a, h, p)' => Uncontested(a, h, p)
<1>1. \A a \in Apps : HeldBy(a, h, p) => HeldBy(a, h, p)'
  BY Moves DEF HeldBy, Acting
<1>2. \A a \in Apps : Uncontested(a, h, p)' => Uncontested(a, h, p)
  BY <1>1, Moves DEF Uncontested
<1> QED
  BY <1>1, <1>2

(***************************************************************************)
(* A put in flight was in flight before, or retains a key that is visited, *)
(* or merges a list.                                                       *)
(***************************************************************************)
VisitPuts(d, k, w) ==
  /\ status[d] \in {"replacing", "failed"} /\ pass[d] # "merge"
  /\ k \in todo[d]
  /\ kv[k] # Empty /\ w \in Puts(d, k)

MergesPut(d, h, w) ==
  /\ status[d] \in {"replacing", "failed"} /\ pass[d] = "merge"
  /\ List(h) \in todo[d]
  /\ w \in MergePuts(d, h)

\* Which puts a step starts: those of a visit or of a merge, or none.
LEMMA NewWrites ==
  ASSUME TypeOK, [Next]_vars, NEW d \in Deploys, NEW w \in writes'[d]
  PROVE  \/ w \in writes[d]
         \/ \E k \in Keys : VisitPuts(d, k, w)
         \/ \E h \in Hosts : MergesPut(d, h, w)
<1> DEFINE Goal == \/ w \in writes[d]
                   \/ \E k \in Keys : VisitPuts(d, k, w)
                   \/ \E h \in Hosts : MergesPut(d, h, w)
<1>1. ASSUME UNCHANGED vars
      PROVE  Goal
  BY <1>1 DEF vars
<1>2. ASSUME NEW e \in Deploys, Begin(e) \/ Planned(e) \/ PassOver(e) \/ Done(e) \/ Fails(e)
      PROVE  Goal
  BY <1>2 DEF Begin, Planned, PassOver, Done, Fails
<1>3. ASSUME NEW e \in Deploys, NEW route \in Routes, Claim(e, route)
      PROVE  Goal
  BY <1>3 DEF Claim
<1>4. ASSUME NEW e \in Deploys, NEW k \in Keys, Visit(e, k)
      PROVE  Goal
  BY <1>4 DEF Visit, VisitPuts, TypeOK
<1>5. ASSUME NEW e \in Deploys, NEW h \in Hosts, Merge(e, h)
      PROVE  Goal
  BY <1>5 DEF Merge, MergesPut, TypeOK
<1>6. ASSUME NEW e \in Deploys, NEW v \in writes[e], Land(e, v)
      PROVE  Goal
  BY <1>6 DEF Land, TypeOK
<1>7. ASSUME NEW e \in Deploys, Abandon(e)
      PROVE  Goal
  BY <1>7 DEF Abandon, TypeOK
<1>8. ASSUME NEW h \in Hosts, Fill(h) \/ Expire(h)
      PROVE  Goal
  BY <1>8 DEF Fill, Expire
<1> HIDE DEF Goal
<1>9. Goal
  BY <1>1, <1>2, <1>3, <1>4, <1>5, <1>6, <1>7, <1>8, Zenon DEF Next, Step
<1> QED
  BY <1>9 DEF Goal

(***************************************************************************)
(* The value of a key changes when a put of it takes effect.               *)
(***************************************************************************)
LEMMA NewValues ==
  ASSUME TypeOK, [Next]_vars, NEW k \in Keys
  PROVE  \/ kv'[k] = kv[k]
         \/ \E d \in Deploys : \E w \in writes[d] : w.key = k /\ kv'[k] = w.table
<1> DEFINE Goal == \/ kv'[k] = kv[k]
                   \/ \E d \in Deploys : \E w \in writes[d] :
                        w.key = k /\ kv'[k] = w.table
<1>1. ASSUME NEW e \in Deploys, NEW v \in writes[e], Land(e, v)
      PROVE  Goal
  BY <1>1 DEF Land, TypeOK
<1>2. CASE UNCHANGED kv
  BY <1>2
<1>3. UNCHANGED kv \/ \E e \in Deploys : \E v \in writes[e] : Land(e, v)
  BY Zenon DEF Next, Step, vars, Begin, Claim, Planned, Visit, PassOver, Merge, Done,
           Fails, Abandon, Fill, Expire
<1> QED
  BY <1>1, <1>2, <1>3

(***************************************************************************)
(* What a cache may answer, it could before, or the root mapping is read,  *)
(* or it is about to be put.                                               *)
(***************************************************************************)
LEMMA NewCached ==
  ASSUME TypeOK, [Next]_vars, NEW h \in Hosts, NEW a \in cached'[h]
  PROVE  \/ a \in RootAnswers(h)
         \/ \E d \in Acting : a = Merged(d, h)[Root]
<1> DEFINE Goal == \/ a \in RootAnswers(h)
                   \/ \E d \in Acting : a = Merged(d, h)[Root]
<1>1. ASSUME NEW d \in Deploys, NEW route \in Routes, Claim(d, route)
      PROVE  Goal
  <2>1. PICK root \in RootAnswers(route[1]), wildroot \in RootAnswers(WildcardOf[route[1]]) :
          cached' = [cached EXCEPT ![route[1]] = @ \cup {root},
                                   ![WildcardOf[route[1]]] = @ \cup {wildroot}]
    BY <1>1, Zenon DEF Claim
  <2>2. route[1] \in Hosts /\ WildcardOf[route[1]] \in Hosts
    BY HostsAssumption DEF Routes
  <2>3. cached[h] \subseteq RootAnswers(h)
    BY DEF RootAnswers
  <2>4. a \in cached[h] \/ (a = root /\ h = route[1])
          \/ (a = wildroot /\ h = WildcardOf[route[1]])
    BY <2>1, <2>2 DEF TypeOK
  <2> QED
    BY <2>3, <2>4
<1>2. ASSUME NEW d \in Deploys, NEW g \in Hosts, Merge(d, g)
      PROVE  Goal
  BY <1>2 DEF Merge, RootAnswers, Acting, TypeOK
<1>3. ASSUME NEW g \in Hosts, Fill(g) \/ Expire(g)
      PROVE  Goal
  BY <1>3 DEF Fill, Expire, RootAnswers, TypeOK
<1>4. ASSUME UNCHANGED cached
      PROVE  Goal
  BY <1>4 DEF RootAnswers
<1>5. \/ UNCHANGED cached
      \/ \E d \in Deploys, route \in Routes : Claim(d, route)
      \/ \E d \in Deploys, g \in Hosts : Merge(d, g)
      \/ \E g \in Hosts : Fill(g) \/ Expire(g)
  BY Zenon DEF Next, Step, vars, Begin, Planned, Visit, PassOver, Land, Done, Fails, Abandon
<1> QED
  BY <1>1, <1>2, <1>3, <1>4, <1>5

-----------------------------------------------------------------------------
(* No route is made up *)

(***************************************************************************)
(* A deploy that acts puts only what it read or was granted.               *)
(***************************************************************************)
LEMMA PutsAreClaimed ==
  ASSUME TypeOK, OnlyClaimedRoutes, NEW d \in Acting
  PROVE  /\ \A k \in Keys, p \in Paths :
              Retained(d, k)[p] # None => HeldBy(Retained(d, k)[p], k.host, p)
         /\ \A h \in Hosts, p \in Paths :
              Merged(d, h)[p] # None => HeldBy(Merged(d, h)[p], h, p)
<1>1. \A k \in Keys, p \in Paths :
        Retained(d, k)[p] # None => HeldBy(Retained(d, k)[p], k.host, p)
  BY DEF OnlyClaimedRoutes, Retained
<1>2. \A h \in Hosts, p \in Paths :
        Merged(d, h)[p] # None => HeldBy(Merged(d, h)[p], h, p)
  <2> SUFFICES ASSUME NEW h \in Hosts, NEW p \in Paths, Merged(d, h)[p] # None
               PROVE  HeldBy(Merged(d, h)[p], h, p)
    OBVIOUS
  <2>1. CASE <<h, p>> \in attached[d]
    BY <2>1 DEF Merged, HeldBy
  <2>2. CASE <<h, p>> \notin attached[d]
    <3>1. Merged(d, h)[p] = kv[List(h)][p]
      BY <2>2 DEF Merged
    <3> QED
      BY <3>1, KeyForms DEF OnlyClaimedRoutes
  <2> QED
    BY <2>1, <2>2
<1> QED
  BY <1>1, <1>2

(***************************************************************************)
(* Every put there is names claimants only.                                *)
(***************************************************************************)
LEMMA WritesAreClaimed ==
  ASSUME TypeOK, OnlyClaimedRoutes, [Next]_vars,
         NEW d \in Deploys, NEW w \in writes'[d], NEW p \in Paths, w.table[p] # None
  PROVE  HeldBy(w.table[p], w.key.host, p)
<1>1. CASE w \in writes[d]
  BY <1>1 DEF OnlyClaimedRoutes
<1>2. ASSUME NEW k \in Keys, VisitPuts(d, k, w)
      PROVE  HeldBy(w.table[p], w.key.host, p)
  <2>1. d \in Acting /\ w \in Puts(d, k)
    BY <1>2 DEF VisitPuts, Acting
  <2>2. w.key = k /\ w.table = Retained(d, k)
    BY <2>1, PutsAre
  <2> QED
    BY <2>1, <2>2, PutsAreClaimed
<1>3. ASSUME NEW h \in Hosts, MergesPut(d, h, w)
      PROVE  HeldBy(w.table[p], w.key.host, p)
  <2>1. d \in Acting /\ w \in MergePuts(d, h)
    BY <1>3 DEF MergesPut, Acting
  <2>2. CASE w.key = Mapping(h) /\ w.table = Only(Root, Merged(d, h)[Root])
    <3>1. Merged(d, h)[Root] \in Owners /\ Root \in Paths
      BY DeployType, PathsAssumption DEF Table
    <3>2. p = Root /\ w.table[p] = Merged(d, h)[Root]
      BY <2>2, <3>1, TableIs
    <3> QED
      BY <2>1, <2>2, <3>1, <3>2, PutsAreClaimed, KeyForms
  <2>3. CASE w.key = List(h) /\ w.table = Merged(d, h)
    BY <2>1, <2>3, PutsAreClaimed, KeyForms
  <2>4. ASSUME NEW q \in Paths, <<h, q>> \in attached[d],
               w.key = Record(h, q), w.table = Only(q, plan[d].app)
        PROVE  HeldBy(w.table[p], w.key.host, p)
    <3>1. p = q /\ w.table[p] = plan[d].app
      BY <2>4, TableIs, DeployType
    <3> QED
      BY <2>1, <2>4, <3>1, KeyForms DEF HeldBy
  <2> QED
    BY <2>1, <2>2, <2>3, <2>4, MergePutsAre
<1> QED
  BY <1>1, <1>2, <1>3, NewWrites

(***************************************************************************)
(* Nor does any step make up a route.                                      *)
(***************************************************************************)
LEMMA StepClaimed ==
  TypeOK /\ OnlyClaimedRoutes /\ [Next]_vars => OnlyClaimedRoutes'
<1> SUFFICES ASSUME TypeOK, OnlyClaimedRoutes, [Next]_vars
             PROVE  OnlyClaimedRoutes'
  OBVIOUS
<1>1. TypeOK'
  BY StepType
<1>2. ASSUME NEW h \in Hosts, NEW a \in cached'[h] \ {None}
      PROVE  HeldBy(a, h, Root)'
  <2>1. Root \in Paths /\ a \in Apps
    BY <1>1, PathsAssumption DEF TypeOK, Owners
  <2>2. HeldBy(a, h, Root)
    <3>1. CASE a \in cached[h]
      BY <3>1 DEF OnlyClaimedRoutes
    <3>2. CASE a = kv[Mapping(h)][Root]
      BY <2>1, <3>2, NoneAssumption, KeyForms DEF OnlyClaimedRoutes
    <3>3. ASSUME NEW d \in Acting, a = Merged(d, h)[Root]
          PROVE  HeldBy(a, h, Root)
      BY <2>1, <3>3, PutsAreClaimed
    <3> QED
      BY <3>1, <3>2, <3>3, NewCached DEF RootAnswers
  <2> QED
    BY <2>1, <2>2, ClaimsStay
<1>3. ASSUME NEW k \in Keys, NEW p \in Paths, NEW a \in Apps, kv'[k][p] = a
      PROVE  HeldBy(a, k.host, p)'
  <2>1. k.host \in Hosts /\ a # None
    BY KeyForms, NoneAssumption
  <2>2. HeldBy(a, k.host, p)
    <3>1. CASE kv'[k] = kv[k]
      BY <1>3, <2>1, <3>1 DEF OnlyClaimedRoutes
    <3>2. ASSUME NEW d \in Deploys, NEW w \in writes[d], w.key = k, kv'[k] = w.table
          PROVE  HeldBy(a, k.host, p)
      BY <1>3, <2>1, <3>2 DEF OnlyClaimedRoutes
    <3> QED
      BY <3>1, <3>2, NewValues
  <2> QED
    BY <2>1, <2>2, ClaimsStay
<1>4. ASSUME NEW d \in Deploys, NEW w \in writes'[d], NEW p \in Paths,
             NEW a \in Apps, w.table[p] = a
      PROVE  HeldBy(a, w.key.host, p)'
  <2>1. w.key \in Keys /\ w.key.host \in Hosts /\ a # None
    BY <1>1, KeyForms, NoneAssumption DEF TypeOK, Write
  <2>2. HeldBy(a, w.key.host, p)
    BY <1>4, <2>1, WritesAreClaimed
  <2> QED
    BY <2>1, <2>2, ClaimsStay
<1>5. \A k \in Keys, p \in Paths : kv'[k][p] # None => HeldBy(kv[k][p], k.host, p)'
  <2>1. \A k \in Keys, p \in Paths : kv'[k][p] # None => kv'[k][p] \in Apps
    BY <1>1 DEF TypeOK, Table, Owners
  <2> QED
    BY <1>3, <2>1
<1>6. \A d \in Deploys : \A w \in writes'[d], p \in Paths :
        w.table[p] # None => HeldBy(w.table[p], w.key.host, p)'
  <2>1. \A d \in Deploys : \A w \in writes'[d], p \in Paths :
          w.table[p] # None => w.table[p] \in Apps
    BY <1>1 DEF TypeOK, Write, Table, Owners
  <2> QED
    BY <1>4, <2>1
<1> QED
  BY <1>2, <1>5, <1>6 DEF OnlyClaimedRoutes

(***************************************************************************)
(* What earlier deploys have left was claimed.                             *)
(***************************************************************************)
LEMMA InitClaimed == Init => OnlyClaimedRoutes
<1> SUFFICES ASSUME Init
             PROVE  OnlyClaimedRoutes
  OBVIOUS
<1>1. TypeOK
  BY InitType
<1>2. \A k \in Keys, p \in Paths : kv[k][p] \in {first[k.host][p], None}
  BY <1>1, StoredIs DEF Init, TypeOK
<1> QED
  BY <1>2 DEF Init, OnlyClaimedRoutes, HeldBy

(***************************************************************************)
(* Whatever a key or a cache says of a route, or a put in flight will say, *)
(* was claimed and granted.                                                *)
(***************************************************************************)
THEOREM RoutesAreClaimed == Spec => []OnlyClaimedRoutes
<1>1. Init => TypeOK /\ OnlyClaimedRoutes
  BY InitType, InitClaimed
<1>2. TypeOK /\ OnlyClaimedRoutes /\ [Next]_vars => TypeOK' /\ OnlyClaimedRoutes'
  BY StepType, StepClaimed
<1> QED
  BY <1>1, <1>2, PTL DEF Spec

-----------------------------------------------------------------------------
(* The shape of entries, the phases of a request, and who overlaps *)

(***************************************************************************)
(* Only a list has more than one path.                                     *)
(***************************************************************************)
OneEntry(k, table) ==
  k.form # "list" => \A p \in Paths \ {k.path} : table[p] = None

EntriesFit ==
  /\ \A k \in Keys : OneEntry(k, kv[k])
  /\ \A d \in Deploys : \A w \in writes[d] : OneEntry(w.key, w.table)

(***************************************************************************)
(* Every step keeps the shape of entries.                                  *)
(***************************************************************************)
LEMMA StepEntries == TypeOK /\ EntriesFit /\ [Next]_vars => EntriesFit'
<1> SUFFICES ASSUME TypeOK, EntriesFit, [Next]_vars
             PROVE  EntriesFit'
  OBVIOUS
<1>1. ASSUME NEW k \in Keys
      PROVE  OneEntry(k, kv'[k])
  BY NewValues DEF EntriesFit
<1>2. ASSUME NEW d \in Deploys, NEW w \in writes'[d]
      PROVE  OneEntry(w.key, w.table)
  <2>1. CASE w \in writes[d]
    BY <2>1 DEF EntriesFit
  <2>2. ASSUME NEW k \in Keys, VisitPuts(d, k, w)
        PROVE  OneEntry(w.key, w.table)
    <3>1. w.key = k /\ w.table = Retained(d, k)
      BY <2>2, PutsAre DEF VisitPuts
    <3> QED
      BY <3>1 DEF EntriesFit, OneEntry, Retained
  <2>3. ASSUME NEW h \in Hosts, MergesPut(d, h, w)
        PROVE  OneEntry(w.key, w.table)
    <3>1. w \in MergePuts(d, h)
      BY <2>3 DEF MergesPut
    <3>2. CASE w.key = Mapping(h) /\ w.table = Only(Root, Merged(d, h)[Root])
      <4>1. Merged(d, h)[Root] \in Owners /\ Root \in Paths
        BY DeployType, PathsAssumption DEF Table
      <4> QED
        BY <3>2, <4>1, TableIs, KeyForms DEF OneEntry
    <3>3. CASE w.key = List(h)
      BY <3>3, KeyForms DEF OneEntry
    <3>4. ASSUME NEW q \in Paths, w.key = Record(h, q), w.table = Only(q, plan[d].app)
          PROVE  OneEntry(w.key, w.table)
      BY <3>4, TableIs, KeyForms, DeployType DEF OneEntry
    <3> QED
      BY <3>1, <3>2, <3>3, <3>4, MergePutsAre
  <2> QED
    BY <2>1, <2>2, <2>3, NewWrites
<1> QED
  BY <1>1, <1>2 DEF EntriesFit

(***************************************************************************)
(* What a request has to do still, by its status and pass.                 *)
(***************************************************************************)
Asked(d) == {Record(route[1], route[2]) : route \in plan[d].routes}

PhaseFits(d) ==
  /\ attached[d] \subseteq plan[d].routes
  /\ status[d] = "new" => attached[d] = {} /\ Idle(d)
  /\ status[d] = "planning" => writes[d] = {} /\ todo[d] \subseteq Asked(d)
  /\ status[d] \in {"new", "planning"} => pass[d] = "mapping"
  /\ status[d] = "done" => pass[d] = "merge" /\ Idle(d)
  /\ pass[d] = "merge" => todo[d] \subseteq {List(h) : h \in HostsOf(d)}

PhasesFit == \A d \in Deploys : PhaseFits(d)

(***************************************************************************)
(* A step of another request leaves a request's own variables alone.       *)
(***************************************************************************)
Alone(d) == /\ status'[d] = status[d] /\ attached'[d] = attached[d]
            /\ pass'[d] = pass[d] /\ todo'[d] = todo[d] /\ writes'[d] = writes[d]
            /\ plan' = plan

\* A step of a deploy leaves the puts and phases of others alone.
LEMMA OthersAlone ==
  ASSUME TypeOK, NEW d \in Deploys, NEW e \in Deploys, e # d, Step(e)
  PROVE  Alone(d)
<1>1. CASE Begin(e)
  BY <1>1 DEF Begin, Alone, TypeOK
<1>2. ASSUME NEW route \in Routes, Claim(e, route)
      PROVE  Alone(d)
  <2>1. \/ attached' = attached
        \/ attached' = [attached EXCEPT ![e] = @ \cup {route}]
    BY <1>2, Zenon DEF Claim
  <2>2. /\ UNCHANGED <<status, plan, pass, writes>>
        /\ todo' = [todo EXCEPT ![e] = @ \ {Record(route[1], route[2])}]
    BY <1>2, Zenon DEF Claim
  <2> QED
    BY <2>1, <2>2 DEF Alone, TypeOK
<1>3. CASE Planned(e)
  BY <1>3 DEF Planned, Alone, TypeOK
<1>4. ASSUME NEW k \in Keys, Visit(e, k)
      PROVE  Alone(d)
  BY <1>4 DEF Visit, Alone, TypeOK
<1>5. CASE PassOver(e)
  BY <1>5 DEF PassOver, Alone, TypeOK
<1>6. ASSUME NEW h \in Hosts, Merge(e, h)
      PROVE  Alone(d)
  BY <1>6 DEF Merge, Alone, TypeOK
<1>7. ASSUME NEW w \in writes[e], Land(e, w)
      PROVE  Alone(d)
  BY <1>7 DEF Land, Alone, TypeOK
<1>8. CASE Done(e)
  BY <1>8 DEF Done, Alone, TypeOK
<1>9. CASE Fails(e)
  BY <1>9 DEF Fails, Alone, TypeOK
<1>10. CASE Abandon(e)
  BY <1>10 DEF Abandon, Alone, TypeOK
<1> QED
  BY <1>1, <1>2, <1>3, <1>4, <1>5, <1>6, <1>7, <1>8, <1>9, <1>10 DEF Step

\* So does a step that no deploy takes.
LEMMA RestAlone ==
  ASSUME TypeOK, [Next]_vars, NEW d \in Deploys, ~ Step(d)
  PROVE  Alone(d)
<1>1. CASE UNCHANGED vars
  BY <1>1 DEF vars, Alone
<1>2. ASSUME NEW h \in Hosts, Fill(h) \/ Expire(h)
      PROVE  Alone(d)
  BY <1>2 DEF Fill, Expire, Alone
<1>3. ASSUME NEW e \in Deploys, Step(e)
      PROVE  Alone(d)
  BY <1>3, OthersAlone
<1> QED
  BY <1>1, <1>2, <1>3, Zenon DEF Next

(***************************************************************************)
(* A request's own step keeps it within its phases.                        *)
(***************************************************************************)
LEMMA OwnPhase ==
  ASSUME TypeOK, NEW d \in Deploys, PhaseFits(d), Step(d)
  PROVE  PhaseFits(d)'
<1>1. CASE Begin(d)
  BY <1>1 DEF Begin, PhaseFits, TypeOK, Idle, Asked, HostsOf
<1>2. ASSUME NEW route \in Routes, Claim(d, route)
      PROVE  PhaseFits(d)'
  <2>1. \/ attached' = attached
        \/ attached' = [attached EXCEPT ![d] = @ \cup {route}]
    BY <1>2, Zenon DEF Claim
  <2>2. /\ status[d] = "planning" /\ Record(route[1], route[2]) \in todo[d]
        /\ UNCHANGED <<status, plan, pass, writes>>
        /\ todo' = [todo EXCEPT ![d] = @ \ {Record(route[1], route[2])}]
    BY <1>2, Zenon DEF Claim
  <2>3. PICK r \in plan[d].routes : Record(route[1], route[2]) = Record(r[1], r[2])
    BY <2>2 DEF PhaseFits, Asked
  <2>4. r = route
    <3>1. route[1] = r[1] /\ route[2] = r[2]
      BY <2>3 DEF Record
    <3> QED
      BY <3>1, DeployType DEF Routes
  <2> QED
    BY <2>1, <2>2, <2>4 DEF PhaseFits, TypeOK, Idle, Asked
<1>3. CASE Planned(d)
  BY <1>3 DEF Planned, PhaseFits, TypeOK, Idle
<1>4. ASSUME NEW k \in Keys, Visit(d, k)
      PROVE  PhaseFits(d)'
  BY <1>4 DEF Visit, PhaseFits, TypeOK
<1>5. CASE PassOver(d)
  <2>1. pass[d] \in {"mapping", "list", "record"} /\ status[d] = "replacing"
    BY <1>5 DEF PassOver, TypeOK, Forms
  <2>2. pass'[d] = After[pass[d]]
    BY <1>5 DEF PassOver, TypeOK
  <2>3. pass'[d] = "merge" => pass[d] = "record"
    BY <2>1, <2>2 DEF After
  <2>4. pass'[d] = "merge" => todo'[d] = {List(h) : h \in HostsOf(d)}
    BY <1>5, <2>3 DEF PassOver, TypeOK
  <2>5. UNCHANGED <<status, plan, attached, writes>>
    BY <1>5 DEF PassOver
  <2> QED
    BY <2>1, <2>4, <2>5 DEF PhaseFits, HostsOf
<1>6. ASSUME NEW h \in Hosts, Merge(d, h)
      PROVE  PhaseFits(d)'
  BY <1>6 DEF Merge, PhaseFits, TypeOK, HostsOf
<1>7. ASSUME NEW w \in writes[d], Land(d, w)
      PROVE  PhaseFits(d)'
  BY <1>7 DEF Land, PhaseFits, TypeOK, Idle, HostsOf, Asked
<1>8. CASE Done(d)
  BY <1>8 DEF Done, PhaseFits, TypeOK, Idle, HostsOf
<1>9. CASE Fails(d)
  BY <1>9 DEF Fails, PhaseFits, TypeOK, Running, HostsOf
<1>10. CASE Abandon(d)
  BY <1>10 DEF Abandon, PhaseFits, TypeOK, HostsOf
<1> QED
  BY <1>1, <1>2, <1>3, <1>4, <1>5, <1>6, <1>7, <1>8, <1>9, <1>10 DEF Step

\* Every step keeps the puts of a deploy within its phase.
LEMMA StepPhases == TypeOK /\ PhasesFit /\ [Next]_vars => PhasesFit'
<1> SUFFICES ASSUME TypeOK, PhasesFit, [Next]_vars, NEW d \in Deploys
             PROVE  PhaseFits(d)'
  BY DEF PhasesFit
<1>1. PhaseFits(d)
  BY DEF PhasesFit
<1>2. CASE Step(d)
  BY <1>1, <1>2, OwnPhase
<1>3. CASE ~ Step(d)
  BY <1>1, <1>3, RestAlone DEF Alone, PhaseFits, Idle, Asked, HostsOf
<1> QED
  BY <1>2, <1>3

(***************************************************************************)
(* A request becomes busy only as it begins, when it meets all that are.   *)
(***************************************************************************)
BusyHaveMet ==
  \A d, e \in Deploys : d # e /\ Busy(d) /\ Busy(e) => {d, e} \in met

\* A deploy becomes busy only by beginning.
LEMMA BusyFrom ==
  ASSUME TypeOK, PhasesFit, [Next]_vars, NEW d \in Deploys, Busy(d)', ~ Busy(d)
  PROVE  Begin(d)
<1>1. Step(d)
  BY RestAlone DEF Alone, Busy, Running, Idle
<1>2. ~ Running(d) /\ todo[d] = {} /\ writes[d] = {}
  BY DEF Busy, Idle
<1>3. CASE Done(d) \/ Fails(d) \/ Planned(d) \/ PassOver(d) \/ Abandon(d)
  BY <1>2, <1>3 DEF Done, Fails, Planned, PassOver, Abandon, Running, Idle
<1>4. ASSUME NEW route \in Routes, Claim(d, route)
      PROVE  FALSE
  BY <1>2, <1>4 DEF Claim
<1>5. ASSUME NEW k \in Keys, Visit(d, k)
      PROVE  FALSE
  BY <1>2, <1>5 DEF Visit
<1>6. ASSUME NEW h \in Hosts, Merge(d, h)
      PROVE  FALSE
  BY <1>2, <1>6 DEF Merge
<1>7. ASSUME NEW w \in writes[d], Land(d, w)
      PROVE  FALSE
  BY <1>2, <1>7
<1> QED
  BY <1>1, <1>3, <1>4, <1>5, <1>6, <1>7 DEF Step

\* Deploys that are busy at the same time have met.
LEMMA StepMet == TypeOK /\ PhasesFit /\ BusyHaveMet /\ [Next]_vars => BusyHaveMet'
<1> SUFFICES ASSUME TypeOK, PhasesFit, BusyHaveMet, [Next]_vars,
                    NEW d \in Deploys, NEW e \in Deploys, d # e, Busy(d)', Busy(e)'
             PROVE  {d, e} \in met'
  BY DEF BusyHaveMet
<1>1. CASE Busy(d) /\ Busy(e)
  BY <1>1, Moves DEF BusyHaveMet
<1>2. ASSUME NEW x \in Deploys, NEW y \in Deploys, x # y, Busy(x)', Busy(y)', ~ Busy(x)
      PROVE  {x, y} \in met'
  <2>1. Begin(x)
    BY <1>2, BusyFrom
  <2>2. Alone(y)
    BY <1>2, <2>1, OthersAlone DEF Step
  <2>3. Busy(y)
    BY <1>2, <2>2 DEF Alone, Busy, Running, Idle
  <2> QED
    BY <2>1, <2>3 DEF Begin
<1>3. CASE ~ Busy(d)
  BY <1>2, <1>3
<1>4. CASE ~ Busy(e)
  <2>1. {e, d} \in met'
    BY <1>2, <1>4
  <2>2. {e, d} = {d, e}
    OBVIOUS
  <2> QED
    BY <2>1, <2>2
<1> QED
  BY <1>1, <1>3, <1>4

(***************************************************************************)
(* At first no request has begun.                                          *)
(***************************************************************************)
LEMMA InitPhases == Init => EntriesFit /\ PhasesFit /\ BusyHaveMet
<1> SUFFICES ASSUME Init
             PROVE  EntriesFit /\ PhasesFit /\ BusyHaveMet
  OBVIOUS
<1>1. first \in [Hosts -> Table]
  BY RegistriesAssumption DEF Init
<1>2. EntriesFit
  BY <1>1, StoredIs DEF Init, EntriesFit, OneEntry
<1>3. PhasesFit
  BY DEF Init, PhasesFit, PhaseFits, Idle
<1>4. BusyHaveMet
  BY DEF Init, BusyHaveMet, Busy, Running, Idle
<1> QED
  BY <1>2, <1>3, <1>4

-----------------------------------------------------------------------------
(* An uncontested route is served *)

(***************************************************************************)
(* A put that is not in flight any more has taken effect, or the request   *)
(* has failed.                                                             *)
(***************************************************************************)
LEMMA GoneWrites ==
  ASSUME TypeOK, [Next]_vars, NEW d \in Deploys, NEW w \in writes[d], w \notin writes'[d]
  PROVE  kv'[w.key] = w.table \/ status'[d] = "failed"
<1> DEFINE Goal == kv'[w.key] = w.table \/ status'[d] = "failed"
<1>1. ASSUME NEW e \in Deploys, NEW v \in writes[e], Land(e, v)
      PROVE  Goal
  <2>1. w.key \in Keys
    BY DEF TypeOK, Write
  <2>2. e = d /\ v = w
    BY <1>1 DEF Land, TypeOK
  <2> QED
    BY <1>1, <2>1, <2>2 DEF Land, TypeOK
<1>2. ASSUME NEW e \in Deploys, Abandon(e)
      PROVE  Goal
  BY <1>2 DEF Abandon, TypeOK
<1>3. ASSUME NEW e \in Deploys, NEW k \in Keys, Visit(e, k)
      PROVE  Goal
  BY <1>3 DEF Visit, TypeOK
<1>4. ASSUME NEW e \in Deploys, NEW h \in Hosts, Merge(e, h)
      PROVE  Goal
  BY <1>4 DEF Merge, TypeOK
<1>5. \/ UNCHANGED writes
      \/ \E e \in Deploys : \E v \in writes[e] : Land(e, v)
      \/ \E e \in Deploys : Abandon(e)
      \/ \E e \in Deploys, k \in Keys : Visit(e, k)
      \/ \E e \in Deploys, h \in Hosts : Merge(e, h)
  BY Zenon DEF Next, Step, vars, Begin, Claim, Planned, PassOver, Done, Fails,
             Fill, Expire
<1>6. ASSUME UNCHANGED writes
      PROVE  Goal
  BY <1>6
<1> HIDE DEF Goal
<1>7. Goal
  BY <1>1, <1>2, <1>3, <1>4, <1>5, <1>6, Zenon
<1> QED
  BY <1>7 DEF Goal

(***************************************************************************)
(* A request has merged the routes of a hostname, if it has any there.     *)
(***************************************************************************)
Finished(d, h) == /\ status[d] \in {"replacing", "done"} /\ pass[d] = "merge"
                  /\ List(h) \notin todo[d]

\* A deploy has finished a hostname by merging it, and stays so.
LEMMA FinishedFrom ==
  ASSUME TypeOK, PhasesFit, [Next]_vars, NEW d \in Deploys, NEW h \in Hosts,
         h \in HostsOf(d)', Finished(d, h)'
  PROVE  \/ Finished(d, h)
         \/ /\ MergePuts(d, h) \subseteq writes'[d] /\ UNCHANGED <<kv, status>>
            /\ status[d] = "replacing" /\ pass[d] = "merge"
            /\ List(h) \in todo[d]
<1>1. CASE ~ Step(d)
  BY <1>1, RestAlone DEF Alone, Finished
<1>2. PhaseFits(d)
  BY DEF PhasesFit
<1>3. CASE Begin(d)
  BY <1>3 DEF Begin, Finished, TypeOK
<1>4. ASSUME NEW route \in Routes, Claim(d, route)
      PROVE  FALSE
  BY <1>2, <1>4 DEF Claim, Finished, PhaseFits
<1>5. CASE Planned(d)
  BY <1>2, <1>5 DEF Planned, Finished, PhaseFits
<1>6. ASSUME NEW k \in Keys, Visit(d, k)
      PROVE  FALSE
  BY <1>6 DEF Visit, Finished
<1>7. CASE PassOver(d)
  <2>1. pass[d] \in {"mapping", "list", "record"} /\ pass'[d] = After[pass[d]]
    BY <1>7 DEF PassOver, TypeOK, Forms
  <2>2. pass[d] = "record"
    BY <2>1 DEF After, Finished
  <2>3. todo'[d] = {List(g) : g \in HostsOf(d)} /\ HostsOf(d)' = HostsOf(d)
    BY <1>7, <2>2 DEF PassOver, TypeOK, HostsOf
  <2> QED
    BY <2>3 DEF Finished
<1>8. ASSUME NEW g \in Hosts, Merge(d, g), ~ Finished(d, h)
      PROVE  /\ MergePuts(d, h) \subseteq writes'[d] /\ UNCHANGED <<kv, status>>
             /\ status[d] = "replacing" /\ pass[d] = "merge" /\ List(h) \in todo[d]
  <2>1. /\ todo'[d] = todo[d] \ {List(g)} /\ UNCHANGED <<kv, status, pass>>
        /\ writes'[d] = writes[d] \cup MergePuts(d, g)
        /\ pass[d] = "merge" /\ status[d] \in {"replacing", "failed"}
    BY <1>8 DEF Merge, TypeOK
  <2>2. List(h) = List(g) /\ List(h) \in todo[d] /\ status[d] = "replacing"
    BY <1>8, <2>1 DEF Finished
  <2>3. h = g
    BY <2>2, KeyForms
  <2> QED
    BY <2>1, <2>2, <2>3
<1>9. ASSUME NEW w \in writes[d], Land(d, w)
      PROVE  Finished(d, h)
  BY <1>9 DEF Land, Finished
<1>10. CASE Done(d)
  BY <1>10 DEF Done, Finished, Idle, TypeOK
<1>11. CASE Fails(d)
  BY <1>11 DEF Fails, Finished, TypeOK
<1>12. CASE Abandon(d)
  BY <1>12 DEF Abandon, Finished, TypeOK
<1> QED
  BY <1>1, <1>3, <1>4, <1>5, <1>6, <1>7, <1>8, <1>9, <1>10, <1>11, <1>12 DEF Step

(***************************************************************************)
(* The record of an uncontested route: whoever puts it names its owner, it *)
(* is there from the start when the route is, and a request that has       *)
(* merged the hostname has put it or is putting it.                        *)
(***************************************************************************)
RecordHeld(a, h, p) ==
  /\ \A d \in Deploys : \A w \in writes[d] : w.key = Record(h, p) => w.table[p] = a
  /\ first[h][p] = a => kv[Record(h, p)][p] = a
  /\ \A d \in Deploys :
       plan[d].app = a /\ <<h, p>> \in attached[d] /\ Finished(d, h) =>
         \/ kv[Record(h, p)][p] = a
         \/ \E w \in writes[d] : w.key = Record(h, p)

RecordsHeld ==
  \A a \in Apps, h \in Hosts, p \in Paths : Uncontested(a, h, p) => RecordHeld(a, h, p)

(***************************************************************************)
(* No request removes or takes over the record of an uncontested route.    *)
(***************************************************************************)
LEMMA RecordPuts ==
  ASSUME TypeOK, OnlyClaimedRoutes, EntriesFit, [Next]_vars,
         NEW a \in Apps, NEW h \in Hosts, NEW p \in Paths, Uncontested(a, h, p),
         NEW d \in Deploys, NEW w \in writes'[d], w \notin writes[d], w.key = Record(h, p)
  PROVE  w.table[p] = a
<1>1. ASSUME NEW k \in Keys, VisitPuts(d, k, w)
      PROVE  FALSE
  <2>1. k = Record(h, p) /\ Retained(d, k) # kv[k] /\ d \in Acting
    BY <1>1, PutsAre, KeyForms DEF VisitPuts, Acting
  <2>2. PICK q \in Paths : Retained(d, k)[q] # kv[k][q]
    BY <2>1, TableIs, DeployType
  <2>3. kv[k][q] = plan[d].app /\ <<k.host, q>> \notin attached[d]
    BY <2>2 DEF Retained
  <2>4. q = p
    <3>1. kv[k][q] # None /\ k.form = "record" /\ k.path = p
      BY <2>1, <2>3, DeployType, KeyForms
    <3> QED
      BY <3>1 DEF EntriesFit, OneEntry
  <2>5. k.host = h /\ HeldBy(plan[d].app, h, p) /\ plan[d].app \in Apps
    BY <2>1, <2>3, <2>4, DeployType, KeyForms DEF OnlyClaimedRoutes
  <2> QED
    BY <2>1, <2>3, <2>4, <2>5 DEF Uncontested
<1>2. ASSUME NEW g \in Hosts, MergesPut(d, g, w)
      PROVE  w.table[p] = a
  <2>1. d \in Acting /\ w \in MergePuts(d, g)
    BY <1>2 DEF MergesPut, Acting
  <2>2. PICK q \in Paths : /\ <<g, q>> \in attached[d]
                           /\ w.key = Record(g, q) /\ w.table = Only(q, plan[d].app)
    <3>1. w.key # Mapping(g) /\ w.key # List(g)
      BY KeyForms
    <3> QED
      BY <2>1, <3>1, MergePutsAre
  <2>3. g = h /\ q = p
    <3>1. Record(g, q).host = g /\ Record(g, q).path = q
      BY KeyForms
    <3>2. Record(h, p).host = h /\ Record(h, p).path = p
      BY KeyForms
    <3> QED
      BY <2>2, <3>1, <3>2
  <2>4. HeldBy(plan[d].app, h, p) /\ plan[d].app \in Apps
    BY <2>1, <2>2, <2>3, DeployType DEF HeldBy
  <2>5. plan[d].app = a
    BY <2>4 DEF Uncontested
  <2> QED
    BY <2>2, <2>3, <2>5, TableIs, DeployType
<1> QED
  BY <1>1, <1>2, NewWrites

\* Every step keeps the records of uncontested routes.
LEMMA StepRecords ==
  TypeOK /\ OnlyClaimedRoutes /\ EntriesFit /\ PhasesFit /\ RecordsHeld /\ [Next]_vars
    => RecordsHeld'
<1> SUFFICES ASSUME TypeOK, OnlyClaimedRoutes, EntriesFit, PhasesFit, RecordsHeld,
                    [Next]_vars, NEW a \in Apps, NEW h \in Hosts, NEW p \in Paths,
                    Uncontested(a, h, p)'
             PROVE  RecordHeld(a, h, p)'
  BY DEF RecordsHeld
<1>1. Uncontested(a, h, p)
  BY ClaimsStay
<1>2. RecordHeld(a, h, p) /\ Record(h, p) \in Keys
  BY <1>1, KeyForms DEF RecordsHeld
<1>3. ASSUME NEW d \in Deploys, NEW w \in writes'[d], w.key = Record(h, p)
      PROVE  w.table[p] = a
  BY <1>1, <1>2, <1>3, RecordPuts DEF RecordHeld
<1>4. kv[Record(h, p)][p] = a => kv'[Record(h, p)][p] = a
  BY <1>2, NewValues DEF RecordHeld
<1>5. first'[h][p] = a => kv'[Record(h, p)][p] = a
  BY <1>2, <1>4, Moves DEF RecordHeld
<1>6. ASSUME NEW d \in Deploys, plan'[d].app = a, <<h, p>> \in attached'[d], Finished(d, h)'
      PROVE  \/ kv'[Record(h, p)][p] = a
             \/ \E w \in writes'[d] : w.key = Record(h, p)
  <2>1. h \in HostsOf(d)'
    BY <1>6 DEF HostsOf
  <2>2. CASE Finished(d, h)
    <3>1. d \in Acting
      BY <2>2 DEF Finished, Acting
    <3>2. plan[d].app = a /\ <<h, p>> \in attached[d]
      BY <1>6, <3>1, Moves
    <3>3. CASE kv[Record(h, p)][p] = a
      BY <1>4, <3>3
    <3>4. ASSUME NEW w \in writes[d], w.key = Record(h, p)
          PROVE  \/ kv'[Record(h, p)][p] = a
                 \/ \E v \in writes'[d] : v.key = Record(h, p)
      <4>1. status'[d] # "failed" /\ w.table[p] = a
        BY <1>2, <1>6, <3>4 DEF Finished, RecordHeld
      <4> QED
        BY <3>4, <4>1, GoneWrites
    <3> QED
      BY <1>2, <2>2, <3>2, <3>3, <3>4 DEF RecordHeld
  <2>3. ASSUME MergePuts(d, h) \subseteq writes'[d], UNCHANGED <<kv, status>>,
               status[d] = "replacing"
        PROVE  \E w \in writes'[d] : w.key = Record(h, p)
    <3>1. d \in Acting
      BY <2>3 DEF Acting
    <3>2. <<h, p>> \in attached[d]
      BY <1>6, <3>1, Moves
    <3> QED
      BY <2>3, <3>2, MergePutsAre
  <2> QED
    BY <1>6, <2>1, <2>2, <2>3, FinishedFrom
<1> QED
  BY <1>3, <1>5, <1>6 DEF RecordHeld

(***************************************************************************)
(* The mappings, lists and records of the initial owners.                  *)
(***************************************************************************)
LEMMA InitStored ==
  ASSUME Init
  PROVE  /\ \A h \in Hosts, p \in Paths : kv[Record(h, p)][p] = first[h][p]
         /\ \A h \in Hosts, p \in Paths : kv[List(h)][p] = first[h][p]
         /\ \A h \in Hosts : kv[Mapping(h)][Root] = first[h][Root]
<1>1. first \in [Hosts -> Table] /\ kv = Stored(first)
  BY RegistriesAssumption DEF Init
<1> QED
  BY <1>1, StoredIs, KeyForms, PathsAssumption

\* At first they are stored.
LEMMA InitRecords == Init => RecordsHeld
<1> SUFFICES ASSUME Init
             PROVE  RecordsHeld
  OBVIOUS
<1> QED
  BY InitStored DEF Init, RecordsHeld, RecordHeld, Finished

ServedInv ==
  TypeOK /\ OnlyClaimedRoutes /\ EntriesFit /\ PhasesFit /\ RecordsHeld

\* The parts are an invariant.
LEMMA ServedInvariant == Spec => []ServedInv
<1>1. Init => ServedInv
  BY InitType, InitClaimed, InitPhases, InitRecords DEF ServedInv
<1>2. ServedInv /\ [Next]_vars => ServedInv'
  BY StepType, StepClaimed, StepEntries, StepPhases, StepRecords, Zenon
     DEF ServedInv
<1> QED
  BY <1>1, <1>2, PTL DEF Spec

(***************************************************************************)
(* Once a route is deployed that one app alone claims, it is answered by   *)
(* that app at every moment.                                               *)
(***************************************************************************)
THEOREM UncontestedStaysServed == Spec => []UncontestedRouteIsServed
<1>1. ServedInv => UncontestedRouteIsServed
  <2> SUFFICES ASSUME ServedInv, NEW a \in Apps, NEW h \in Hosts, NEW p \in Paths,
                      \/ first[h][p] = a
                      \/ \E d \in Deploys : /\ status[d] = "done" /\ plan[d].app = a
                                            /\ <<h, p>> \in attached[d],
                      Uncontested(a, h, p), NEW root \in RootAnswers(h)
               PROVE  Mounted(h, p, root) = a
    BY DEF UncontestedRouteIsServed
  <2>1. RecordHeld(a, h, p) /\ TypeOK /\ a # None
    BY NoneAssumption DEF ServedInv, RecordsHeld
  <2>2. kv[Record(h, p)][p] = a
    <3>1. CASE first[h][p] = a
      BY <2>1, <3>1 DEF RecordHeld
    <3>2. ASSUME NEW d \in Deploys, status[d] = "done", plan[d].app = a,
                 <<h, p>> \in attached[d]
          PROVE  kv[Record(h, p)][p] = a
      <4>1. pass[d] = "merge" /\ todo[d] = {} /\ writes[d] = {}
        BY <3>2 DEF ServedInv, PhasesFit, PhaseFits, Idle
      <4> QED
        BY <2>1, <3>2, <4>1 DEF RecordHeld, Finished
    <3> QED
      BY <3>1, <3>2
  <2>3. ASSUME p = Root, root # None
        PROVE  root = a
    <3>1. root \in Apps
      BY <2>1, <2>3, RootAnswersType DEF Owners
    <3>2. HeldBy(root, h, p)
      BY <2>3, KeyForms, PathsAssumption DEF RootAnswers, ServedInv, OnlyClaimedRoutes
    <3> QED
      BY <3>1, <3>2 DEF Uncontested
  <2> QED
    BY <2>1, <2>2, <2>3 DEF Mounted
<1> QED
  BY <1>1, ServedInvariant, PTL

-----------------------------------------------------------------------------
(* The longest mount *)

(***************************************************************************)
(* A set of naturals that is bounded has a maximum.                        *)
(***************************************************************************)
LEMMA MaximumOf ==
  ASSUME NEW S, S # {}, S \subseteq Nat, NEW n \in Nat, \A m \in S : m <= n
  PROVE  \E m \in S : \A k \in S : k <= m
<1> DEFINE R == OpToRel(<, Nat)
           Gaps == {n - m : m \in S}
<1>1. Gaps \subseteq Nat /\ Gaps # {}
  <2>1. PICK m \in S : TRUE
    OBVIOUS
  <2>2. n - m \in Gaps
    BY <2>1
  <2>3. \A k \in S : n - k \in Nat
    OBVIOUS
  <2> QED
    BY <2>2, <2>3
<1>2. IsWellFoundedOn(R, Nat)
  BY NatLessThanWellFounded
<1>3. \A x, y \in Nat : x < y => <<x, y>> \in R
  BY DEF OpToRel
<1> HIDE DEF R
<1>4. PICK x \in Gaps : \A y \in Gaps : <<y, x>> \notin R
  BY <1>1, <1>2, WFMin, Zenon
<1>5. PICK m \in S : x = n - m
  OBVIOUS
<1>6. ASSUME NEW k \in S
      PROVE  k <= m
  <2>1. n - k \in Gaps /\ n - k \in Nat /\ n - m \in Nat
    OBVIOUS
  <2>2. ~ (n - k < n - m)
    BY <1>3, <1>4, <1>5, <2>1
  <2> QED
    BY <2>2
<1> QED
  BY <1>6

(***************************************************************************)
(* What is loaded for a path is mounted at one of its prefixes.            *)
(***************************************************************************)
LEMMA LoadedIs ==
  ASSUME NEW h \in Hosts, NEW path \in Paths, NEW root
  PROVE  \/ Loaded(h, path, root) = None
         \/ \E p \in Paths : /\ IsPrefix(p, path) /\ Mounted(h, p, root) # None
                             /\ Loaded(h, path, root) = Mounted(h, p, root)
<1> DEFINE mounts == {p \in Paths : IsPrefix(p, path) /\ Mounted(h, p, root) # None}
           longest == CHOOSE p \in mounts : \A q \in mounts : Len(q) <= Len(p)
<1>1. CASE mounts = {}
  BY <1>1 DEF Loaded
<1>2. CASE mounts # {}
  <2>1. \A p \in mounts : Len(p) \in Nat /\ Len(p) <= Len(path)
    BY PathsAssumption DEF IsPrefix
  <2>2. PICK m \in {Len(p) : p \in mounts} : \A k \in {Len(p) : p \in mounts} : k <= m
    <3> DEFINE S == {Len(p) : p \in mounts}
    <3>1. S # {} /\ S \subseteq Nat /\ (\A k \in S : k <= Len(path)) /\ Len(path) \in Nat
      BY <1>2, <2>1, PathsAssumption
    <3> HIDE DEF S
    <3>2. \E m \in S : \A k \in S : k <= m
      BY <3>1, MaximumOf
    <3> QED
      BY <3>2 DEF S
  <2>3. longest \in mounts
    <3>1. PICK p \in mounts : m = Len(p)
      BY <2>2
    <3>2. \A q \in mounts : Len(q) <= Len(p)
      BY <2>2, <3>1
    <3> HIDE DEF mounts
    <3> QED
      BY <3>2
  <2>4. Loaded(h, path, root) = Mounted(h, longest, root)
    BY <1>2, Zenon DEF Loaded
  <2> HIDE DEF longest
  <2> QED
    BY <2>3, <2>4
<1> QED
  BY <1>1, <1>2

(***************************************************************************)
(* Nothing but the root is a prefix of the root.                           *)
(***************************************************************************)
LEMMA LoadedAtRoot ==
  ASSUME NEW h \in Hosts, NEW root
  PROVE  Loaded(h, Root, root) = Mounted(h, Root, root)
<1>1. Root \in Paths /\ IsPrefix(Root, Root)
  BY PathsAssumption DEF IsPrefix, Root
<1>2. \A p \in Paths : IsPrefix(p, Root) => p = Root
  BY PathsAssumption DEF IsPrefix, Root
<1>3. CASE Loaded(h, Root, root) = None
  <2> DEFINE mounts == {p \in Paths : IsPrefix(p, Root) /\ Mounted(h, p, root) # None}
  <2>1. CASE Mounted(h, Root, root) = None
    BY <1>3, <2>1
  <2>2. CASE Mounted(h, Root, root) # None
    <3>1. mounts = {Root}
      BY <1>1, <1>2, <2>2
    <3>2. (CHOOSE p \in mounts : \A q \in mounts : Len(q) <= Len(p)) = Root
      <4>1. \A p \in {Root} : p = Root /\ \A q \in {Root} : Len(q) <= Len(p)
        BY DEF Root
      <4> QED
        BY <3>1, <4>1
    <3>3. Loaded(h, Root, root) = Mounted(h, Root, root)
      BY <3>1, <3>2, Zenon DEF Loaded
    <3> QED
      BY <3>3
  <2> QED
    BY <2>1, <2>2
<1> QED
  BY <1>2, <1>3, LoadedIs, <1>1

-----------------------------------------------------------------------------
(* A hostname stays reserved *)

(***************************************************************************)
(* The list of a hostname that one app alone has, and moves about, is there*)
(* and is not put empty or deleted by anyone.                              *)
(***************************************************************************)
Reserved(a, h) ==
  /\ \E p \in Paths : first[h][p] = a
  /\ \A b \in Apps \ {a}, p \in Paths : ~ HeldBy(b, h, p)
  /\ \A d \in Acting : plan[d].app = a => h \in HostsOf(d)

ListHeld(h) ==
  /\ kv[List(h)] # Empty
  /\ \A d \in Deploys : \A w \in writes[d] : w.key = List(h) => w.table # Empty

ListsHeld == \A a \in Apps, h \in Hosts : Reserved(a, h) => ListHeld(h)

\* A hostname that is reserved was so before.
LEMMA ReservedBefore ==
  ASSUME TypeOK, [Next]_vars, NEW a \in Apps, NEW h \in Hosts, Reserved(a, h)'
  PROVE  Reserved(a, h)
<1>1. \A b \in Apps, p \in Paths : HeldBy(b, h, p) => HeldBy(b, h, p)'
  BY ClaimsStay
<1>2. \A d \in Acting : HostsOf(d)' = HostsOf(d)
  BY Moves DEF HostsOf
<1> QED
  BY <1>1, <1>2, Moves DEF Reserved

(***************************************************************************)
(* No request deletes the list of a reserved hostname: what it removes it  *)
(* puts back with the routes that it attached.                             *)
(***************************************************************************)
LEMMA ListPuts ==
  ASSUME TypeOK, OnlyClaimedRoutes, PhasesFit, [Next]_vars,
         NEW a \in Apps, NEW h \in Hosts, Reserved(a, h),
         NEW d \in Deploys, NEW w \in writes'[d], w \notin writes[d], w.key = List(h)
  PROVE  w.table # Empty
<1>1. ASSUME NEW k \in Keys, VisitPuts(d, k, w)
      PROVE  w.table # Empty
  <2>1. /\ k = List(h) /\ w.table = Retained(d, k) /\ d \in Acting /\ kv[k] # Empty
        /\ Retained(d, k) # Empty \/ k.host \notin HostsOf(d)
    BY <1>1, PutsAre, KeyForms DEF VisitPuts, Acting
  <2>2. CASE h \notin HostsOf(d)
    <3>1. PICK p \in Paths : kv[k][p] # None
      BY <2>1, TableIs, DeployType
    <3>2. kv[k][p] \in Apps /\ HeldBy(kv[k][p], h, p)
      BY <2>1, <3>1, KeyForms DEF OnlyClaimedRoutes, TypeOK, Table, Owners
    <3>3. kv[k][p] = a /\ plan[d].app # a
      BY <2>1, <2>2, <3>2 DEF Reserved
    <3>4. Retained(d, k)[p] = kv[k][p]
      BY <3>3 DEF Retained
    <3> QED
      BY <2>1, <3>1, <3>4, TableIs
  <2> QED
    BY <2>1, <2>2, KeyForms
<1>2. ASSUME NEW g \in Hosts, MergesPut(d, g, w)
      PROVE  w.table # Empty
  <2>1. w \in MergePuts(d, g) /\ List(g) \in todo[d] /\ pass[d] = "merge"
    BY <1>2 DEF MergesPut
  <2>2. w.key = List(g) /\ w.table = Merged(d, g)
    <3>1. /\ Mapping(g).form = "mapping" /\ List(h).form = "list"
          /\ \A p \in Paths : Record(g, p).form = "record"
      BY KeyForms
    <3>2. w.key # Mapping(g) /\ \A p \in Paths : w.key # Record(g, p)
      BY <3>1
    <3> QED
      BY <2>1, <3>2, MergePutsAre
  <2>3. PICK route \in attached[d] : List(g) = List(route[1])
    BY <2>1 DEF PhasesFit, PhaseFits, HostsOf
  <2>4. route[1] \in Hosts /\ route[2] \in Paths /\ route = <<route[1], route[2]>>
    BY DEF TypeOK, Routes
  <2>5. g = route[1]
    BY <2>3, <2>4, KeyForms
  <2>6. Merged(d, g)[route[2]] = plan[d].app
    BY <2>4, <2>5 DEF Merged
  <2> QED
    BY <2>2, <2>4, <2>6, TableIs, DeployType
<1> QED
  BY <1>1, <1>2, NewWrites

\* Every step keeps the lists of reserved hostnames.
LEMMA StepLists ==
  TypeOK /\ OnlyClaimedRoutes /\ PhasesFit /\ ListsHeld /\ [Next]_vars => ListsHeld'
<1> SUFFICES ASSUME TypeOK, OnlyClaimedRoutes, PhasesFit, ListsHeld, [Next]_vars,
                    NEW a \in Apps, NEW h \in Hosts, Reserved(a, h)'
             PROVE  ListHeld(h)'
  BY DEF ListsHeld
<1>1. Reserved(a, h) /\ ListHeld(h)
  BY ReservedBefore DEF ListsHeld
<1>2. kv'[List(h)] # Empty
  BY <1>1, NewValues, KeyForms DEF ListHeld
<1>3. ASSUME NEW d \in Deploys, NEW w \in writes'[d], w.key = List(h)
      PROVE  w.table # Empty
  BY <1>1, <1>3, ListPuts DEF ListHeld
<1> QED
  BY <1>2, <1>3 DEF ListHeld

\* At first they are stored.
LEMMA InitLists == Init => ListsHeld
<1> SUFFICES ASSUME Init, NEW a \in Apps, NEW h \in Hosts, Reserved(a, h)
             PROVE  ListHeld(h)
  BY DEF ListsHeld
<1>1. PICK p \in Paths : first[h][p] = a
  BY DEF Reserved
<1>2. kv[List(h)][p] # None
  BY <1>1, InitStored, NoneAssumption
<1>3. kv[List(h)] # Empty
  BY <1>2, TableIs
<1> QED
  BY <1>3 DEF Init, ListHeld

ReservedInv == TypeOK /\ OnlyClaimedRoutes /\ PhasesFit /\ ListsHeld

(***************************************************************************)
(* While the one app on a hostname moves its routes about, no request to   *)
(* it reaches the app of the wildcard.                                     *)
(***************************************************************************)
THEOREM HostsStayReserved == Spec => []HostStaysReserved
<1>1. Init => ReservedInv
  BY InitType, InitClaimed, InitPhases, InitLists DEF ReservedInv
<1>2. ReservedInv /\ [Next]_vars => ReservedInv'
  BY StepType, StepClaimed, StepPhases, StepLists, Zenon DEF ReservedInv
<1>3. ReservedInv => HostStaysReserved
  <2> SUFFICES ASSUME ReservedInv, NEW a \in Apps, NEW h \in Hosts \ Wildcards,
                      Reserved(a, h),
                      NEW path \in Paths, NEW root \in RootAnswers(h),
                      NEW wildroot \in RootAnswers(WildcardOf[h])
               PROVE  Resolved(h, path, root, wildroot) \in {a, None}
    BY DEF HostStaysReserved, Reserved
  <2>1. Resolved(h, path, root, wildroot) = Loaded(h, path, root)
    BY DEF Resolved, ReservedInv, ListsHeld, ListHeld
  <2>2. ASSUME NEW p \in Paths, Mounted(h, p, root) # None
        PROVE  Mounted(h, p, root) = a
    <3> DEFINE b == Mounted(h, p, root)
    <3>1. \/ b = root /\ p = Root
          \/ b = kv[Record(h, p)][p]
          \/ b = kv[List(h)][p]
      BY DEF Mounted
    <3>2. b \in Apps
      BY <2>2, <3>1, RootAnswersType, KeyForms DEF ReservedInv, TypeOK, Table, Owners
    <3>3. HeldBy(b, h, p)
      <4>1. CASE b = root /\ p = Root
        BY <2>2, <4>1, KeyForms, PathsAssumption
           DEF RootAnswers, ReservedInv, OnlyClaimedRoutes
      <4>2. CASE b = kv[Record(h, p)][p] \/ b = kv[List(h)][p]
        BY <2>2, <4>2, KeyForms DEF ReservedInv, OnlyClaimedRoutes
      <4> QED
        BY <3>1, <4>1, <4>2
    <3> QED
      BY <3>2, <3>3 DEF Reserved
  <2> QED
    BY <2>1, <2>2, LoadedIs
<1> QED
  BY <1>1, <1>2, <1>3, PTL DEF Spec

-----------------------------------------------------------------------------
(* A wildcard is not replaced *)

(***************************************************************************)
(* The root mapping of a wildcard that no deploy may have released: every  *)
(* request puts it for its own app; one that has merged it, and met no     *)
(* other app's that got it too, finds it there or is putting it; and what  *)
(* such a request has not met had ended before it, or did not get it.      *)
(***************************************************************************)
Got(d, h) == <<h, Root>> \in attached[d]

Rivals(d, e, h) == Got(d, h) /\ Got(e, h) /\ plan[d].app # plan[e].app

Contested(d, h) == \E y \in Acting : Rivals(d, y, h) /\ {d, y} \in met

Unreleased(h) == ~ misled /\ \A x \in Acting : Got(x, h)

PutForItself(h) ==
  \A d \in Deploys : \A w \in writes[d] : w.key = Mapping(h) => w.table[Root] = plan[d].app

WonStays(h) ==
  \A d \in Deploys : Finished(d, h) /\ Got(d, h) /\ ~ Contested(d, h) =>
    \/ kv[Mapping(h)][Root] = plan[d].app
    \/ \E w \in writes[d] : w.key = Mapping(h)

RivalsHaveEnded(h) ==
  \A d, y \in Deploys :
    /\ status[d] = "done" /\ ~ Contested(d, h)
    /\ Rivals(d, y, h) /\ {d, y} \notin met
    => status[y] \in {"done", "failed"} /\ Idle(y)

WildcardHeld(h) == PutForItself(h) /\ WonStays(h) /\ RivalsHaveEnded(h)

WildcardsHeld == \A h \in Wildcards : Unreleased(h) => WildcardHeld(h)

\* A contest that was met is not forgotten.
LEMMA ContestStays ==
  ASSUME TypeOK, [Next]_vars, NEW h \in Hosts
  PROVE  /\ Unreleased(h)' => Unreleased(h)
         /\ \A d \in Acting : Contested(d, h) => Contested(d, h)'
<1>1. Unreleased(h)' => Unreleased(h)
  BY Moves DEF Unreleased, Got
<1>2. \A d \in Acting : Contested(d, h) => Contested(d, h)'
  BY Moves DEF Contested, Rivals, Got, Acting
<1> QED
  BY <1>1, <1>2

(***************************************************************************)
(* Only requests that act put anything.                                    *)
(***************************************************************************)
LEMMA WritersAct ==
  ASSUME TypeOK, PhasesFit, NEW d \in Deploys, writes[d] # {}
  PROVE  d \in Acting
  BY DEF PhasesFit, PhaseFits, Idle, Acting, TypeOK

(***************************************************************************)
(* Nobody takes the mapping away while it is not released.                 *)
(***************************************************************************)
LEMMA MappingPuts ==
  ASSUME TypeOK, EntriesFit, [Next]_vars, NEW h \in Hosts, Unreleased(h),
         NEW d \in Deploys, NEW w \in writes'[d], w \notin writes[d], w.key = Mapping(h)
  PROVE  w.table[Root] = plan[d].app
<1>1. ASSUME NEW k \in Keys, VisitPuts(d, k, w)
      PROVE  FALSE
  <2>1. k = Mapping(h) /\ Retained(d, k) # kv[k] /\ d \in Acting
    BY <1>1, PutsAre, KeyForms DEF VisitPuts, Acting
  <2>2. PICK q \in Paths : Retained(d, k)[q] # kv[k][q]
    BY <2>1, TableIs, DeployType
  <2>3. kv[k][q] = plan[d].app /\ <<k.host, q>> \notin attached[d]
    BY <2>2 DEF Retained
  <2>4. kv[k][q] # None /\ k.form = "mapping" /\ k.path = Root /\ k.host = h
    BY <2>1, <2>3, DeployType, KeyForms
  <2>5. q = Root
    BY <2>4 DEF EntriesFit, OneEntry
  <2> QED
    BY <2>1, <2>3, <2>4, <2>5 DEF Unreleased, Got
<1>2. ASSUME NEW g \in Hosts, MergesPut(d, g, w)
      PROVE  w.table[Root] = plan[d].app
  <2>1. d \in Acting /\ w \in MergePuts(d, g)
    BY <1>2 DEF MergesPut, Acting
  <2>2. w.key = Mapping(g) /\ w.table = Only(Root, Merged(d, g)[Root])
    <3>1. /\ List(g).form = "list" /\ Mapping(h).form = "mapping"
          /\ \A p \in Paths : Record(g, p).form = "record"
      BY KeyForms
    <3>2. w.key # List(g) /\ \A p \in Paths : w.key # Record(g, p)
      BY <3>1
    <3> QED
      BY <2>1, <3>2, MergePutsAre
  <2>3. g = h /\ Root \in Paths
    <3>1. Mapping(g).host = g /\ Mapping(h).host = h
      BY KeyForms
    <3> QED
      BY <2>2, <3>1, PathsAssumption
  <2>4. Merged(d, g)[Root] = plan[d].app
    BY <2>1, <2>3 DEF Merged, Unreleased, Got
  <2> QED
    BY <2>2, <2>3, <2>4, TableIs, DeployType
<1> QED
  BY <1>1, <1>2, NewWrites

(***************************************************************************)
(* A put for another app would be of a rival the request has met.          *)
(***************************************************************************)
LEMMA RivalPuts ==
  ASSUME TypeOK, PhasesFit, BusyHaveMet, NEW h \in Hosts, Unreleased(h), WildcardHeld(h),
         NEW d \in Deploys, Finished(d, h), Got(d, h), ~ Contested(d, h),
         NEW x \in Deploys, NEW w \in writes[x], w.key = Mapping(h)
  PROVE  w.table[Root] = plan[d].app
<1>1. x \in Acting /\ Got(x, h)
  BY WritersAct DEF Unreleased
<1>2. w.table[Root] = plan[x].app
  BY DEF WildcardHeld, PutForItself
<1>3. ~ Idle(x) /\ Busy(x)
  BY DEF Busy, Idle
<1>4. CASE status[d] = "done"
  BY <1>1, <1>2, <1>3, <1>4 DEF WildcardHeld, RivalsHaveEnded, Rivals, Contested
<1>5. CASE status[d] = "replacing"
  <2>1. Busy(d)
    BY <1>5 DEF Busy, Running
  <2>2. x # d => {d, x} \in met
    BY <1>3, <2>1 DEF BusyHaveMet
  <2> QED
    BY <1>1, <1>2, <2>2 DEF Contested, Rivals
<1> QED
  BY <1>4, <1>5 DEF Finished

(***************************************************************************)
(* The wildcard is granted only to whom it belongs.                        *)
(***************************************************************************)
LEMMA GrantedToItsApp ==
  ASSUME TypeOK, NEW h \in Wildcards, [Next]_vars, ~ misled',
         NEW y \in Deploys, ~ Got(y, h), Got(y, h)', kv[Mapping(h)][Root] # None
  PROVE  plan[y].app = kv[Mapping(h)][Root]
<1>1. Step(y)
  BY RestAlone DEF Alone, Got
<1>2. PICK route \in Routes : Claim(y, route)
  <2>1. attached' # attached
    BY DEF Got
  <2> QED
    BY <1>1, <2>1, Zenon
       DEF Step, Begin, Planned, Visit, PassOver, Merge, Land, Done, Fails, Abandon
<1>3. route = <<h, Root>>
  <2>1. attached' = attached \/ attached' = [attached EXCEPT ![y] = @ \cup {route}]
    BY <1>2, Zenon DEF Claim
  <2> QED
    BY <2>1 DEF Got, TypeOK
<1> DEFINE a == plan[y].app
           kvroot == kv[Mapping(h)][Root]
<1>4. route[1] = h /\ route[2] = Root
  BY <1>3
<1>5. PICK root \in RootAnswers(h), wildroot \in RootAnswers(WildcardOf[h]), txt \in BOOLEAN,
           covered \in BOOLEAN :
        /\ \/ Granted(a, h, Loaded(h, Root, root), txt, covered)
           \/ attached' = attached
        /\ misled' = (misled \/ root # kvroot)
  <2>1. h \in Wildcards
    OBVIOUS
  <2>2. PICK root \in RootAnswers(h), wildroot \in RootAnswers(WildcardOf[h]) :
         LET existing == Loaded(h, Root, root)
             covered  == WildcardOf[h] # h /\ Loaded(WildcardOf[h], Root, wildroot) # None
         IN
         /\ \/ /\ h \in Zoned
               /\ \E txt \in {t \in BOOLEAN : t => h \in Txt} :
                    attached' = IF Granted(a, h, existing, txt, covered)
                                THEN [attached EXCEPT ![y] = @ \cup {route}]
                                ELSE attached
            \/ /\ h \notin Zoned \cup Wildcards /\ ~ covered
               /\ attached' = [attached EXCEPT ![y] = @ \cup {route}]
         /\ misled' = (misled \/ root # kv[Mapping(h)][Root])
    BY <1>2, <1>4, Zenon DEF Claim
  <2> QED
    BY <2>1, <2>2
<1>6. Granted(a, h, Loaded(h, Root, root), txt, covered)
  BY <1>5 DEF Got
<1>7. root = kvroot
  BY <1>5
<1>8. Loaded(h, Root, root) = kvroot
  BY <1>7, LoadedAtRoot, HostsAssumption DEF Mounted
<1> QED
  BY <1>6, <1>8 DEF Granted

\* Every step keeps the mappings of wildcards that nobody releases.
LEMMA StepWildcards ==
  TypeOK /\ EntriesFit /\ PhasesFit /\ BusyHaveMet /\ WildcardsHeld /\ [Next]_vars
    => WildcardsHeld'
<1> SUFFICES ASSUME TypeOK, EntriesFit, PhasesFit, BusyHaveMet, WildcardsHeld,
                    [Next]_vars, NEW h \in Wildcards, Unreleased(h)'
             PROVE  WildcardHeld(h)'
  BY DEF WildcardsHeld
<1>1. h \in Hosts /\ Mapping(h) \in Keys
  BY HostsAssumption, KeyForms
<1>2. Unreleased(h) /\ WildcardHeld(h)
  BY <1>1, ContestStays DEF WildcardsHeld
<1>3. plan' = plan
  BY Moves
<1>4. PutForItself(h)'
  BY <1>1, <1>2, <1>3, MappingPuts DEF WildcardHeld, PutForItself
<1>5. ASSUME NEW d \in Deploys, Finished(d, h), Got(d, h), ~ Contested(d, h),
             kv[Mapping(h)][Root] = plan[d].app
      PROVE  kv'[Mapping(h)][Root] = plan[d].app
  BY <1>1, <1>2, <1>5, NewValues, RivalPuts
<1>6. ASSUME NEW d \in Deploys, Finished(d, h)', Got(d, h)', ~ Contested(d, h)'
      PROVE  \/ kv'[Mapping(h)][Root] = plan'[d].app
             \/ \E w \in writes'[d] : w.key = Mapping(h)
  <2>1. h \in HostsOf(d)'
    BY <1>6 DEF HostsOf, Got
  <2>2. CASE Finished(d, h)
    <3>1. d \in Acting
      BY <2>2 DEF Finished, Acting
    <3>2. Got(d, h) /\ ~ Contested(d, h)
      BY <1>1, <1>6, <3>1, Moves, ContestStays DEF Got
    <3>3. CASE kv[Mapping(h)][Root] = plan[d].app
      BY <1>3, <1>5, <2>2, <3>2, <3>3
    <3>4. ASSUME NEW w \in writes[d], w.key = Mapping(h)
          PROVE  \/ kv'[Mapping(h)][Root] = plan'[d].app
                 \/ \E v \in writes'[d] : v.key = Mapping(h)
      <4>1. status'[d] # "failed" /\ w.table[Root] = plan[d].app
        BY <1>2, <1>6, <3>4 DEF Finished, WildcardHeld, PutForItself
      <4> QED
        BY <1>3, <3>4, <4>1, GoneWrites
    <3> QED
      BY <1>2, <2>2, <3>2, <3>3, <3>4 DEF WildcardHeld, WonStays
  <2>3. ASSUME MergePuts(d, h) \subseteq writes'[d]
        PROVE  \E w \in writes'[d] : w.key = Mapping(h)
    BY <1>1, <2>3, MergePutsAre
  <2> QED
    BY <1>1, <1>6, <2>1, <2>2, <2>3, FinishedFrom
<1>7. ASSUME NEW d \in Deploys, NEW y \in Deploys, status'[d] = "done",
             ~ Contested(d, h)', Rivals(d, y, h)', {d, y} \notin met'
      PROVE  status'[y] \in {"done", "failed"} /\ Idle(y)'
  <2>1. {d, y} \notin met /\ d # y
    BY <1>7, Moves DEF Rivals
  <2>2. CASE status[d] = "done"
    <3>1. d \in Acting
      BY <2>2 DEF Acting
    <3>2. Got(d, h) /\ ~ Contested(d, h) /\ plan[d].app # plan[y].app
      BY <1>1, <1>3, <1>7, <3>1, Moves, ContestStays DEF Got, Rivals
    <3>3. Got(y, h)
      <4>1. SUFFICES ASSUME ~ Got(y, h)
                     PROVE  FALSE
        OBVIOUS
      <4>2. Finished(d, h) /\ writes[d] = {}
        BY <2>2 DEF Finished, PhasesFit, PhaseFits, Idle
      <4>3. kv[Mapping(h)][Root] = plan[d].app
        BY <1>2, <3>2, <4>2 DEF WildcardHeld, WonStays
      <4>4. kv[Mapping(h)][Root] # None
        BY <4>3, DeployType
      <4>5. Got(y, h)' /\ ~ misled'
        BY <1>7 DEF Rivals, Unreleased
      <4> QED
        BY <3>2, <4>1, <4>3, <4>4, <4>5, GrantedToItsApp
    <3>4. status[y] \in {"done", "failed"} /\ Idle(y)
      BY <1>2, <2>1, <2>2, <3>2, <3>3 DEF WildcardHeld, RivalsHaveEnded, Rivals
    <3>5. CASE ~ Step(y)
      BY <3>4, <3>5, RestAlone DEF Alone, Idle
    <3>6. CASE Step(y)
      BY <3>4, <3>6, Zenon
         DEF Step, Begin, Claim, Planned, Visit, PassOver, Merge, Land, Done, Fails, Abandon, Idle,
             Running
    <3> QED
      BY <3>5, <3>6
  <2>3. CASE status[d] # "done"
    <3>1. Done(d)
      <4>1. Step(d)
        BY <1>7, <2>3, RestAlone DEF Alone
      <4>2. CASE Begin(d)
        BY <1>7, <4>2 DEF Begin, TypeOK
      <4>3. CASE Planned(d)
        BY <1>7, <4>3 DEF Planned, TypeOK
      <4>4. CASE Fails(d)
        BY <1>7, <4>4 DEF Fails, TypeOK
      <4>5. UNCHANGED status \/ Begin(d) \/ Planned(d) \/ Fails(d) \/ Done(d)
        BY <4>1, Zenon DEF Step, Claim, Visit, PassOver, Merge, Land, Abandon
      <4> QED
        BY <1>7, <2>3, <4>2, <4>3, <4>4, <4>5
    <3>2. Busy(d) /\ UNCHANGED <<attached, todo, writes>>
      BY <3>1 DEF Done, Busy, Running
    <3>3. ~ Busy(y)
      BY <2>1, <3>2 DEF BusyHaveMet
    <3>4. status'[y] = status[y]
      BY <2>1, <3>1 DEF Done, TypeOK
    <3>5. status[y] # "new"
      BY <1>7, <3>2 DEF PhasesFit, PhaseFits, Rivals, Got
    <3> QED
      BY <3>2, <3>3, <3>4, <3>5 DEF Busy, Running, Idle, TypeOK
  <2> QED
    BY <2>2, <2>3
<1>8. WonStays(h)'
  BY <1>6 DEF WonStays
<1>9. RivalsHaveEnded(h)'
  BY <1>7 DEF RivalsHaveEnded
<1> QED
  BY <1>4, <1>8, <1>9 DEF WildcardHeld

\* At first no deploy got one.
LEMMA InitWildcards == Init => WildcardsHeld
  BY DEF Init, WildcardsHeld, WildcardHeld, PutForItself, WonStays, RivalsHaveEnded, Finished

WildcardInv ==
  TypeOK /\ EntriesFit /\ PhasesFit /\ BusyHaveMet /\ WildcardsHeld

(***************************************************************************)
(* Two apps both get a wildcard only if a deploy of one of them, or what   *)
(* went on of it, ran beside another app's that got it, or a claim was     *)
(* misled by an outdated mapping, or a deploy may have released it.        *)
(***************************************************************************)
THEOREM WildcardsStay == Spec => []WildcardsAreNotReplaced
<1>1. Init => WildcardInv
  BY InitType, InitPhases, InitWildcards DEF WildcardInv
<1>2. WildcardInv /\ [Next]_vars => WildcardInv'
  BY StepType, StepEntries, StepPhases, StepMet, StepWildcards, Zenon DEF WildcardInv
<1>3. WildcardInv => WildcardsAreNotReplaced
  <2> SUFFICES ASSUME WildcardInv, NEW d \in Acting, NEW e \in Acting, NEW h \in Wildcards,
                      <<h, Root>> \in attached[d] \cap attached[e],
                      plan[d].app # plan[e].app, ~ misled,
                      status[d] = "done", status[e] # "failed",
                      \A x \in {d, e}, y \in Acting :
                        ~ (/\ <<h, Root>> \in attached[y] /\ plan[y].app # plan[x].app
                           /\ {x, y} \in met),
                      \A x \in Acting : <<h, Root>> \in attached[x]
               PROVE  FALSE
    BY DEF WildcardsAreNotReplaced
  <2>1. Unreleased(h) /\ d \in Deploys /\ e \in Deploys
    BY DEF Unreleased, Got, Acting
  <2>2. WildcardHeld(h)
    BY <2>1 DEF WildcardInv, WildcardsHeld
  <2>3. ~ Contested(d, h) /\ ~ Contested(e, h)
    BY DEF Contested, Rivals, Got
  <2>4. Rivals(d, e, h) /\ {d, e} \notin met
    BY DEF Rivals, Got
  <2>5. status[e] = "done"
    BY <2>1, <2>2, <2>3, <2>4 DEF WildcardHeld, RivalsHaveEnded
  <2>6. /\ Finished(d, h) /\ writes[d] = {}
        /\ Finished(e, h) /\ writes[e] = {}
    BY <2>1, <2>5 DEF WildcardInv, PhasesFit, PhaseFits, Idle, Finished
  <2>7. kv[Mapping(h)][Root] = plan[d].app /\ kv[Mapping(h)][Root] = plan[e].app
    BY <2>1, <2>2, <2>3, <2>4, <2>6 DEF WildcardHeld, WonStays, Rivals
  <2> QED
    BY <2>7
<1> QED
  BY <1>1, <1>2, <1>3, PTL DEF Spec

-----------------------------------------------------------------------------
(* Deploys one after the other *)

(***************************************************************************)
(* What the keys hold before, during and after a deploy, when no others    *)
(* overlap it and none fails: the owners' tables, those without the routes *)
(* it releases, and those of the owners it makes.                          *)
(***************************************************************************)
Serial == met = {} /\ \A d \in Deploys : status[d] # "failed"

Before(k) == Stored(owner)[k]

Released(d, k) ==
  [p \in Paths |-> IF /\ Before(k)[p] = plan[d].app
                      /\ <<k.host, p>> \notin attached[d]
                      /\ k.host \in plan[d].stale
                   THEN None ELSE Before(k)[p]]

OwnerAfter(d) ==
  [h \in Hosts |-> [p \in Paths |->
       IF <<h, p>> \in attached[d] THEN plan[d].app
       ELSE IF owner[h][p] = plan[d].app /\ h \in plan[d].stale THEN None
       ELSE owner[h][p]]]

Target(d, k) == Stored(OwnerAfter(d))[k]

(***************************************************************************)
(* A key that is not visited yet is as before.  One that is has let go of  *)
(* the routes, or will when a put lands, or is a list that the merge will  *)
(* replace.  One that is merged is what it should be, or will be.          *)
(***************************************************************************)
WritesTo(d, k) == {w \in writes[d] : w.key = k}

Untouched(d, k) == kv[k] = Before(k) /\ WritesTo(d, k) = {}

Settling(d, k, t) == /\ \A w \in WritesTo(d, k) : w.table = t
                     /\ kv[k] = t \/ WritesTo(d, k) # {}

LetGo(d, k) ==
  \/ Settling(d, k, Released(d, k))
  \/ /\ k.form = "list" /\ k.host \in HostsOf(d) /\ Released(d, k) = Empty
     /\ Untouched(d, k)

Later(f, g) == \/ f = "mapping" /\ g \in {"list", "record"}
               \/ f = "list" /\ g = "record"

Due(d, k) == Later(pass[d], k.form) \/ (k.form = pass[d] /\ k \in todo[d])

Passing(d, k) == /\ k \in todo[d] => k.form = pass[d]
                 /\ Due(d, k) => Untouched(d, k)
                 /\ ~ Due(d, k) => LetGo(d, k)

Merging(d, k) ==
  IF k.host \in HostsOf(d) /\ List(k.host) \notin todo[d]
  THEN Settling(d, k, Target(d, k))
  ELSE LetGo(d, k) /\ WritesTo(d, k) = {}

Progress(d, k) == IF pass[d] = "merge" THEN Merging(d, k) ELSE Passing(d, k)

SerialHeld == Serial =>
  /\ (\A d \in Deploys : status[d] # "replacing") => \A k \in Keys : kv[k] = Before(k)
  /\ \A d \in Deploys : status[d] = "replacing" => \A k \in Keys : Progress(d, k)

(***************************************************************************)
(* The tables that are compared.                                           *)
(***************************************************************************)
LEMMA BeforeIs ==
  ASSUME TypeOK, NEW k \in Keys
  PROVE  /\ Before(k) \in Table
         /\ \A p \in Paths : Before(k)[p] = IF k.form = "list" \/ p = k.path
                                            THEN owner[k.host][p] ELSE None
  BY StoredIs DEF Before, TypeOK

\* A table without what a deploy releases, path by path.
LEMMA ReleasedIs ==
  ASSUME TypeOK, NEW d \in Deploys, NEW k \in Keys
  PROVE  /\ Released(d, k) \in Table
         /\ Before(k) = Empty => Released(d, k) = Empty
         /\ kv[k] = Before(k) => Retained(d, k) = Released(d, k)
<1>1. \A p \in Paths : Before(k)[p] \in Owners
  BY BeforeIs DEF Table
<1>2. Released(d, k) \in Table
  BY <1>1 DEF Released, Table, Owners
<1>3. ASSUME Before(k) = Empty
      PROVE  Released(d, k) = Empty
  <2>1. \A p \in Paths : Before(k)[p] = None
    BY <1>3, TableIs
  <2>2. \A p \in Paths : Released(d, k)[p] = None
    BY <2>1 DEF Released
  <2> QED
    BY <1>2, <2>2, TableIs
<1>4. ASSUME kv[k] = Before(k)
      PROVE  Retained(d, k) = Released(d, k)
  BY <1>4 DEF Retained, Released
<1> QED
  BY <1>2, <1>3, <1>4

\* The table a deploy is to leave, path by path.
LEMMA TargetIs ==
  ASSUME TypeOK, NEW d \in Deploys, NEW k \in Keys
  PROVE  /\ OwnerAfter(d) \in [Hosts -> Table]
         /\ Target(d, k) \in Table
         /\ \A p \in Paths :
              Target(d, k)[p] = IF k.form = "list" \/ p = k.path
                                THEN OwnerAfter(d)[k.host][p] ELSE None
<1>1. \A h \in Hosts, p \in Paths : owner[h][p] \in Owners
  BY DEF TypeOK, Table
<1>2. OwnerAfter(d) \in [Hosts -> Table]
  BY <1>1, DeployType DEF OwnerAfter, Table, Owners
<1> HIDE DEF OwnerAfter
<1> QED
  BY <1>2, StoredIs DEF Target

(***************************************************************************)
(* A deploy attaches only where it may remove.                             *)
(***************************************************************************)
LEMMA AttachedIsStale ==
  ASSUME TypeOK, PhasesFit, NEW d \in Deploys
  PROVE  HostsOf(d) \subseteq plan[d].stale
<1> SUFFICES ASSUME NEW route \in attached[d]
             PROVE  route[1] \in plan[d].stale
  BY DEF HostsOf
<1>1. route \in plan[d].routes /\ plan[d] \in Plans /\ route \in Routes
  BY DEF PhasesFit, PhaseFits, TypeOK
<1> QED
  BY <1>1, PlansAssumption

(***************************************************************************)
(* Where nothing is merged, releasing is all there is to do.               *)
(***************************************************************************)
LEMMA ReleasedIsTarget ==
  ASSUME TypeOK, NEW d \in Deploys, NEW k \in Keys,
         \A p \in Paths : k.form = "list" \/ p = k.path => <<k.host, p>> \notin attached[d]
  PROVE  Released(d, k) = Target(d, k)
<1>1. k.host \in Hosts
  BY KeyForms
<1>2. ASSUME NEW p \in Paths
      PROVE  Released(d, k)[p] = Target(d, k)[p]
  <2>1. CASE k.form = "list" \/ p = k.path
    <3>1. Before(k)[p] = owner[k.host][p] /\ Target(d, k)[p] = OwnerAfter(d)[k.host][p]
      BY <2>1, BeforeIs, TargetIs
    <3>2. <<k.host, p>> \notin attached[d]
      BY <2>1
    <3> QED
      BY <1>1, <3>1, <3>2 DEF Released, OwnerAfter
  <2>2. CASE ~ (k.form = "list" \/ p = k.path)
    <3>1. Before(k)[p] = None /\ Target(d, k)[p] = None
      BY <2>2, BeforeIs, TargetIs
    <3> QED
      BY <3>1 DEF Released
  <2> QED
    BY <2>1, <2>2
<1> QED
  BY <1>2, TableIs, ReleasedIs, TargetIs

(***************************************************************************)
(* The list merged from what remains is that of the owners after.          *)
(***************************************************************************)
LEMMA MergedIs ==
  ASSUME TypeOK, PhasesFit, NEW d \in Deploys, NEW h \in HostsOf(d),
         LetGo(d, List(h)), WritesTo(d, List(h)) = {}
  PROVE  Merged(d, h) = OwnerAfter(d)[h]
<1>1. h \in Hosts /\ h \in plan[d].stale /\ List(h) \in Keys
  BY AttachedIsStale, DeployType, KeyForms
<1>2. kv[List(h)] \in {Before(List(h)), Released(d, List(h))}
  BY DEF LetGo, Settling, Untouched
<1>3. ASSUME NEW p \in Paths
      PROVE  Merged(d, h)[p] = OwnerAfter(d)[h][p]
  <2>1. Before(List(h))[p] = owner[h][p]
    BY <1>1, BeforeIs, KeyForms
  <2>2. Released(d, List(h))[p] =
          IF owner[h][p] = plan[d].app /\ <<h, p>> \notin attached[d] THEN None
          ELSE owner[h][p]
    BY <1>1, <2>1, KeyForms DEF Released
  <2>3. kv[List(h)][p] = owner[h][p] \/
          kv[List(h)][p] = IF owner[h][p] = plan[d].app /\ <<h, p>> \notin attached[d] THEN None
                           ELSE owner[h][p]
    BY <1>2, <2>1, <2>2
  <2>4. Merged(d, h)[p] = IF <<h, p>> \in attached[d] THEN plan[d].app
                          ELSE IF kv[List(h)][p] = plan[d].app THEN None
                          ELSE kv[List(h)][p]
    BY DEF Merged
  <2>5. OwnerAfter(d)[h][p] = IF <<h, p>> \in attached[d] THEN plan[d].app
                              ELSE IF owner[h][p] = plan[d].app THEN None
                              ELSE owner[h][p]
    BY <1>1 DEF OwnerAfter
  <2> QED
    BY <2>3, <2>4, <2>5, DeployType
<1> QED
  BY <1>1, <1>3, TableIs, DeployType, TargetIs

(***************************************************************************)
(* Steps that leave a deploy and the stores alone keep its progress.       *)
(***************************************************************************)
LEMMA ProgressKept ==
  ASSUME UNCHANGED <<kv, owner>>, NEW d \in Deploys, Alone(d), NEW k \in Keys
  PROVE  /\ Progress(d, k) => Progress(d, k)'
         /\ Before(k)' = Before(k)
<1>1. Before(k)' = Before(k)
  BY DEF Before
<1>2. HostsOf(d)' = HostsOf(d) /\ Released(d, k)' = Released(d, k)
        /\ WritesTo(d, k)' = WritesTo(d, k) /\ OwnerAfter(d)' = OwnerAfter(d)
  BY <1>1 DEF Alone, HostsOf, Released, OwnerAfter, WritesTo
<1>3. Target(d, k)' = Target(d, k)
  BY <1>2 DEF Target
<1>4. LetGo(d, k)' <=> LetGo(d, k)
  BY <1>1, <1>2 DEF LetGo, Settling, Untouched
<1>5. Untouched(d, k)' <=> Untouched(d, k)
  BY <1>1, <1>2 DEF Untouched
<1> QED
  BY <1>1, <1>2, <1>3, <1>4, <1>5 DEF Progress, Passing, Merging, Due, Alone, Settling

(***************************************************************************)
(* Without overlaps a deploy that goes on is the only one.                 *)
(***************************************************************************)
LEMMA NoOther ==
  ASSUME Serial, BusyHaveMet, NEW d \in Deploys, Busy(d), NEW e \in Deploys, e # d
  PROVE  ~ Busy(e) /\ status[e] # "replacing"
<1>1. ~ Busy(e)
  BY DEF Serial, BusyHaveMet
<1> QED
  BY <1>1 DEF Busy, Running

\* A step that keeps deploys serial was serial before.
LEMMA SerialBefore ==
  ASSUME TypeOK, [Next]_vars, Serial'
  PROVE  Serial
<1>1. met = {}
  BY Moves DEF Serial
<1>2. ASSUME NEW d \in Deploys, status[d] = "failed"
      PROVE  FALSE
  <2>1. status'[d] = "failed"
    <3>1. CASE ~ Step(d)
      BY <1>2, <3>1, RestAlone DEF Alone
    <3>2. CASE Step(d)
      <4>1. UNCHANGED status
        BY <1>2, <3>2, Zenon
           DEF Step, Begin, Claim, Planned, Visit, PassOver, Merge, Land, Done, Fails,
               Abandon, Running
      <4> QED
        BY <1>2, <4>1
    <3> QED
      BY <3>1, <3>2
  <2> QED
    BY <2>1 DEF Serial
<1> QED
  BY <1>1, <1>2 DEF Serial

(***************************************************************************)
(* The claims are planned: nothing has been touched.                       *)
(***************************************************************************)
LEMMA SerialPlanned ==
  ASSUME TypeOK, PhasesFit, BusyHaveMet, SerialHeld, Serial, Serial',
         NEW d \in Deploys, Planned(d)
  PROVE  \A k \in Keys : Progress(d, k)'
<1>1. /\ status'[d] = "replacing" /\ UNCHANGED <<kv, owner, plan, attached, pass, writes>>
      /\ todo'[d] = {k \in Keys : k.form = "mapping" /\ kv[k] # Empty}
  <2>1. status'[d] # "failed"
    BY DEF Serial
  <2> QED
    BY <2>1 DEF Planned, TypeOK
<1>2. status[d] = "planning" /\ Busy(d)
  BY DEF Planned, Busy, Running
<1>3. \A e \in Deploys : status[e] # "replacing"
  BY <1>2, NoOther
<1>4. pass[d] = "mapping" /\ writes[d] = {}
  BY <1>2 DEF PhasesFit, PhaseFits
<1> SUFFICES ASSUME NEW k \in Keys
             PROVE  Progress(d, k)'
  OBVIOUS
<1>5. Before(k)' = Before(k) /\ Released(d, k)' = Released(d, k)
  BY <1>1 DEF Before, Released
<1>6. kv[k] = Before(k)
  BY <1>3 DEF SerialHeld
<1>7. WritesTo(d, k)' = {}
  BY <1>1, <1>4 DEF WritesTo
<1>8. Untouched(d, k)'
  BY <1>1, <1>5, <1>6, <1>7 DEF Untouched
<1>9. ASSUME ~ Due(d, k)'
      PROVE  LetGo(d, k)'
  <2>1. k.form \in {"mapping", "list", "record"}
    BY KeyForms
  <2>2. kv[k] = Empty
    BY <1>1, <1>4, <1>9, <2>1 DEF Due, Later
  <2>3. kv'[k] = Released(d, k)'
    BY <1>1, <1>5, <1>6, <2>2, ReleasedIs
  <2> QED
    BY <1>7, <2>3 DEF LetGo, Settling
<1>10. k \in todo'[d] => k.form = pass'[d]
  BY <1>1, <1>4
<1>11. pass'[d] # "merge"
  BY <1>1, <1>4
<1> QED
  BY <1>8, <1>9, <1>10, <1>11 DEF Progress, Passing

(***************************************************************************)
(* A key is visited: it lets go of the routes, or is left to the merge.    *)
(***************************************************************************)
LEMMA SerialVisit ==
  ASSUME TypeOK, SerialHeld, Serial, NEW d \in Deploys, NEW v \in Keys, Visit(d, v)
  PROVE  \A k \in Keys : Progress(d, k)'
<1>1. /\ status[d] = "replacing" /\ pass[d] # "merge" /\ v \in todo[d]
      /\ UNCHANGED <<kv, owner, plan, attached, pass>>
      /\ todo'[d] = todo[d] \ {v}
      /\ writes'[d] = writes[d] \cup IF kv[v] = Empty THEN {} ELSE Puts(d, v)
  BY DEF Visit, Serial, TypeOK
<1> SUFFICES ASSUME NEW k \in Keys
             PROVE  Progress(d, k)'
  OBVIOUS
<1>2. Passing(d, k) /\ Passing(d, v)
  BY <1>1 DEF SerialHeld, Progress
<1>3. Before(k)' = Before(k) /\ Released(d, k)' = Released(d, k) /\ HostsOf(d)' = HostsOf(d)
  BY <1>1 DEF Before, Released, HostsOf
<1>4. pass'[d] # "merge"
  BY <1>1
<1>5. CASE k # v
  <2>1. WritesTo(d, k)' = WritesTo(d, k)
    BY <1>1, <1>5, PutsAre DEF WritesTo
  <2>2. Due(d, k)' <=> Due(d, k)
    BY <1>1, <1>5 DEF Due
  <2>3. LetGo(d, k)' <=> LetGo(d, k)
    BY <1>1, <1>3, <2>1 DEF LetGo, Settling, Untouched
  <2>4. Untouched(d, k)' <=> Untouched(d, k)
    BY <1>1, <1>3, <2>1 DEF Untouched
  <2> QED
    BY <1>1, <1>2, <1>4, <2>2, <2>3, <2>4 DEF Progress, Passing
<1>6. CASE k = v
  <2>1. k.form = pass[d] /\ Untouched(d, k)
    BY <1>1, <1>2, <1>6 DEF Passing, Due
  <2>2. ~ Due(d, k)' /\ k \notin todo'[d]
    BY <1>1, <1>6, <2>1, KeyForms DEF Due, Later
  <2>3. Retained(d, k) = Released(d, k) /\ kv[k] = Before(k) /\ WritesTo(d, k) = {}
    BY <2>1, ReleasedIs DEF Untouched
  <2>4. LetGo(d, k)'
    <3>1. CASE kv[k] = Empty
      <4>1. writes'[d] = writes[d] /\ kv'[k] = Released(d, k)'
        BY <1>1, <1>3, <1>6, <2>3, <3>1, ReleasedIs
      <4>2. WritesTo(d, k)' = {}
        BY <2>3, <4>1 DEF WritesTo
      <4> QED
        BY <4>1, <4>2 DEF LetGo, Settling
    <3>2. CASE kv[k] # Empty /\ Puts(d, k) # {}
      <4>1. \A w \in Puts(d, k) : w.key = k /\ w.table = Released(d, k)
        BY <2>3, PutsAre
      <4>2. writes'[d] = writes[d] \cup Puts(d, k)
        BY <1>1, <1>6, <3>2
      <4>3. WritesTo(d, k)' = Puts(d, k)
        BY <2>3, <4>1, <4>2 DEF WritesTo
      <4>4. Settling(d, k, Released(d, k))'
        BY <1>3, <3>2, <4>1, <4>3 DEF Settling
      <4> QED
        BY <4>4 DEF LetGo
    <3>3. CASE kv[k] # Empty /\ Puts(d, k) = {}
      <4>1. WritesTo(d, k)' = {}
        BY <1>1, <1>6, <2>3, <3>3 DEF WritesTo
      <4>2. /\ ~ (k.form = "list" /\ Retained(d, k) # Empty)
            /\ ~ (Retained(d, k) # kv[k] /\ (k.form = "list" => k.host \notin HostsOf(d)))
        BY <3>3 DEF Puts
      <4>3. CASE Retained(d, k) = kv[k]
        BY <1>1, <1>3, <2>3, <4>1, <4>3 DEF LetGo, Settling
      <4>4. CASE Retained(d, k) # kv[k]
        BY <1>1, <1>3, <2>3, <4>1, <4>2, <4>4 DEF LetGo, Untouched
      <4> QED
        BY <4>3, <4>4
    <3> QED
      BY <3>1, <3>2, <3>3
  <2> QED
    BY <1>4, <2>2, <2>4 DEF Progress, Passing
<1> QED
  BY <1>5, <1>6

(***************************************************************************)
(* A pass is over: all its keys have let go, and the next are due.         *)
(***************************************************************************)
LEMMA SerialPass ==
  ASSUME TypeOK, SerialHeld, Serial, NEW d \in Deploys, PassOver(d)
  PROVE  \A k \in Keys : Progress(d, k)'
<1>1. /\ status[d] = "replacing" /\ pass[d] \in {"mapping", "list", "record"}
      /\ UNCHANGED <<kv, owner, plan, attached, writes>>
      /\ todo[d] = {} /\ writes[d] = {} /\ pass'[d] = After[pass[d]]
  BY DEF PassOver, Idle, TypeOK, Forms
<1> SUFFICES ASSUME NEW k \in Keys
             PROVE  Progress(d, k)'
  OBVIOUS
<1>2. Passing(d, k) /\ k.form \in {"mapping", "list", "record"}
  BY <1>1, KeyForms DEF SerialHeld, Progress
<1>3. /\ Before(k)' = Before(k) /\ Released(d, k)' = Released(d, k)
      /\ HostsOf(d)' = HostsOf(d) /\ WritesTo(d, k)' = WritesTo(d, k)
      /\ WritesTo(d, k) = {}
  BY <1>1 DEF Before, Released, HostsOf, WritesTo
<1>4. LetGo(d, k)' <=> LetGo(d, k)
  BY <1>1, <1>3 DEF LetGo, Settling, Untouched
<1>5. Untouched(d, k)' <=> Untouched(d, k)
  BY <1>1, <1>3 DEF Untouched
<1>6. CASE pass[d] = "record"
  <2>1. pass'[d] = "merge"
    BY <1>1, <1>6 DEF After
  <2>2. todo'[d] = {List(h) : h \in HostsOf(d)}
    BY <1>6 DEF PassOver, TypeOK
  <2>3. k.host \in HostsOf(d)' => List(k.host) \in todo'[d]
    BY <1>3, <2>2
  <2>4. LetGo(d, k)
    BY <1>1, <1>2, <1>6 DEF Passing, Due, Later
  <2> QED
    BY <1>3, <1>4, <2>1, <2>3, <2>4 DEF Progress, Merging
<1>7. CASE pass[d] # "record"
  <2>1. /\ pass[d] = "mapping" => pass'[d] = "list"
        /\ pass[d] = "list" => pass'[d] = "record"
    BY <1>1 DEF After
  <2>2. todo'[d] = {j \in Keys : j.form = pass'[d] /\ kv[j] # Empty}
    BY <1>1, <1>7 DEF PassOver, TypeOK
  <2>3. Due(d, k)' => Due(d, k)
    BY <1>1, <1>2, <1>7, <2>1 DEF Due, Later
  <2>4. ASSUME ~ Due(d, k)', Due(d, k)
        PROVE  LetGo(d, k)'
    <3>1. k.form = pass'[d] /\ k \notin todo'[d]
      BY <1>1, <1>2, <1>7, <2>1, <2>4 DEF Due, Later
    <3>2. kv[k] = Empty /\ Untouched(d, k)
      BY <1>2, <2>2, <2>4, <3>1 DEF Passing
    <3>3. kv[k] = Released(d, k)
      BY <3>2, ReleasedIs DEF Untouched
    <3>4. LetGo(d, k)
      BY <1>3, <3>3 DEF LetGo, Settling
    <3> QED
      BY <1>4, <3>4
  <2>5. pass'[d] # "merge"
    BY <1>1, <1>7, <2>1
  <2> QED
    BY <1>2, <1>4, <1>5, <2>2, <2>3, <2>4, <2>5 DEF Progress, Passing
<1> QED
  BY <1>6, <1>7

(***************************************************************************)
(* A hostname is merged: its list is that of the owners after, and so are  *)
(* the mapping and the records that are put with it.                       *)
(***************************************************************************)
LEMMA SerialMerge ==
  ASSUME TypeOK, PhasesFit, SerialHeld, Serial,
         NEW d \in Deploys, NEW h \in Hosts, Merge(d, h)
  PROVE  \A k \in Keys : Progress(d, k)'
<1>1. /\ status[d] = "replacing" /\ pass[d] = "merge" /\ List(h) \in todo[d]
      /\ UNCHANGED <<kv, owner, plan, attached, pass>>
      /\ todo'[d] = todo[d] \ {List(h)}
      /\ writes'[d] = writes[d] \cup MergePuts(d, h)
  BY DEF Merge, Serial, TypeOK
<1>2. h \in HostsOf(d)
  <2>1. PICK g \in HostsOf(d) : List(h) = List(g)
    BY <1>1 DEF PhasesFit, PhaseFits
  <2>2. List(h).host = h /\ List(g).host = g
    BY <2>1, DeployType, KeyForms
  <2> QED
    BY <2>1, <2>2
<1> SUFFICES ASSUME NEW k \in Keys
             PROVE  Progress(d, k)'
  OBVIOUS
<1>3. /\ Before(k)' = Before(k) /\ Released(d, k)' = Released(d, k)
      /\ HostsOf(d)' = HostsOf(d) /\ OwnerAfter(d)' = OwnerAfter(d)
  BY <1>1 DEF Before, Released, HostsOf, OwnerAfter
<1>4. Target(d, k)' = Target(d, k)
  BY <1>3 DEF Target
<1>5. Merging(d, k) /\ pass'[d] = "merge" /\ k.host \in Hosts
  BY <1>1, KeyForms DEF SerialHeld, Progress
<1>6. \A w \in MergePuts(d, h) : w.key.host = h
  <2>1. /\ Mapping(h).host = h /\ List(h).host = h
        /\ \A p \in Paths : Record(h, p).host = h
    BY KeyForms
  <2>2. ASSUME NEW w \in MergePuts(d, h)
        PROVE  w.key.host = h
    <3>1. \/ w.key = Mapping(h)
          \/ w.key = List(h)
          \/ \E p \in Paths : w.key = Record(h, p)
      BY <2>2, MergePutsAre
    <3> QED
      BY <2>1, <3>1
  <2> QED
    BY <2>2
<1>7. CASE k.host # h
  <2>1. WritesTo(d, k)' = WritesTo(d, k)
    BY <1>1, <1>6, <1>7 DEF WritesTo
  <2>2. List(k.host) \in todo'[d] <=> List(k.host) \in todo[d]
    <3>1. List(k.host).host = k.host /\ List(h).host = h
      BY <1>5, KeyForms
    <3> QED
      BY <1>1, <1>7, <3>1
  <2>3. LetGo(d, k)' <=> LetGo(d, k)
    BY <1>1, <1>3, <2>1 DEF LetGo, Settling, Untouched
  <2>4. Settling(d, k, Target(d, k))' <=> Settling(d, k, Target(d, k))
    BY <1>1, <1>4, <2>1 DEF Settling
  <2> QED
    BY <1>3, <1>5, <2>1, <2>2, <2>3, <2>4 DEF Progress, Merging
<1>8. CASE k.host = h
  <2>1. LetGo(d, k) /\ WritesTo(d, k) = {}
    BY <1>1, <1>2, <1>5, <1>8 DEF Merging
  <2>2. LetGo(d, List(h)) /\ WritesTo(d, List(h)) = {}
    <3>1. List(h) \in Keys /\ List(h).host = h
      BY KeyForms
    <3>2. Merging(d, List(h))
      BY <1>1, <3>1 DEF SerialHeld, Progress
    <3> QED
      BY <1>1, <1>2, <3>1, <3>2 DEF Merging
  <2>3. Merged(d, h) = OwnerAfter(d)[h]
    BY <1>2, <2>2, MergedIs
  <2>4. WritesTo(d, k)' = {w \in MergePuts(d, h) : w.key = k}
    BY <1>1, <2>1 DEF WritesTo
  <2>5. Root \in Paths /\ Merged(d, h) \in Table /\ Merged(d, h)[Root] \in Owners
    BY PathsAssumption, DeployType DEF Table
  <2>6. ASSUME k.form = "mapping"
       PROVE  Settling(d, k, Target(d, k))'
    <3>1. k = Mapping(h) /\ k.path = Root
      BY <1>8, <2>6, KeyForms
    <3>2. \A w \in MergePuts(d, h) : w.key = k => w.table = Only(Root, Merged(d, h)[Root])
      <4>1. /\ List(h).form = "list"
            /\ \A p \in Paths : Record(h, p).form = "record"
        BY KeyForms
      <4>2. k # List(h) /\ \A p \in Paths : k # Record(h, p)
        BY <2>6, <4>1
      <4> QED
        BY <4>2, MergePutsAre
    <3>3. Only(Root, Merged(d, h)[Root]) = Target(d, k)
      <4>1. Only(Root, Merged(d, h)[Root]) \in Table
        BY <2>5, TableIs
      <4>2. \A p \in Paths : Only(Root, Merged(d, h)[Root])[p] = Target(d, k)[p]
        BY <1>8, <2>3, <2>5, <2>6, <3>1, TableIs, TargetIs
      <4> QED
        BY <4>1, <4>2, TableIs, TargetIs
    <3>4. \E w \in MergePuts(d, h) : w.key = k
      BY <3>1, MergePutsAre
    <3> QED
      BY <1>4, <2>4, <3>2, <3>3, <3>4 DEF Settling
  <2>7. ASSUME k.form = "list"
       PROVE  Settling(d, k, Target(d, k))'
    <3>1. k = List(h)
      BY <1>8, <2>7, KeyForms
    <3>2. \A w \in MergePuts(d, h) : w.key = k => w.table = Merged(d, h)
      <4>1. /\ Mapping(h).form = "mapping"
            /\ \A p \in Paths : Record(h, p).form = "record"
        BY KeyForms
      <4>2. k # Mapping(h) /\ \A p \in Paths : k # Record(h, p)
        BY <2>7, <4>1
      <4> QED
        BY <4>2, MergePutsAre
    <3>3. Merged(d, h) = Target(d, k)
      <4>1. \A p \in Paths : Merged(d, h)[p] = Target(d, k)[p]
        BY <1>8, <2>3, <2>7, TargetIs
      <4> QED
        BY <2>5, <4>1, TableIs, TargetIs
    <3>4. \E w \in MergePuts(d, h) : w.key = k
      BY <3>1, MergePutsAre
    <3> QED
      BY <1>4, <2>4, <3>2, <3>3, <3>4 DEF Settling
  <2>8. ASSUME k.form = "record"
       PROVE  Settling(d, k, Target(d, k))'
    <3>1. k = Record(h, k.path) /\ k.path \in Paths
      BY <1>8, <2>8, KeyForms
    <3>2. \A w \in MergePuts(d, h) :
            w.key = k => <<h, k.path>> \in attached[d] /\ w.table = Only(k.path, plan[d].app)
      <4>1. Mapping(h).form = "mapping" /\ List(h).form = "list"
        BY KeyForms
      <4>2. k # Mapping(h) /\ k # List(h)
        BY <2>8, <4>1
      <4>3. ASSUME NEW w \in MergePuts(d, h), w.key = k
            PROVE  <<h, k.path>> \in attached[d] /\ w.table = Only(k.path, plan[d].app)
        <5>1. PICK p \in Paths : /\ <<h, p>> \in attached[d]
                                 /\ k = Record(h, p) /\ w.table = Only(p, plan[d].app)
          BY <4>2, <4>3, MergePutsAre
        <5>2. Record(h, p).path = p
          BY KeyForms
        <5> QED
          BY <5>1, <5>2
      <4> QED
        BY <4>3
    <3>3. CASE <<h, k.path>> \in attached[d]
      <4>1. Only(k.path, plan[d].app) = Target(d, k)
        <5>1. Only(k.path, plan[d].app) \in Table
          BY <3>1, TableIs, DeployType
        <5>2. OwnerAfter(d)[h][k.path] = plan[d].app
          BY <3>1, <3>3 DEF OwnerAfter
        <5>3. \A p \in Paths : Only(k.path, plan[d].app)[p] = Target(d, k)[p]
          BY <1>8, <2>8, <3>1, <5>2, TableIs, TargetIs, DeployType
        <5> QED
          BY <5>1, <5>3, TableIs, TargetIs
      <4>2. \E w \in MergePuts(d, h) : w.key = k
        BY <3>1, <3>3, MergePutsAre
      <4> QED
        BY <1>4, <2>4, <3>2, <4>1, <4>2 DEF Settling
    <3>4. CASE <<h, k.path>> \notin attached[d]
      <4>1. WritesTo(d, k)' = {}
        BY <2>4, <3>2, <3>4
      <4>2. kv[k] = Released(d, k)
        BY <2>1, <2>8 DEF LetGo, Settling
      <4>3. Released(d, k) = Target(d, k)
        BY <1>8, <2>8, <3>4, ReleasedIsTarget
      <4> QED
        BY <1>1, <1>4, <4>1, <4>2, <4>3 DEF Settling
    <3> QED
      BY <3>3, <3>4
  <2>9. Settling(d, k, Target(d, k))'
    BY <2>6, <2>7, <2>8, KeyForms
  <2>10. List(k.host) \notin todo'[d]
    BY <1>1, <1>8
  <2> QED
    BY <1>2, <1>3, <1>5, <1>8, <2>9, <2>10 DEF Progress, Merging
<1> QED
  BY <1>7, <1>8

(***************************************************************************)
(* A put lands: its key settles.                                           *)
(***************************************************************************)
LEMMA SerialLand ==
  ASSUME TypeOK, SerialHeld, Serial, NEW d \in Deploys, status[d] = "replacing",
         NEW w \in writes[d], Land(d, w)
  PROVE  \A k \in Keys : Progress(d, k)'
<1>1. /\ UNCHANGED <<owner, plan, attached, pass, todo>>
      /\ kv' = [kv EXCEPT ![w.key] = w.table]
      /\ writes'[d] = writes[d] \ {w}
      /\ w.key \in Keys
  BY DEF Land, TypeOK, Write
<1> SUFFICES ASSUME NEW k \in Keys
             PROVE  Progress(d, k)'
  OBVIOUS
<1>2. Progress(d, k)
  BY DEF SerialHeld
<1>3. /\ Before(k)' = Before(k) /\ Released(d, k)' = Released(d, k)
      /\ HostsOf(d)' = HostsOf(d) /\ OwnerAfter(d)' = OwnerAfter(d)
      /\ Due(d, k)' = Due(d, k)
  BY <1>1 DEF Before, Released, HostsOf, OwnerAfter, Due
<1>4. Target(d, k)' = Target(d, k)
  BY <1>3 DEF Target
<1>5. CASE k # w.key
  <2>1. WritesTo(d, k)' = WritesTo(d, k) /\ kv'[k] = kv[k]
    BY <1>1, <1>5 DEF WritesTo, TypeOK
  <2>2. LetGo(d, k)' <=> LetGo(d, k)
    BY <1>1, <1>3, <2>1 DEF LetGo, Settling, Untouched
  <2>3. Untouched(d, k)' <=> Untouched(d, k)
    BY <1>1, <1>3, <2>1 DEF Untouched
  <2>4. Settling(d, k, Target(d, k))' <=> Settling(d, k, Target(d, k))
    BY <1>1, <1>4, <2>1 DEF Settling
  <2> QED
    BY <1>1, <1>2, <1>3, <2>1, <2>2, <2>3, <2>4 DEF Progress, Passing, Merging
<1>6. CASE k = w.key
  <2>1. w \in WritesTo(d, k) /\ kv'[k] = w.table /\ WritesTo(d, k)' \subseteq WritesTo(d, k)
    BY <1>1, <1>6 DEF WritesTo, TypeOK
  <2>2. LetGo(d, k) => LetGo(d, k)'
    BY <1>3, <2>1 DEF LetGo, Settling, Untouched
  <2>3. ~ Untouched(d, k)
    BY <2>1 DEF Untouched
  <2>4. Settling(d, k, Target(d, k)) => Settling(d, k, Target(d, k))'
    BY <1>4, <2>1 DEF Settling
  <2> QED
    BY <1>1, <1>2, <1>3, <2>1, <2>2, <2>3, <2>4 DEF Progress, Passing, Merging
<1> QED
  BY <1>5, <1>6

(***************************************************************************)
(* The deploy is done: every key holds what the owners are now.            *)
(***************************************************************************)
LEMMA SerialDone ==
  ASSUME TypeOK, SerialHeld, Serial, NEW d \in Deploys, Done(d)
  PROVE  \A k \in Keys : kv'[k] = Before(k)'
<1>1. /\ status[d] = "replacing" /\ pass[d] = "merge" /\ UNCHANGED kv
      /\ todo[d] = {} /\ writes[d] = {} /\ owner' = OwnerAfter(d)
  BY DEF Done, Idle, OwnerAfter
<1> SUFFICES ASSUME NEW k \in Keys
             PROVE  kv'[k] = Before(k)'
  OBVIOUS
<1>2. Before(k)' = Target(d, k)
  BY <1>1 DEF Before, Target
<1>3. Merging(d, k) /\ WritesTo(d, k) = {}
  BY <1>1 DEF SerialHeld, Progress, WritesTo
<1>4. CASE k.host \in HostsOf(d)
  BY <1>1, <1>2, <1>3, <1>4 DEF Merging, Settling
<1>5. CASE k.host \notin HostsOf(d)
  <2>1. kv[k] = Released(d, k)
    BY <1>3, <1>5 DEF Merging, LetGo, Settling
  <2>2. \A p \in Paths : <<k.host, p>> \notin attached[d]
    <3>1. ASSUME NEW p \in Paths, <<k.host, p>> \in attached[d]
          PROVE  FALSE
      <4>1. <<k.host, p>>[1] = k.host
        OBVIOUS
      <4> QED
        BY <1>5, <3>1, <4>1 DEF HostsOf
    <3> QED
      BY <3>1
  <2>3. Released(d, k) = Target(d, k)
    BY <2>2, ReleasedIsTarget
  <2> QED
    BY <1>1, <1>2, <2>1, <2>3
<1> QED
  BY <1>4, <1>5

(***************************************************************************)
(* Every step keeps to it.                                                 *)
(***************************************************************************)
LEMMA StepSerial ==
  TypeOK /\ PhasesFit /\ BusyHaveMet /\ SerialHeld /\ [Next]_vars => SerialHeld'
<1> SUFFICES ASSUME TypeOK, PhasesFit, BusyHaveMet, SerialHeld, [Next]_vars, Serial'
             PROVE  /\ (\A d \in Deploys : status'[d] # "replacing") =>
                         \A k \in Keys : kv'[k] = Before(k)'
                    /\ \A d \in Deploys : status'[d] = "replacing" =>
                         \A k \in Keys : Progress(d, k)'
  BY DEF SerialHeld
<1> DEFINE Goal == /\ (\A d \in Deploys : status'[d] # "replacing") =>
                        \A k \in Keys : kv'[k] = Before(k)'
                   /\ \A d \in Deploys : status'[d] = "replacing" =>
                        \A k \in Keys : Progress(d, k)'
<1>1. Serial
  BY SerialBefore
<1>2. ASSUME UNCHANGED <<kv, owner>>,
             \A e \in Deploys : status'[e] = "replacing" <=> status[e] = "replacing",
             \A e \in Deploys : status[e] = "replacing" => Alone(e)
      PROVE  Goal
  <2>1. (\A d \in Deploys : status'[d] # "replacing") => \A k \in Keys : kv'[k] = Before(k)'
    BY <1>1, <1>2 DEF SerialHeld, Before
  <2>2. ASSUME NEW d \in Deploys, status'[d] = "replacing", NEW k \in Keys
        PROVE  Progress(d, k)'
    BY <1>1, <1>2, <2>2, ProgressKept DEF SerialHeld
  <2> QED
    BY <2>1, <2>2
<1>3. ASSUME NEW d \in Deploys, Busy(d), Step(d), status'[d] = "replacing",
             \A k \in Keys : Progress(d, k)'
      PROVE  Goal
  <2>1. ASSUME NEW e \in Deploys, e # d
        PROVE  status'[e] # "replacing"
    BY <1>1, <1>3, <2>1, NoOther, OthersAlone DEF Alone
  <2> QED
    BY <1>3, <2>1
<1>4. ASSUME UNCHANGED vars
      PROVE  Goal
  BY <1>2, <1>4 DEF vars, Alone
<1>5. ASSUME NEW h \in Hosts, Fill(h) \/ Expire(h)
      PROVE  Goal
  BY <1>2, <1>5 DEF Fill, Expire, Alone
<1>6. ASSUME NEW d \in Deploys, Begin(d)
      PROVE  Goal
  <2>1. /\ UNCHANGED <<kv, owner>> /\ status[d] = "new" /\ status'[d] = "planning"
        /\ \A e \in Deploys : e # d => status'[e] = status[e]
    BY <1>6 DEF Begin, TypeOK
  <2>2. \A e \in Deploys : e # d => Alone(e)
    BY <1>6, OthersAlone DEF Step
  <2> QED
    BY <1>2, <2>1, <2>2
<1>7. ASSUME NEW d \in Deploys, NEW route \in Routes, Claim(d, route)
      PROVE  Goal
  <2>1. UNCHANGED <<kv, owner, status>> /\ status[d] = "planning"
    BY <1>7 DEF Claim
  <2>2. \A e \in Deploys : e # d => Alone(e)
    BY <1>7, OthersAlone DEF Step
  <2> QED
    BY <1>2, <2>1, <2>2
<1>8. ASSUME NEW d \in Deploys, Planned(d)
      PROVE  Goal
  <2>1. \A k \in Keys : Progress(d, k)'
    BY <1>1, <1>8, SerialPlanned
  <2>2. Busy(d) /\ Step(d)
    BY <1>8 DEF Planned, Busy, Running, Step
  <2>3. status'[d] \in {"replacing", "failed"}
    BY <1>8 DEF Planned, TypeOK
  <2>4. status'[d] = "replacing"
    BY <2>3 DEF Serial
  <2> QED
    BY <1>3, <2>1, <2>2, <2>4
<1>9. ASSUME NEW d \in Deploys, NEW v \in Keys, Visit(d, v)
      PROVE  Goal
  <2>1. \A k \in Keys : Progress(d, k)'
    BY <1>1, <1>9, SerialVisit
  <2>2. Busy(d) /\ Step(d) /\ status'[d] = "replacing"
    BY <1>1, <1>9 DEF Visit, Busy, Idle, Step, Serial
  <2> QED
    BY <1>3, <2>1, <2>2
<1>10. ASSUME NEW d \in Deploys, PassOver(d)
       PROVE  Goal
  <2>1. \A k \in Keys : Progress(d, k)'
    BY <1>1, <1>10, SerialPass
  <2>2. Busy(d) /\ Step(d) /\ status'[d] = "replacing"
    BY <1>10 DEF PassOver, Busy, Running, Step
  <2> QED
    BY <1>3, <2>1, <2>2
<1>11. ASSUME NEW d \in Deploys, NEW h \in Hosts, Merge(d, h)
       PROVE  Goal
  <2>1. \A k \in Keys : Progress(d, k)'
    BY <1>1, <1>11, SerialMerge
  <2>2. Busy(d) /\ Step(d) /\ status'[d] = "replacing"
    BY <1>1, <1>11 DEF Merge, Busy, Idle, Step, Serial
  <2> QED
    BY <1>3, <2>1, <2>2
<1>12. ASSUME NEW d \in Deploys, NEW w \in writes[d], Land(d, w)
       PROVE  Goal
  <2>1. status[d] = "replacing"
    BY <1>1, WritersAct DEF Acting, Serial, PhasesFit, PhaseFits, Idle
  <2>2. \A k \in Keys : Progress(d, k)'
    BY <1>1, <1>12, <2>1, SerialLand
  <2>3. Busy(d) /\ Step(d) /\ status'[d] = "replacing"
    BY <1>12, <2>1 DEF Land, Busy, Running, Step
  <2> QED
    BY <1>3, <2>2, <2>3
<1>13. ASSUME NEW d \in Deploys, Done(d)
       PROVE  Goal
  <2>1. \A k \in Keys : kv'[k] = Before(k)'
    BY <1>1, <1>13, SerialDone
  <2>2. Busy(d) /\ Step(d) /\ status'[d] = "done"
    BY <1>13 DEF Done, Busy, Running, Step, TypeOK
  <2>3. \A e \in Deploys : status'[e] # "replacing"
    BY <1>1, <2>2, NoOther, OthersAlone DEF Alone
  <2> QED
    BY <2>1, <2>3
<1>14. ASSUME NEW d \in Deploys, Fails(d)
       PROVE  FALSE
  BY <1>14 DEF Fails, Serial, TypeOK
<1>15. ASSUME NEW d \in Deploys, Abandon(d)
       PROVE  FALSE
  BY <1>1, <1>15 DEF Abandon, Serial
<1> HIDE DEF Goal
<1>16. Goal
  BY <1>4, <1>5, <1>6, <1>7, <1>8, <1>9, <1>10, <1>11, <1>12, <1>13, <1>14, <1>15, Zenon
     DEF Next, Step
<1> QED
  BY <1>16 DEF Goal

\* At first the stored forms are those of the owners.
LEMMA InitSerial == Init => SerialHeld
  BY DEF Init, SerialHeld, Before

SerialInv == TypeOK /\ PhasesFit /\ BusyHaveMet /\ SerialHeld

(***************************************************************************)
(* Deploys that neither overlap nor fail leave the routes as if each had   *)
(* taken effect at once.                                                   *)
(***************************************************************************)
THEOREM SerialDeploysStayExact == Spec => []SerialDeploysAreExact
<1>1. Init => SerialInv
  BY InitType, InitPhases, InitSerial DEF SerialInv
<1>2. SerialInv /\ [Next]_vars => SerialInv'
  BY StepType, StepPhases, StepMet, StepSerial, Zenon DEF SerialInv
<1>3. SerialInv => SerialDeploysAreExact
  <2> SUFFICES ASSUME SerialInv, met = {},
                      \A d \in Deploys : status[d] \in {"new", "done"},
                      NEW h \in Hosts, NEW p \in Paths
               PROVE  Mounted(h, p, kv[Mapping(h)][Root]) = owner[h][p]
    BY DEF SerialDeploysAreExact
  <2>1. \A k \in Keys : kv[k] = Before(k)
    BY DEF SerialInv, SerialHeld, Serial
  <2>2. TypeOK /\ Root \in Paths
    BY PathsAssumption DEF SerialInv
  <2>3. kv[Mapping(h)][Root] = owner[h][Root]
    BY <2>1, <2>2, BeforeIs, KeyForms
  <2>4. kv[Record(h, p)][p] = owner[h][p]
    BY <2>1, <2>2, BeforeIs, KeyForms
  <2>5. kv[List(h)][p] = owner[h][p]
    BY <2>1, <2>2, BeforeIs, KeyForms
  <2> QED
    BY <2>3, <2>4, <2>5 DEF Mounted
<1> QED
  BY <1>1, <1>2, <1>3, PTL DEF Spec
=============================================================================
