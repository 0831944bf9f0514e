---------------------------- MODULE LimitsProofs ----------------------------
(***************************************************************************)
(* Proofs about the limits of an app's use.                                *)
(*                                                                         *)
(* BurstLimits, for any requests, repositories, limits and windows: type   *)
(* correctness; the racing counters never count more than was let through, *)
(* so that no refusal comes early; requests that do not overlap keep the   *)
(* limit of every scope; Retry-After is exact.                             *)
(*                                                                         *)
(* DailyLimits, for any requests, clock and limits: type correctness; no   *)
(* rollup says more than was used; a daily suspension was deserved.        *)
(*                                                                         *)
(* BurstLimits is extended and DailyLimits an instance, named D: both call *)
(* their actions Init, Next and Spec.  They share the set of requests; the *)
(* instance keeps its control state in a variable of its own.              *)
(***************************************************************************)
EXTENDS BurstLimits, DailyUsage, TLAPS


(***************************************************************************)
(* The counters a request reads and writes exist.                          *)
(***************************************************************************)
LEMMA CellType ==
  ASSUME TypeOK, NEW r \in Requests, NEW s \in Scopes
  PROVE  Key(repo[r], s) \in Keys /\ WindowOf(at[r]) \in Windows
  BY DEF TypeOK, Keys, Windows

(***************************************************************************)
(* The first window begins at 0, and nothing is counted.                   *)
(***************************************************************************)
LEMMA InitType == Init => TypeOK
  BY ClockAssumption, LimitAssumption DEF Init, TypeOK, Steps

(***************************************************************************)
(* An admitted request raises the history of its three keys.               *)
(***************************************************************************)
LEMMA AdmitGrows ==
  ASSUME TypeOK, NEW r \in Requests, Admit(r)
  PROVE  /\ admitted' \in [Keys -> [Windows -> Nat]]
         /\ \A k \in Keys, w \in Windows : admitted[k][w] <= admitted'[k][w]
         /\ \A s \in Scopes :
              admitted'[Key(repo[r], s)][WindowOf(at[r])]
                = admitted[Key(repo[r], s)][WindowOf(at[r])] + units[r]
<1>1. units[r] \in Nat
  BY LimitAssumption DEF TypeOK
<1>2. \A k \in Keys, w \in Windows : admitted[k][w] \in Nat
  BY DEF TypeOK
<1>3. \A k \in Keys, w \in Windows :
        admitted'[k][w] = IF w = WindowOf(at[r]) /\ \E s \in Scopes : k = Key(repo[r], s)
                          THEN admitted[k][w] + units[r] ELSE admitted[k][w]
  BY Zenon DEF Admit
<1>4. admitted' \in [Keys -> [Windows -> Nat]]
  <2> DEFINE raised(k, w) ==
        IF w = WindowOf(at[r]) /\ \E s \in Scopes : k = Key(repo[r], s)
        THEN admitted[k][w] + units[r] ELSE admitted[k][w]
  <2>1. \A k \in Keys, w \in Windows : raised(k, w) \in Nat
    BY <1>1, <1>2
  <2>2. admitted' = [k \in Keys |-> [w \in Windows |-> raised(k, w)]]
    BY Zenon DEF Admit
  <2> HIDE DEF raised
  <2> QED
    BY <2>1, <2>2
<1>5. \A k \in Keys, w \in Windows : admitted[k][w] <= admitted'[k][w]
  BY <1>1, <1>2, <1>3
<1>6. ASSUME NEW s \in Scopes
      PROVE  admitted'[Key(repo[r], s)][WindowOf(at[r])]
               = admitted[Key(repo[r], s)][WindowOf(at[r])] + units[r]
  BY <1>3, CellType
<1> QED
  BY <1>4, <1>5, <1>6

(***************************************************************************)
(* Every step keeps the types.                                             *)
(***************************************************************************)
LEMMA StepType == TypeOK /\ [Next]_vars => TypeOK'
<1> SUFFICES ASSUME TypeOK, [Next]_vars
             PROVE  TypeOK'
  OBVIOUS
<1>1. CASE UNCHANGED vars
  BY <1>1 DEF vars, TypeOK
<1>2. ASSUME NEW r \in Requests, DailyBlocks(r) \/ PassExempt(r) \/ Refuse(r)
      PROVE  TypeOK'
  BY <1>2 DEF DailyBlocks, PassExempt, Refuse, TypeOK, Steps
<1>3. ASSUME NEW r \in Requests, Begin(r)
      PROVE  TypeOK'
  <2>1. met' \subseteq Requests \X Requests
    BY <1>3 DEF Begin, TypeOK
  <2> QED
    BY <1>3, <2>1 DEF Begin, TypeOK, Steps
<1>4. ASSUME NEW r \in Requests, ReadFails(r)
      PROVE  TypeOK'
  BY <1>4 DEF ReadFails, TypeOK, Steps
<1>5. ASSUME NEW r \in Requests, Admit(r)
      PROVE  TypeOK'
  BY <1>5, AdmitGrows DEF Admit, TypeOK, Steps
<1>6. ASSUME NEW r \in Requests, NEW s \in Scopes, ReadCounter(r, s)
      PROVE  TypeOK'
  <2>1. counter[Key(repo[r], s)][WindowOf(at[r])] \in Nat
    BY CellType DEF TypeOK
  <2> QED
    BY <1>6, <2>1 DEF ReadCounter, TypeOK
<1>7. ASSUME NEW r \in Requests, NEW s \in Scopes, PutCounter(r, s)
      PROVE  TypeOK'
  <2>0. used[r][s] \in Nat /\ units[r] \in Nat
    BY LimitAssumption DEF TypeOK
  <2>1. used[r][s] + units[r] \in Nat
    BY <2>0
  <2>2. counter' \in [Keys -> [Windows -> Nat]]
    BY <1>7, <2>1, CellType DEF PutCounter, TypeOK
  <2> QED
    BY <1>7, <2>2 DEF PutCounter, TypeOK, Steps
<1>8. ASSUME NEW r \in Requests, NEW s \in Scopes, PutFails(r, s)
      PROVE  TypeOK'
  BY <1>8 DEF PutFails, TypeOK, Steps
<1>9. CASE Tick
  BY <1>9, ClockAssumption DEF Tick, TypeOK
<1> QED
  BY <1>1, <1>2, <1>3, <1>4, <1>5, <1>6, <1>7, <1>8, <1>9 DEF Next

(***************************************************************************)
(* The variables of BurstLimits keep their types.                          *)
(***************************************************************************)
THEOREM TypeCorrect == Spec => []TypeOK
  BY InitType, StepType, PTL DEF Spec

-----------------------------------------------------------------------------

(***************************************************************************)
(* The strengthening: what a request has read of a counter was let through *)
(* already, and what it is about to put contains its own units, which were *)
(* let through when it was admitted.                                       *)
(***************************************************************************)
ReadWasAdmitted ==
  \A r \in Requests, s \in Scopes :
    step[r] = "reading" /\ s \notin left[r]
      => used[r][s] <= admitted[Key(repo[r], s)][WindowOf(at[r])]

PutWasAdmitted ==
  \A r \in Requests, s \in Scopes :
    step[r] \in {"writing", "error"} /\ s \in left[r]
      => used[r][s] + units[r] <= admitted[Key(repo[r], s)][WindowOf(at[r])]

CountInv == /\ CountersNeverOverCount
            /\ ReadWasAdmitted
            /\ PutWasAdmitted
            /\ RefusalIsJustified

(***************************************************************************)
(* Nothing has been read, put or refused.                                  *)
(***************************************************************************)
LEMMA InitCount == Init => CountInv
  BY DEF Init, CountInv, CountersNeverOverCount, ReadWasAdmitted, PutWasAdmitted,
         RefusalIsJustified, Keys, Windows

(***************************************************************************)
(* Every step keeps what the counters and the requests in flight owe to    *)
(* the history of what was let through.                                    *)
(***************************************************************************)
LEMMA StepCount == TypeOK /\ CountInv /\ [Next]_vars => CountInv'
<1> SUFFICES ASSUME TypeOK, CountInv, [Next]_vars
             PROVE  CountInv'
  OBVIOUS
<1> USE DEF CountInv
<1>0. \A r \in Requests, s \in Scopes :
        /\ Key(repo[r], s) \in Keys /\ WindowOf(at[r]) \in Windows
        /\ units[r] \in Nat /\ used[r][s] \in Nat
        /\ admitted[Key(repo[r], s)][WindowOf(at[r])] \in Nat
        /\ counter[Key(repo[r], s)][WindowOf(at[r])] \in Nat
  BY CellType, LimitAssumption DEF TypeOK
<1>1. CASE UNCHANGED vars \/ Tick
  BY <1>1 DEF vars, Tick, CountersNeverOverCount, ReadWasAdmitted, PutWasAdmitted,
              RefusalIsJustified
<1>2. ASSUME NEW r \in Requests, DailyBlocks(r) \/ PassExempt(r) \/ ReadFails(r)
      PROVE  CountInv'
  BY <1>2 DEF DailyBlocks, PassExempt, ReadFails, TypeOK, CountersNeverOverCount,
              ReadWasAdmitted, PutWasAdmitted, RefusalIsJustified
<1>3. ASSUME NEW r \in Requests, Begin(r)
      PROVE  CountInv'
  <2>1. \A q \in Requests : q # r => step'[q] = step[q] /\ at'[q] = at[q] /\ left'[q] = left[q]
    BY <1>3 DEF Begin, TypeOK
  <2>2. step'[r] = "reading" /\ left'[r] = Scopes
    BY <1>3 DEF Begin, TypeOK
  <2> QED
    BY <1>3, <2>1, <2>2 DEF Begin, CountersNeverOverCount, ReadWasAdmitted,
                            PutWasAdmitted, RefusalIsJustified
<1>4. ASSUME NEW r \in Requests, Refuse(r)
      PROVE  CountInv'
  <2>1. PICK t \in Scopes : used[r][t] + units[r] > Limit[repo[r]][t]
    BY <1>4 DEF Refuse, WouldBlock
  <2>2. used[r][t] <= admitted[Key(repo[r], t)][WindowOf(at[r])]
    BY <1>4 DEF Refuse, ReadWasAdmitted
  <2>3. Limit[repo[r]][t] \in Nat
    BY LimitAssumption DEF TypeOK
  <2>4. admitted[Key(repo[r], t)][WindowOf(at[r])] + units[r] > Limit[repo[r]][t]
    BY <1>0, <2>1, <2>2, <2>3
  <2>5. \A q \in Requests : q # r => step'[q] = step[q]
    BY <1>4 DEF Refuse, TypeOK
  <2>6. step'[r] = "refused"
    BY <1>4 DEF Refuse, TypeOK
  <2> QED
    BY <1>4, <2>4, <2>5, <2>6 DEF Refuse, CountersNeverOverCount, ReadWasAdmitted,
                                  PutWasAdmitted, RefusalIsJustified
<1>5. ASSUME NEW r \in Requests, Admit(r)
      PROVE  CountInv'
  <2>1. /\ admitted' \in [Keys -> [Windows -> Nat]]
        /\ \A k \in Keys, w \in Windows : admitted[k][w] <= admitted'[k][w]
        /\ \A s \in Scopes :
              admitted'[Key(repo[r], s)][WindowOf(at[r])]
                = admitted[Key(repo[r], s)][WindowOf(at[r])] + units[r]
    BY <1>5, AdmitGrows
  <2>2. UNCHANGED <<counter, repo, units, at, used>>
    BY <1>5 DEF Admit
  <2>3. /\ step[r] = "reading" /\ left[r] = {}
        /\ step'[r] = "writing" /\ left'[r] = Scopes
        /\ \A q \in Requests : q # r => step'[q] = step[q] /\ left'[q] = left[q]
    BY <1>5 DEF Admit, TypeOK
  <2>4. CountersNeverOverCount'
    <3> SUFFICES ASSUME NEW k \in Keys, NEW w \in Windows
                 PROVE  counter[k][w] <= admitted'[k][w]
      BY <2>2 DEF CountersNeverOverCount
    <3>1. counter[k][w] \in Nat /\ admitted[k][w] \in Nat /\ admitted'[k][w] \in Nat
      BY <2>1 DEF TypeOK
    <3> QED
      BY <2>1, <3>1 DEF CountersNeverOverCount
  <2>5. \A q \in Requests, s \in Scopes :
          /\ admitted'[Key(repo[q], s)][WindowOf(at[q])] \in Nat
          /\ admitted[Key(repo[q], s)][WindowOf(at[q])]
               <= admitted'[Key(repo[q], s)][WindowOf(at[q])]
    BY <1>0, <2>1
  <2>6. ReadWasAdmitted'
    BY <1>0, <2>2, <2>3, <2>5 DEF ReadWasAdmitted
  <2>7. PutWasAdmitted'
    <3> SUFFICES ASSUME NEW q \in Requests, NEW s \in Scopes,
                        step'[q] \in {"writing", "error"}, s \in left'[q]
                 PROVE  used[q][s] + units[q] <= admitted'[Key(repo[q], s)][WindowOf(at[q])]
      BY <2>2 DEF PutWasAdmitted
    <3>1. CASE q = r
      BY <1>0, <2>1, <2>3, <3>1 DEF ReadWasAdmitted
    <3>2. CASE q # r
      BY <1>0, <2>3, <2>5, <3>2 DEF PutWasAdmitted
    <3> QED
      BY <3>1, <3>2
  <2>8. RefusalIsJustified'
    <3> SUFFICES ASSUME NEW q \in Requests, step'[q] = "refused"
                 PROVE  \E s \in Scopes :
                          admitted'[Key(repo[q], s)][WindowOf(at[q])] + units[q] > Limit[repo[q]][s]
      BY <2>2 DEF RefusalIsJustified
    <3>1. step[q] = "refused"
      BY <2>3
    <3>2. PICK s \in Scopes :
            admitted[Key(repo[q], s)][WindowOf(at[q])] + units[q] > Limit[repo[q]][s]
      BY <3>1 DEF RefusalIsJustified
    <3>3. Limit[repo[q]][s] \in Nat
      BY LimitAssumption DEF TypeOK
    <3> QED
      BY <1>0, <2>5, <3>2, <3>3
  <2> QED
    BY <2>4, <2>6, <2>7, <2>8
<1>6. ASSUME NEW r \in Requests, NEW s \in Scopes, ReadCounter(r, s)
      PROVE  CountInv'
  <2>1. counter[Key(repo[r], s)][WindowOf(at[r])]
          <= admitted[Key(repo[r], s)][WindowOf(at[r])]
    BY <1>0 DEF CountersNeverOverCount
  <2>2. \A q \in Requests, t \in Scopes : <<q, t>> # <<r, s>> =>
          used'[q][t] = used[q][t] /\ (t \in left'[q] <=> t \in left[q])
    BY <1>6 DEF ReadCounter, TypeOK
  <2>3. /\ step[r] = "reading"
        /\ used'[r][s] = counter[Key(repo[r], s)][WindowOf(at[r])]
    BY <1>6 DEF ReadCounter, TypeOK
  <2> QED
    BY <1>6, <2>1, <2>2, <2>3 DEF ReadCounter, CountersNeverOverCount,
         ReadWasAdmitted, PutWasAdmitted, RefusalIsJustified
<1>7. ASSUME NEW r \in Requests, NEW s \in Scopes, PutCounter(r, s)
      PROVE  CountInv'
  <2>1. /\ step[r] \in {"writing", "error"} /\ s \in left[r]
        /\ step'[r] \in {"writing", "error", "passed"} /\ left'[r] \subseteq left[r]
        /\ step'[r] \in {"writing", "error"} => step'[r] = step[r]
        /\ \A q \in Requests : q # r => step'[q] = step[q] /\ left'[q] = left[q]
    BY <1>7 DEF PutCounter, TypeOK
  <2>2. used[r][s] + units[r] <= admitted[Key(repo[r], s)][WindowOf(at[r])]
    BY <2>1 DEF PutWasAdmitted
  <2>3. CountersNeverOverCount'
    <3> SUFFICES ASSUME NEW k \in Keys, NEW w \in Windows
                 PROVE  counter'[k][w] <= admitted[k][w]
      BY <1>7 DEF PutCounter, CountersNeverOverCount
    <3>1. CASE k = Key(repo[r], s) /\ w = WindowOf(at[r])
      BY <1>7, <2>2, <3>1 DEF PutCounter, TypeOK
    <3>2. CASE ~(k = Key(repo[r], s) /\ w = WindowOf(at[r]))
      <4>1. counter'[k][w] = counter[k][w]
        BY <1>0, <1>7, <3>2 DEF PutCounter, TypeOK
      <4> QED
        BY <4>1 DEF CountersNeverOverCount
    <3> QED
      BY <3>1, <3>2
  <2> QED
    BY <1>7, <2>1, <2>3 DEF PutCounter, ReadWasAdmitted, PutWasAdmitted,
                            RefusalIsJustified
<1>8. ASSUME NEW r \in Requests, NEW s \in Scopes, PutFails(r, s)
      PROVE  CountInv'
  <2>1. /\ step[r] \in {"writing", "error"} /\ step'[r] = "error"
        /\ left'[r] \subseteq left[r]
        /\ \A q \in Requests : q # r => step'[q] = step[q] /\ left'[q] = left[q]
    BY <1>8 DEF PutFails, TypeOK
  <2> QED
    BY <1>8, <2>1 DEF PutFails, CountersNeverOverCount, ReadWasAdmitted,
                      PutWasAdmitted, RefusalIsJustified
<1> QED
  BY <1>1, <1>2, <1>3, <1>4, <1>5, <1>6, <1>7, <1>8 DEF Next

(***************************************************************************)
(* The counters of any interleaving of requests never count more than was  *)
(* let through.                                                            *)
(***************************************************************************)
THEOREM CountersAreSound == Spec => []CountersNeverOverCount
  BY InitType, StepType, InitCount, StepCount, PTL DEF Spec, CountInv

(***************************************************************************)
(* A refused request would really have exceeded the limit of a scope.      *)
(***************************************************************************)
THEOREM RefusalsAreJustified == Spec => []RefusalIsJustified
  BY InitType, StepType, InitCount, StepCount, PTL DEF Spec, CountInv

(***************************************************************************)
(* The quotient is the only number of whole windows that fits.             *)
(***************************************************************************)
LEMMA QuotientIs ==
  ASSUME NEW x \in Nat, NEW n \in Nat \ {0}, NEW q \in Nat,
         n * q <= x, x < n * q + n
  PROVE  x \div n = q
<1>1. /\ x \div n \in Nat
      /\ n * (x \div n) <= x /\ x < n * (x \div n) + n
  OBVIOUS
<1> DEFINE p == x \div n
<1> HIDE DEF p
<1>2. p \in Nat /\ n * p <= x /\ x < n * p + n
  BY <1>1 DEF p
<1>3. ASSUME NEW u \in Nat, NEW v \in Nat, u < v
      PROVE  n * u + n <= n * v
  <2>1. v = u + 1 + (v - u - 1) /\ v - u - 1 \in Nat
    BY <1>3
  <2>2. n * v = n * u + n + n * (v - u - 1)
    BY <2>1
  <2>3. n * (v - u - 1) \in Nat /\ n * u \in Nat /\ n * v \in Nat
    BY <2>1
  <2> QED
    BY <2>2, <2>3
<1>4. ~ (p < q) /\ ~ (q < p)
  BY <1>2, <1>3
<1> QED
  BY <1>2, <1>4 DEF p

(***************************************************************************)
(* A clock that goes from the window n into it by less than a second more  *)
(* than is left of it, which is not more than a window.                    *)
(***************************************************************************)
LEMMA RetryAfterIsRight ==
  ASSUME NEW t \in Nat
  PROVE  /\ WindowOf(t + RetryAfter(t) * Second) = WindowOf(t) + 1
         /\ WindowOf(t + (RetryAfter(t) - 1) * Second) = WindowOf(t)
<1> DEFINE len == WindowLength
           w == WindowOf(t)
           rest == len * (w + 1) - t
           whole == (rest + Second - 1) \div Second
<1>1. /\ Second \in Nat \ {0} /\ len \in Nat \ {0} /\ Second <= len
  <2>1. WindowSeconds * Second = Second + (WindowSeconds - 1) * Second
    BY ClockAssumption
  <2>2. (WindowSeconds - 1) * Second \in Nat
    BY ClockAssumption
  <2> QED
    BY <2>1, <2>2, ClockAssumption DEF WindowLength
<1>2. w \in Nat /\ len * w <= t /\ t < len * w + len
  BY <1>1 DEF WindowOf
<1> HIDE DEF len, w
<1>3. len * (w + 1) = len * w + len /\ len * w \in Nat
  BY <1>1, <1>2
<1>4. rest \in Nat /\ rest >= 1 /\ rest = len * w + len - t
  BY <1>2, <1>3, <1>1
<1> HIDE DEF rest
<1>5. rest + Second - 1 \in Nat
  BY <1>1, <1>4
<1>6. /\ whole \in Nat
      /\ whole * Second <= rest + Second - 1
      /\ rest + Second - 1 < whole * Second + Second
  BY <1>1, <1>5
<1>7. whole >= 1
  BY <1>1, <1>4, <1>6
<1>8. RetryAfter(t) = whole
  <2>1. RetryAfter(t) = IF whole < 1 THEN 1 ELSE whole
    BY Zenon DEF RetryAfter, rest, w, len, whole
  <2> HIDE DEF whole
  <2> QED
    BY <1>6, <1>7, <2>1
<1> HIDE DEF whole
<1> DEFINE wait == whole * Second
<1>9. (whole - 1) * Second = wait - Second
  BY <1>1, <1>6
<1>10. wait \in Nat /\ wait - Second \in Nat
  <2>1. (whole - 1) * Second \in Nat
    BY <1>1, <1>6, <1>7
  <2> QED
    BY <2>1, <1>1, <1>6, <1>9
<1>11. wait <= rest + Second - 1 /\ rest <= wait
  BY <1>1, <1>4, <1>6, <1>10
<1> HIDE DEF wait
<1>12. /\ len * (w + 1) <= t + wait /\ t + wait < len * (w + 1) + len
       /\ len * w <= t + (wait - Second)
       /\ t + (wait - Second) < len * w + len
  BY <1>1, <1>2, <1>3, <1>4, <1>10, <1>11
<1>13. (t + wait) \div len = w + 1 /\ (t + (wait - Second)) \div len = w
  <2>1. t + wait \in Nat /\ t + (wait - Second) \in Nat /\ w + 1 \in Nat
    BY <1>2, <1>10
  <2> QED
    BY <1>1, <1>2, <1>12, <2>1, QuotientIs
<1> QED
  BY <1>8, <1>9, <1>13 DEF WindowOf, wait, len, w

(***************************************************************************)
(* Waiting the Retry-After of a refusal leads to the next window, and a    *)
(* second less does not, for any second and any length of windows.         *)
(***************************************************************************)
THEOREM RetryAfterIsExact == Spec => []RetryAfterReachesNextWindow
<1>1. TypeOK => RetryAfterReachesNextWindow
  BY RetryAfterIsRight DEF TypeOK, RetryAfterReachesNextWindow
<1> QED
  BY <1>1, InitType, StepType, PTL DEF Spec

-----------------------------------------------------------------------------
(* Requests that do not overlap keep the limits. *)

(***************************************************************************)
(* The strengthening follows the requests let through under a key, of      *)
(* which some may still be putting.  While they do not overlap and lose no *)
(* put, the counter is what was let through, or the one request that still *)
(* puts it is about to make it so; and whoever read the counter without    *)
(* overlapping them read what was let through.  A request that reads is    *)
(* not among them: when it is refused, it leaves no trace.                 *)
(***************************************************************************)
Wrote(r, k, w) == /\ step[r] \in {"writing", "passed", "error"}
                  /\ CountedIn(r, k, w)

Alone(r, k, w) == \A q \in Requests : Wrote(q, k, w) => <<r, q>> \notin met

SerialWriters(k, w) ==
  \A r \in Requests : Wrote(r, k, w) => r \notin lost /\ Alone(r, k, w)

Putting(r, s, k, w) == /\ step[r] = "writing" /\ s \in left[r]
                       /\ Key(repo[r], s) = k /\ WindowOf(at[r]) = w

HasRead(r, s, k, w) == /\ step[r] = "reading" /\ s \notin left[r]
                       /\ Key(repo[r], s) = k /\ WindowOf(at[r]) = w

OverlapIsMet ==
  \A q, r \in Requests : q # r /\ InFlight(q) /\ InFlight(r) => <<q, r>> \in met

LostWhenPutsStay ==
  \A r \in Requests : step[r] = "error" /\ left[r] # {} => r \in lost

CounterIsExact ==
  \A k \in Keys, w \in Windows : SerialWriters(k, w) =>
    \/ counter[k][w] = admitted[k][w]
    \/ \E r \in Requests, s \in Scopes : Putting(r, s, k, w)

PutIsExact ==
  \A k \in Keys, w \in Windows, r \in Requests, s \in Scopes :
    SerialWriters(k, w) /\ Putting(r, s, k, w)
      => admitted[k][w] = used[r][s] + units[r]

ReadIsExact ==
  \A k \in Keys, w \in Windows, r \in Requests, s \in Scopes :
    SerialWriters(k, w) /\ HasRead(r, s, k, w) /\ Alone(r, k, w)
      => used[r][s] = admitted[k][w]

WithinALimit ==
  \A a \in Repos, s \in Scopes, w \in Windows :
    SerialWriters(Key(a, s), w) =>
      \E b \in Repos : /\ Key(b, s) = Key(a, s)
                       /\ admitted[Key(a, s)][w] <= Limit[b][s]

MetInv == OverlapIsMet /\ LostWhenPutsStay
ExactInv == CounterIsExact /\ PutIsExact /\ ReadIsExact /\ WithinALimit

(***************************************************************************)
(* A key is of one scope.                                                  *)
(***************************************************************************)
LEMMA KeyHasOneScope ==
  ASSUME NEW a \in Repos, NEW b \in Repos, NEW s \in Scopes, NEW t \in Scopes,
         Key(a, s) = Key(b, t)
  PROVE  s = t
<1>1. \A c \in Repos, u \in Scopes : Key(c, u)[1] = u
  BY DEF Key, Scopes
<1> QED
  BY <1>1

(***************************************************************************)
(* No request is in flight, nothing is counted and every limit is a        *)
(* natural number.                                                         *)
(***************************************************************************)
LEMMA InitExact == Init => MetInv /\ ExactInv
<1> SUFFICES ASSUME Init
             PROVE  MetInv /\ ExactInv
  OBVIOUS
<1>1. MetInv
  BY DEF Init, MetInv, OverlapIsMet, LostWhenPutsStay, InFlight
<1>2. \A k \in Keys, w \in Windows : counter[k][w] = 0 /\ admitted[k][w] = 0
  BY DEF Init
<1>3. CounterIsExact
  BY <1>2 DEF CounterIsExact
<1>4. PutIsExact /\ ReadIsExact
  BY DEF Init, PutIsExact, ReadIsExact, Putting, HasRead
<1>5. WithinALimit
  <2> SUFFICES ASSUME NEW a \in Repos, NEW s \in Scopes, NEW w \in Windows
               PROVE  admitted[Key(a, s)][w] <= Limit[a][s]
    BY DEF WithinALimit
  <2>1. Key(a, s) \in Keys /\ Limit[a][s] \in Nat
    BY LimitAssumption DEF Keys
  <2> QED
    BY <1>2, <2>1
<1> QED
  BY <1>1, <1>3, <1>4, <1>5 DEF ExactInv

(***************************************************************************)
(* Requests that are in flight together have met, and a request whose puts *)
(* outlive its error has lost one of them.                                 *)
(***************************************************************************)
LEMMA StepMet == TypeOK /\ MetInv /\ [Next]_vars => MetInv'
<1> SUFFICES ASSUME TypeOK, MetInv, [Next]_vars
             PROVE  MetInv'
  OBVIOUS
<1>1. ASSUME met' = met, \A q \in Requests : InFlight(q)' => InFlight(q)
      PROVE  OverlapIsMet'
  BY <1>1 DEF MetInv, OverlapIsMet
<1>2. ASSUME lost \subseteq lost',
             \A q \in Requests : step'[q] = "error" /\ left'[q] # {} =>
               q \in lost' \/ (step[q] = "error" /\ left[q] # {})
      PROVE  LostWhenPutsStay'
  BY <1>2 DEF MetInv, LostWhenPutsStay
<1>3. CASE UNCHANGED vars \/ Tick
  BY <1>1, <1>2, <1>3 DEF vars, Tick, InFlight, MetInv
<1>4. ASSUME NEW r \in Requests,
             \/ DailyBlocks(r) \/ PassExempt(r) \/ ReadFails(r) \/ Refuse(r)
             \/ Admit(r)
             \/ \E s \in Scopes : ReadCounter(r, s) \/ PutCounter(r, s) \/ PutFails(r, s)
      PROVE  MetInv'
  <2>1. \A q \in Requests : q # r => step'[q] = step[q] /\ left'[q] = left[q]
    BY <1>4 DEF DailyBlocks, PassExempt, ReadFails, Refuse, Admit, ReadCounter,
                PutCounter, PutFails, TypeOK
  <2>2. met' = met /\ lost \subseteq lost'
    BY <1>4 DEF DailyBlocks, PassExempt, ReadFails, Refuse, Admit, ReadCounter,
                PutCounter, PutFails
  <2>3. InFlight(r)' => InFlight(r)
    BY <1>4 DEF DailyBlocks, PassExempt, ReadFails, Refuse, Admit, ReadCounter,
                PutCounter, PutFails, TypeOK, InFlight
  <2>4. step'[r] = "error" /\ left'[r] # {} =>
          r \in lost' \/ (step[r] = "error" /\ left[r] # {})
    BY <1>4 DEF DailyBlocks, PassExempt, ReadFails, Refuse, Admit, ReadCounter,
                PutCounter, PutFails, TypeOK
  <2>5. \A q \in Requests : InFlight(q)' => InFlight(q)
    BY <2>1, <2>3 DEF InFlight
  <2> QED
    BY <1>1, <1>2, <2>1, <2>2, <2>4, <2>5 DEF MetInv
<1>5. ASSUME NEW r \in Requests, Begin(r)
      PROVE  MetInv'
  <2>1. /\ \A q \in Requests : q # r => step'[q] = step[q] /\ left'[q] = left[q]
        /\ step'[r] = "reading" /\ lost' = lost /\ met \subseteq met'
        /\ \A q \in Requests : InFlight(q) => <<q, r>> \in met' /\ <<r, q>> \in met'
    BY <1>5 DEF Begin, TypeOK
  <2>2. OverlapIsMet'
    BY <2>1 DEF MetInv, OverlapIsMet, InFlight
  <2> QED
    BY <1>2, <2>1, <2>2 DEF MetInv
<1> QED
  BY <1>3, <1>4, <1>5 DEF Next

(***************************************************************************)
(* Who was let through stays so: when the requests let through under a key *)
(* are serial after a step, they were before it.                           *)
(***************************************************************************)
LEMMA WritersStay ==
  ASSUME TypeOK, [Next]_vars
  PROVE  /\ met \subseteq met'
         /\ \A r \in Requests, k \in Keys, w \in Windows :
              /\ Wrote(r, k, w) => Wrote(r, k, w)'
              /\ Alone(r, k, w)' => Alone(r, k, w)
         /\ \A k \in Keys, w \in Windows : SerialWriters(k, w)' => SerialWriters(k, w)
<1>1. met \subseteq met' /\ lost \subseteq lost' /\ repo' = repo
  BY DEF Next, vars, Tick, DailyBlocks, PassExempt, Begin, ReadFails, Refuse, Admit,
         ReadCounter, PutCounter, PutFails
<1>2. \A r \in Requests : step[r] \in {"writing", "passed", "error"} =>
        step'[r] \in {"writing", "passed", "error"} /\ at'[r] = at[r]
  <2> SUFFICES ASSUME NEW r \in Requests, step[r] \in {"writing", "passed", "error"}
               PROVE  step'[r] \in {"writing", "passed", "error"} /\ at'[r] = at[r]
    OBVIOUS
  <2>1. CASE UNCHANGED vars \/ Tick
    BY <2>1 DEF vars, Tick
  <2>2. ASSUME NEW q \in Requests,
               \/ DailyBlocks(q) \/ PassExempt(q) \/ Begin(q)
               \/ ReadFails(q) \/ Refuse(q) \/ Admit(q)
        PROVE  step'[r] = step[r] /\ at'[r] = at[r]
    <3>1. q # r
      BY <2>2 DEF DailyBlocks, PassExempt, Begin, ReadFails, Refuse, Admit
    <3> QED
      BY <2>2, <3>1 DEF DailyBlocks, PassExempt, Begin, ReadFails, Refuse, Admit, TypeOK
  <2>3. ASSUME NEW q \in Requests, NEW s \in Scopes,
               ReadCounter(q, s) \/ PutCounter(q, s) \/ PutFails(q, s)
        PROVE  step'[r] \in {"writing", "passed", "error"} /\ at'[r] = at[r]
    BY <2>3 DEF ReadCounter, PutCounter, PutFails, TypeOK
  <2> QED
    BY <2>1, <2>2, <2>3 DEF Next
<1>3. \A r \in Requests, k \in Keys, w \in Windows :
        Wrote(r, k, w) => Wrote(r, k, w)'
  BY <1>1, <1>2 DEF Wrote, CountedIn
<1>4. \A r \in Requests, k \in Keys, w \in Windows :
        Alone(r, k, w)' => Alone(r, k, w)
  BY <1>1, <1>3 DEF Alone
<1>5. \A k \in Keys, w \in Windows : SerialWriters(k, w)' => SerialWriters(k, w)
  BY <1>1, <1>3, <1>4 DEF SerialWriters
<1> QED
  BY <1>1, <1>3, <1>4, <1>5

(***************************************************************************)
(* A step that lets nothing through, reads and puts nothing keeps the      *)
(* strengthening, if no request of a key whose writers stay serial leaves  *)
(* off putting.                                                            *)
(***************************************************************************)
LEMMA QuietExact ==
  ASSUME TypeOK, ExactInv, [Next]_vars,
         UNCHANGED <<counter, admitted, used, units>>,
         \A r \in Requests, s \in Scopes, k \in Keys, w \in Windows :
           /\ Putting(r, s, k, w)' => Putting(r, s, k, w)
           /\ SerialWriters(k, w)' /\ Putting(r, s, k, w) => Putting(r, s, k, w)'
           /\ HasRead(r, s, k, w)' => HasRead(r, s, k, w)
  PROVE  ExactInv'
<1>1. CounterIsExact'
  BY WritersStay DEF ExactInv, CounterIsExact
<1>2. PutIsExact'
  BY WritersStay DEF ExactInv, PutIsExact
<1>3. ReadIsExact'
  BY WritersStay DEF ExactInv, ReadIsExact
<1>4. WithinALimit'
  BY WritersStay DEF ExactInv, WithinALimit, Keys
<1> QED
  BY <1>1, <1>2, <1>3, <1>4 DEF ExactInv

(***************************************************************************)
(* A request that is admitted while the writers of its keys are serial met *)
(* none of them, so that it read what they were let through.               *)
(***************************************************************************)
LEMMA AdmitExact ==
  ASSUME TypeOK, MetInv, ExactInv, NEW r \in Requests, Admit(r)
  PROVE  ExactInv'
<1>0. /\ step[r] = "reading" /\ left[r] = {}
      /\ step'[r] = "writing" /\ left'[r] = Scopes
      /\ \A q \in Requests : q # r => step'[q] = step[q] /\ left'[q] = left[q]
      /\ UNCHANGED <<counter, repo, units, at, used, met, lost>>
  BY DEF Admit, TypeOK
<1>1. [Next]_vars
  BY DEF Next
<1>2. \A q \in Requests, s \in Scopes :
        /\ Key(repo[q], s) \in Keys /\ WindowOf(at[q]) \in Windows /\ repo[q] \in Repos
        /\ units[q] \in Nat /\ used[q][s] \in Nat /\ Limit[repo[q]][s] \in Nat
  BY CellType, LimitAssumption DEF TypeOK
<1>3. ASSUME NEW s \in Scopes, NEW k \in Keys, NEW w \in Windows,
             k = Key(repo[r], s), w = WindowOf(at[r])
      PROVE  Wrote(r, k, w)'
  BY <1>0, <1>3 DEF Wrote, CountedIn
<1>4. ASSUME NEW q \in Requests, q # r, InFlight(q)
      PROVE  <<q, r>> \in met /\ <<r, q>> \in met
  BY <1>0, <1>4 DEF MetInv, OverlapIsMet, InFlight
<1>5. ASSUME NEW s \in Scopes, NEW k \in Keys, NEW w \in Windows,
             k = Key(repo[r], s), w = WindowOf(at[r]), SerialWriters(k, w)'
      PROVE  /\ used[r][s] = admitted[k][w]
             /\ admitted'[k][w] = used[r][s] + units[r]
             /\ used[r][s] + units[r] <= Limit[repo[r]][s]
  <2>1. SerialWriters(k, w)
    BY <1>1, <1>5, WritersStay
  <2>2. Alone(r, k, w)'
    BY <1>3, <1>5 DEF SerialWriters
  <2>3. Alone(r, k, w)
    BY <1>1, <2>2, WritersStay
  <2>4. HasRead(r, s, k, w)
    BY <1>0, <1>5 DEF HasRead
  <2>5. used[r][s] = admitted[k][w]
    BY <2>1, <2>3, <2>4 DEF ExactInv, ReadIsExact
  <2>6. used[r][s] + units[r] <= Limit[repo[r]][s]
    BY <1>2 DEF Admit, WouldBlock
  <2> QED
    BY <1>5, <2>5, <2>6, AdmitGrows
<1>6. ASSUME NEW k \in Keys, NEW w \in Windows,
             ~(w = WindowOf(at[r]) /\ \E s \in Scopes : k = Key(repo[r], s))
      PROVE  admitted'[k][w] = admitted[k][w]
  BY <1>6, Zenon DEF Admit
<1>7. ASSUME NEW q \in Requests, NEW s \in Scopes, NEW k \in Keys, NEW w \in Windows,
             Putting(q, s, k, w)' \/ HasRead(q, s, k, w)', SerialWriters(k, w)', q # r
      PROVE  /\ Putting(q, s, k, w)' => Putting(q, s, k, w)
             /\ HasRead(q, s, k, w)' => HasRead(q, s, k, w)
             /\ Alone(q, k, w)' => admitted'[k][w] = admitted[k][w]
             /\ Putting(q, s, k, w)' => admitted'[k][w] = admitted[k][w]
  <2>1. /\ Putting(q, s, k, w)' => Putting(q, s, k, w)
        /\ HasRead(q, s, k, w)' => HasRead(q, s, k, w)
    BY <1>0, <1>7 DEF Putting, HasRead
  <2>2. InFlight(q)
    BY <1>7, <2>1 DEF Putting, HasRead, InFlight
  <2>3. <<q, r>> \in met' /\ <<r, q>> \in met'
    BY <1>0, <1>4, <1>7, <2>2
  <2>4. ASSUME w = WindowOf(at[r]), NEW t \in Scopes, k = Key(repo[r], t)
        PROVE  Wrote(r, k, w)'
    BY <1>3, <2>4
  <2>5. ASSUME Wrote(r, k, w)'
        PROVE  ~Alone(q, k, w)'
    BY <2>3, <2>5 DEF Alone
  <2>6. ASSUME Putting(q, s, k, w)'
        PROVE  Alone(q, k, w)'
    BY <1>7, <2>6 DEF Putting, Wrote, CountedIn, SerialWriters
  <2> QED
    BY <1>6, <2>1, <2>4, <2>5, <2>6
<1>8. CounterIsExact'
  <2> SUFFICES ASSUME NEW k \in Keys, NEW w \in Windows, SerialWriters(k, w)'
               PROVE  \/ counter'[k][w] = admitted'[k][w]
                      \/ \E q \in Requests, s \in Scopes : Putting(q, s, k, w)'
    BY DEF CounterIsExact
  <2>1. CASE w = WindowOf(at[r]) /\ \E s \in Scopes : k = Key(repo[r], s)
    BY <1>0, <2>1 DEF Putting
  <2>2. CASE ~(w = WindowOf(at[r]) /\ \E s \in Scopes : k = Key(repo[r], s))
    <3>1. counter[k][w] = admitted[k][w] \/ \E q \in Requests, s \in Scopes : Putting(q, s, k, w)
      BY <1>1, WritersStay DEF ExactInv, CounterIsExact
    <3>2. \A q \in Requests, s \in Scopes : Putting(q, s, k, w) => Putting(q, s, k, w)'
      BY <1>0 DEF Putting
    <3> QED
      BY <1>0, <1>6, <2>2, <3>1, <3>2
  <2> QED
    BY <2>1, <2>2
<1>9. PutIsExact'
  <2> SUFFICES ASSUME NEW k \in Keys, NEW w \in Windows, NEW q \in Requests, NEW s \in Scopes,
                      SerialWriters(k, w)', Putting(q, s, k, w)'
               PROVE  admitted'[k][w] = used[q][s] + units[q]
    BY <1>0 DEF PutIsExact
  <2>1. CASE q = r
    BY <1>0, <1>5, <2>1 DEF Putting
  <2>2. CASE q # r
    BY <1>1, <1>7, <2>2, WritersStay DEF ExactInv, PutIsExact
  <2> QED
    BY <2>1, <2>2
<1>10. ReadIsExact'
  <2> SUFFICES ASSUME NEW k \in Keys, NEW w \in Windows, NEW q \in Requests, NEW s \in Scopes,
                      SerialWriters(k, w)', HasRead(q, s, k, w)', Alone(q, k, w)'
               PROVE  used[q][s] = admitted'[k][w]
    BY <1>0 DEF ReadIsExact
  <2>1. q # r
    BY <1>0 DEF HasRead
  <2> QED
    BY <1>1, <1>7, <2>1, WritersStay DEF ExactInv, ReadIsExact
<1>11. WithinALimit'
  <2> SUFFICES ASSUME NEW a \in Repos, NEW s \in Scopes, NEW w \in Windows,
                      SerialWriters(Key(a, s), w)'
               PROVE  \E b \in Repos : /\ Key(b, s) = Key(a, s)
                                       /\ admitted'[Key(a, s)][w] <= Limit[b][s]
    BY DEF WithinALimit
  <2>0. Key(a, s) \in Keys
    BY DEF Keys
  <2>1. CASE w = WindowOf(at[r]) /\ \E t \in Scopes : Key(a, s) = Key(repo[r], t)
    <3>1. Key(a, s) = Key(repo[r], s)
      BY <1>2, <2>1, KeyHasOneScope
    <3>2. PICK k \in Keys : k = Key(a, s)
      BY <2>0
    <3>3. admitted'[k][w] <= Limit[repo[r]][s]
      BY <1>5, <2>1, <3>1, <3>2
    <3> QED
      BY <1>2, <3>1, <3>2, <3>3
  <2>2. CASE ~(w = WindowOf(at[r]) /\ \E t \in Scopes : Key(a, s) = Key(repo[r], t))
    BY <1>1, <1>6, <2>0, <2>2, WritersStay DEF ExactInv, WithinALimit
  <2> QED
    BY <2>1, <2>2
<1> QED
  BY <1>8, <1>9, <1>10, <1>11 DEF ExactInv

(***************************************************************************)
(* A request that gets a counter that another request is about to put met  *)
(* that request.                                                           *)
(***************************************************************************)
LEMMA ReadExact ==
  ASSUME TypeOK, MetInv, ExactInv,
         NEW r \in Requests, NEW s \in Scopes, ReadCounter(r, s)
  PROVE  ExactInv'
<1>0. /\ step[r] = "reading" /\ s \in left[r]
      /\ used'[r][s] = counter[Key(repo[r], s)][WindowOf(at[r])]
      /\ \A q \in Requests, t \in Scopes : <<q, t>> # <<r, s>> =>
           used'[q][t] = used[q][t] /\ (t \in left'[q] <=> t \in left[q])
      /\ UNCHANGED <<counter, admitted, step, repo, units, at, met, lost>>
  BY DEF ReadCounter, TypeOK
<1>1. [Next]_vars
  BY DEF Next
<1>2. ASSUME NEW q \in Requests, NEW t \in Scopes, NEW k \in Keys, NEW w \in Windows
      PROVE  /\ Putting(q, t, k, w)' <=> Putting(q, t, k, w)
             /\ Putting(q, t, k, w) => used'[q][t] = used[q][t]
             /\ HasRead(q, t, k, w)' /\ <<q, t>> # <<r, s>> =>
                  HasRead(q, t, k, w) /\ used'[q][t] = used[q][t]
  BY <1>0 DEF Putting, HasRead
<1>3. CounterIsExact' /\ PutIsExact' /\ WithinALimit'
  BY <1>0, <1>1, <1>2, WritersStay
     DEF ExactInv, CounterIsExact, PutIsExact, WithinALimit, Keys
<1>4. ReadIsExact'
  <2> SUFFICES ASSUME NEW k \in Keys, NEW w \in Windows, NEW q \in Requests, NEW t \in Scopes,
                      SerialWriters(k, w)', HasRead(q, t, k, w)', Alone(q, k, w)'
               PROVE  used'[q][t] = admitted[k][w]
    BY <1>0 DEF ReadIsExact
  <2>0. SerialWriters(k, w) /\ Alone(q, k, w)
    BY <1>1, WritersStay
  <2>1. CASE <<q, t>> # <<r, s>>
    BY <1>2, <2>0, <2>1 DEF ExactInv, ReadIsExact
  <2>2. CASE q = r /\ t = s
    <3>1. used'[q][t] = counter[k][w]
      BY <1>0, <2>2 DEF HasRead
    <3>2. ASSUME NEW p \in Requests, NEW u \in Scopes, Putting(p, u, k, w)
          PROVE  FALSE
      <4>1. p # r /\ InFlight(p) /\ InFlight(r) /\ Wrote(p, k, w)
        BY <1>0, <3>2 DEF Putting, InFlight, Wrote, CountedIn
      <4>2. <<r, p>> \in met
        BY <4>1 DEF MetInv, OverlapIsMet
      <4> QED
        BY <2>0, <2>2, <4>1, <4>2 DEF Alone
    <3> QED
      BY <2>0, <3>1, <3>2 DEF ExactInv, CounterIsExact
  <2> QED
    BY <2>1, <2>2
<1> QED
  BY <1>3, <1>4 DEF ExactInv

(***************************************************************************)
(* A put of a request that lost none makes the counter exact; a put that   *)
(* outlives an error, and a put that fails, is of a request that lost one. *)
(***************************************************************************)
LEMMA PutExact ==
  ASSUME TypeOK, MetInv, ExactInv, NEW r \in Requests, NEW s \in Scopes,
         PutCounter(r, s) \/ PutFails(r, s)
  PROVE  ExactInv'
<1>0. /\ step[r] \in {"writing", "error"} /\ s \in left[r]
      /\ left'[r] = left[r] \ {s} /\ step'[r] \in {"writing", "passed", "error"}
      /\ \A q \in Requests : q # r => step'[q] = step[q] /\ left'[q] = left[q]
      /\ UNCHANGED <<admitted, repo, units, at, used, met>>
  BY DEF PutCounter, PutFails, TypeOK
<1>1. [Next]_vars
  BY DEF Next
<1>2. ASSUME NEW q \in Requests, NEW t \in Scopes, NEW k \in Keys, NEW w \in Windows
      PROVE  /\ Putting(q, t, k, w)' => Putting(q, t, k, w)
             /\ HasRead(q, t, k, w)' => HasRead(q, t, k, w)
  <2>1. step'[r] = "writing" => step[r] = "writing"
    BY DEF PutCounter, PutFails, TypeOK
  <2> QED
    BY <1>0, <2>1 DEF Putting, HasRead
<1>3. PutIsExact' /\ ReadIsExact' /\ WithinALimit'
  <2>1. PutIsExact'
    BY <1>0, <1>1, <1>2, WritersStay DEF ExactInv, PutIsExact
  <2>2. ReadIsExact'
    BY <1>0, <1>1, <1>2, WritersStay DEF ExactInv, ReadIsExact
  <2>3. WithinALimit'
    BY <1>0, <1>1, WritersStay DEF ExactInv, WithinALimit, Keys
  <2> QED
    BY <2>1, <2>2, <2>3
<1>4. CounterIsExact'
  <2> SUFFICES ASSUME NEW k \in Keys, NEW w \in Windows, SerialWriters(k, w)',
                      \A q \in Requests, t \in Scopes : ~Putting(q, t, k, w)'
               PROVE  counter'[k][w] = admitted[k][w]
    BY <1>0 DEF CounterIsExact
  <2>0. /\ SerialWriters(k, w)
        /\ \/ counter[k][w] = admitted[k][w]
           \/ \E q \in Requests, t \in Scopes : Putting(q, t, k, w)
    BY <1>1, WritersStay DEF ExactInv, CounterIsExact
  <2>1. ASSUME w = WindowOf(at[r]), NEW t \in Scopes, k = Key(repo[r], t)
        PROVE  PutCounter(r, s) /\ step[r] = "writing"
    <3>1. Wrote(r, k, w)'
      BY <1>0, <2>1 DEF Wrote, CountedIn
    <3>2. r \notin lost'
      BY <3>1 DEF SerialWriters
    <3>3. ~PutFails(r, s)
      BY <3>2 DEF PutFails
    <3>4. lost' = lost /\ PutCounter(r, s)
      BY <3>3 DEF PutCounter
    <3> QED
      BY <1>0, <3>2, <3>4 DEF MetInv, LostWhenPutsStay
  <2>2. CASE k = Key(repo[r], s) /\ w = WindowOf(at[r])
    <3>1. PutCounter(r, s) /\ Putting(r, s, k, w)
      BY <1>0, <2>1, <2>2 DEF Putting
    <3>2. counter'[k][w] = used[r][s] + units[r]
      BY <2>2, <3>1 DEF PutCounter, TypeOK
    <3> QED
      BY <2>0, <3>1, <3>2 DEF ExactInv, PutIsExact
  <2>3. CASE ~(k = Key(repo[r], s) /\ w = WindowOf(at[r]))
    <3>1. counter'[k][w] = counter[k][w]
      <4>1. CASE PutCounter(r, s)
        BY <2>3, <4>1, CellType DEF PutCounter, TypeOK
      <4>2. CASE PutFails(r, s)
        BY <4>2 DEF PutFails
      <4> QED
        BY <4>1, <4>2
    <3>2. ASSUME NEW q \in Requests, NEW t \in Scopes, Putting(q, t, k, w)
          PROVE  FALSE
      <4>1. q = r
        BY <1>0, <3>2 DEF Putting
      <4>2. w = WindowOf(at[r]) /\ k = Key(repo[r], t) /\ t \in left[r]
        BY <3>2, <4>1 DEF Putting
      <4>3. PutCounter(r, s) /\ step[r] = "writing" /\ t # s
        BY <2>1, <2>3, <4>2
      <4>4. step'[r] = "writing" /\ t \in left'[r]
        BY <1>0, <4>2, <4>3 DEF PutCounter, TypeOK
      <4>5. Putting(r, t, k, w)'
        BY <1>0, <4>2, <4>4 DEF Putting
      <4> QED
        BY <4>5
    <3> QED
      BY <2>0, <3>1, <3>2
  <2> QED
    BY <2>2, <2>3
<1> QED
  BY <1>3, <1>4 DEF ExactInv

(***************************************************************************)
(* Every step keeps the strengthening.                                     *)
(***************************************************************************)
LEMMA StepExact == TypeOK /\ MetInv /\ ExactInv /\ [Next]_vars => ExactInv'
<1> SUFFICES ASSUME TypeOK, MetInv, ExactInv, [Next]_vars
             PROVE  ExactInv'
  OBVIOUS
<1>1. CASE UNCHANGED vars \/ Tick
  BY <1>1, QuietExact DEF vars, Tick, Putting, HasRead
<1>2. ASSUME NEW r \in Requests,
             \/ DailyBlocks(r) \/ PassExempt(r) \/ Begin(r)
             \/ ReadFails(r) \/ Refuse(r)
      PROVE  ExactInv'
  <2>1. /\ \A q \in Requests : q # r =>
             step'[q] = step[q] /\ left'[q] = left[q] /\ at'[q] = at[q]
        /\ UNCHANGED <<counter, admitted, used, units, repo>>
    BY <1>2 DEF DailyBlocks, PassExempt, Begin, ReadFails, Refuse, TypeOK
  <2>2. /\ step[r] # "writing" /\ step'[r] # "writing"
        /\ step'[r] = "reading" => left'[r] = Scopes
    BY <1>2 DEF DailyBlocks, PassExempt, Begin, ReadFails, Refuse, TypeOK
  <2> QED
    BY <2>1, <2>2, QuietExact DEF Putting, HasRead
<1> QED
  BY <1>1, <1>2, AdmitExact, ReadExact, PutExact DEF Next

(***************************************************************************)
(* What a window lets through exceeds the limits only when requests race   *)
(* each other's get and put or a put is lost.                              *)
(***************************************************************************)
THEOREM SerialRequestsAreLimited == Spec => []SerialRequestsKeepLimit
<1>1. Init => TypeOK /\ MetInv /\ ExactInv
  BY InitType, InitExact
<1>2. TypeOK /\ MetInv /\ ExactInv /\ [Next]_vars => (TypeOK /\ MetInv /\ ExactInv)'
  BY StepType, StepMet, StepExact
<1>3. ExactInv => SerialRequestsKeepLimit
  <2>1. \A k \in Keys, w \in Windows : OneByOne(k, w) => SerialWriters(k, w)
    BY DEF OneByOne, SerialWriters, Wrote, Alone
  <2> QED
    BY <2>1 DEF ExactInv, WithinALimit, SerialRequestsKeepLimit, Keys
<1> QED
  BY <1>1, <1>2, <1>3, PTL DEF Spec

-----------------------------------------------------------------------------
(* DailyLimits. *)

VARIABLES account, day, read, verdict, collect, merged, cleaning

D == INSTANCE DailyLimits WITH step <- account


(***************************************************************************)
(* The hours of the clock lie in its days, and the next day begins at a    *)
(* number of hours.                                                        *)
(***************************************************************************)
LEMMA DayType == /\ \A h \in D!Hours : D!DayOf(h) \in D!Days
                 /\ \A h \in Nat : D!NextDay(h) \in Nat
                 /\ 0 \in D!Hours
                 /\ D!Hours \subseteq Nat
<1>1. \A h \in D!Hours : D!DayOf(h) \in D!Days
  BY DEF D!Days
<1>2. ASSUME NEW h \in Nat
      PROVE  D!NextDay(h) \in Nat
  <2>1. D!DayOf(h) \in Nat
    BY DayAssumption DEF D!DayOf
  <2> QED
    BY <2>1, DayAssumption DEF D!NextDay
<1>3. 0 \in D!Hours /\ D!Hours \subseteq Nat
  BY DayAssumption DEF D!Hours
<1> QED
  BY <1>1, <1>2, <1>3

AccountSteps == {"idle", "refused", "clear", "serve", "get", "put", "check",
          "suspend", "done"}

Stages == {"due", "query", "list", "get", "put", "judge", "done", "failed"}

(***************************************************************************)
(* Nothing is recorded, collected or suspended.                            *)
(***************************************************************************)
LEMMA DailyInitType == D!Init => D!TypeOK
<1> SUFFICES ASSUME D!Init
             PROVE  D!TypeOK
  OBVIOUS
<1>1. D!Empty \in D!Rollup
  BY DEF D!Empty, D!Rollup
<1>2. D!DayOf(0) \in D!Days /\ 0 \in D!Hours
  BY DayType
<1>3. hour \in D!Hours /\ suspension \in D!Suspension \cup {Never} /\ cleaning \in BOOLEAN
  BY <1>2 DEF D!Init
<1>4. daily \in [D!Days -> D!Rollup] /\ hourly \in [D!Days -> Nat] /\ recorded \in [D!Days -> Nat]
  BY <1>1 DEF D!Init
<1>5. /\ account \in [Requests -> AccountSteps] /\ day \in [Requests -> D!Days]
      /\ read \in [Requests -> D!Rollup]
      /\ verdict \in [Requests -> D!Suspension \cup {Never}]
  BY <1>1, <1>2 DEF D!Init, AccountSteps
<1>6. collect \in [D!Hours -> Stages] /\ merged \in [D!Hours -> D!Rollup]
  BY <1>1 DEF D!Init, Stages
<1> QED
  BY <1>3, <1>4, <1>5, <1>6 DEF D!TypeOK, AccountSteps, Stages

(***************************************************************************)
(* A request and its accounting keep the types.                            *)
(***************************************************************************)
LEMMA AccountType ==
  ASSUME D!TypeOK, NEW r \in Requests, D!Account(r)
  PROVE  D!TypeOK'
<1>0. /\ account \in [Requests -> AccountSteps] /\ day \in [Requests -> D!Days]
      /\ read \in [Requests -> D!Rollup] /\ D!DayOf(hour) \in D!Days /\ hour \in Nat
  BY DayType DEF D!TypeOK, AccountSteps
<1>1. account' \in [Requests -> AccountSteps]
  BY <1>0 DEF D!Account, D!Enforce, D!ClearExpired, D!Answer, D!RecordGet, D!RecordPut,
              D!RecordFails, D!Check, D!Suspend, D!AccountingFails, D!Goto, AccountSteps
<1>2. day' \in [Requests -> D!Days]
  BY <1>0 DEF D!Account, D!Enforce, D!ClearExpired, D!Answer, D!RecordGet, D!RecordPut,
              D!RecordFails, D!Check, D!Suspend, D!AccountingFails
<1>3. CASE D!Enforce(r) \/ D!Answer(r) \/ D!RecordFails(r) \/ D!AccountingFails(r)
  BY <1>1, <1>2, <1>3 DEF D!Enforce, D!Answer, D!RecordFails, D!AccountingFails,
                          D!TypeOK, AccountSteps
<1>4. CASE D!ClearExpired(r)
  BY <1>1, <1>2, <1>4 DEF D!ClearExpired, D!TypeOK, AccountSteps
<1>5. CASE D!RecordGet(r)
  <2>1. read' \in [Requests -> D!Rollup]
    BY <1>0, <1>5 DEF D!RecordGet, D!TypeOK
  <2> QED
    BY <1>1, <1>2, <1>5, <2>1 DEF D!RecordGet, D!TypeOK, AccountSteps
<1>6. CASE D!RecordPut(r)
  <2>1. [read[r] EXCEPT !.requests = @ + 1] \in D!Rollup
    BY <1>0 DEF D!Rollup
  <2>2. daily' \in [D!Days -> D!Rollup]
    BY <1>0, <1>6, <2>1 DEF D!RecordPut, D!TypeOK
  <2>3. recorded' \in [D!Days -> Nat]
    BY <1>0, <1>6 DEF D!RecordPut, D!TypeOK
  <2> QED
    BY <1>1, <1>2, <1>6, <2>2, <2>3 DEF D!RecordPut, D!TypeOK, AccountSteps
<1>7. CASE D!Check(r)
  <2>1. D!NextDay(hour) \in Nat /\ hour + 1 \in Nat
    BY <1>0, DayType
  <2>2. verdict' \in [Requests -> D!Suspension \cup {Never}]
    BY <1>0, <1>7, <2>1 DEF D!Check, D!TypeOK, D!Suspension
  <2> QED
    BY <1>1, <1>2, <1>7, <2>2 DEF D!Check, D!TypeOK, AccountSteps
<1>8. CASE D!Suspend(r)
  <2>1. suspension' \in D!Suspension \cup {Never}
    BY <1>8 DEF D!Suspend, D!TypeOK
  <2> QED
    BY <1>1, <1>2, <1>8, <2>1 DEF D!Suspend, D!TypeOK, AccountSteps
<1> QED
  BY <1>3, <1>4, <1>5, <1>6, <1>7, <1>8 DEF D!Account

(***************************************************************************)
(* A collection keeps the types.                                           *)
(***************************************************************************)
LEMMA CollectType ==
  ASSUME D!TypeOK, NEW h \in D!Hours, D!Collect(h)
  PROVE  D!TypeOK'
<1>0. /\ collect \in [D!Hours -> Stages] /\ merged \in [D!Hours -> D!Rollup]
      /\ D!DayOf(h) \in D!Days /\ h \in Nat
      /\ hourly[D!DayOf(h)] \in Nat /\ daily[D!DayOf(h)] \in D!Rollup
  BY DayType DEF D!TypeOK, Stages
<1>1. collect' \in [D!Hours -> Stages]
  BY <1>0 DEF D!Collect, D!Lock, D!StoreHour, D!ListHours, D!MergeGet, D!MergePut, D!Judge,
              D!CollectFails, Stages
<1>2. CASE D!Lock(h) \/ D!CollectFails(h)
  BY <1>1, <1>2 DEF D!Lock, D!CollectFails, D!TypeOK, Stages
<1>3. ASSUME NEW n \in 0..MaxResource, D!StoreHour(h, n)
      PROVE  D!TypeOK'
  <2>1. hourly[D!DayOf(h)] + n \in Nat
    BY <1>0, CapAssumption
  <2>2. hourly' \in [D!Days -> Nat]
    BY <1>0, <1>3, <2>1 DEF D!StoreHour, D!TypeOK
  <2> QED
    BY <1>1, <1>3, <2>2 DEF D!StoreHour, D!TypeOK, Stages
<1>4. CASE D!ListHours(h)
  <2>1. merged' \in [D!Hours -> D!Rollup]
    BY <1>0, <1>4 DEF D!ListHours, D!Rollup
  <2> QED
    BY <1>1, <1>4, <2>1 DEF D!ListHours, D!TypeOK, Stages
<1>5. CASE D!MergeGet(h)
  <2>1. merged' \in [D!Hours -> D!Rollup]
    BY <1>0, <1>5 DEF D!MergeGet, D!Rollup
  <2> QED
    BY <1>1, <1>5, <2>1 DEF D!MergeGet, D!TypeOK, Stages
<1>6. CASE D!MergePut(h)
  <2>1. daily' \in [D!Days -> D!Rollup]
    BY <1>0, <1>6 DEF D!MergePut, D!TypeOK
  <2> QED
    BY <1>1, <1>6, <2>1 DEF D!MergePut, D!TypeOK, Stages
<1>7. CASE D!Judge(h)
  <2>1. D!NextDay(h + 1) \in Nat
    BY <1>0, DayType
  <2>2. suspension' \in D!Suspension \cup {Never}
    BY <1>0, <1>7, <2>1 DEF D!Judge, D!Suspension
  <2> QED
    BY <1>1, <1>7, <2>2 DEF D!Judge, D!TypeOK, Stages
<1> QED
  BY <1>2, <1>3, <1>4, <1>5, <1>6, <1>7 DEF D!Collect

(***************************************************************************)
(* Every account keeps the types.                                             *)
(***************************************************************************)
LEMMA DailyStepType == D!TypeOK /\ [D!Next]_D!vars => D!TypeOK'
<1> SUFFICES ASSUME D!TypeOK, [D!Next]_D!vars
             PROVE  D!TypeOK'
  OBVIOUS
<1>1. CASE UNCHANGED D!vars
  BY <1>1 DEF D!vars, D!TypeOK
<1>2. CASE D!CleanupGet \/ D!CleanupDelete
  BY <1>2 DEF D!CleanupGet, D!CleanupDelete, D!TypeOK
<1>3. CASE D!BurstEnds
  <2>1. suspension \in D!Suspension /\ hour \in Nat
    BY <1>3, DayType DEF D!BurstEnds, D!InForce, D!TypeOK
  <2>2. suspension' \in D!Suspension
    BY <1>3, <2>1 DEF D!BurstEnds, D!Suspension
  <2> QED
    BY <1>3, <2>2 DEF D!BurstEnds, D!TypeOK
<1>4. CASE D!Tick
  BY <1>4, DayAssumption DEF D!Tick, D!TypeOK, D!Hours
<1> QED
  BY <1>1, <1>2, <1>3, <1>4, AccountType, CollectType DEF D!Next

(***************************************************************************)
(* The variables of DailyLimits keep their types.                          *)
(***************************************************************************)
THEOREM DailyTypeCorrect == D!Spec => []D!TypeOK
  BY DailyInitType, DailyStepType, PTL DEF D!Spec

-----------------------------------------------------------------------------

(***************************************************************************)
(* The strengthening.  A rollup held by a request or by the collector was  *)
(* sound when it was read, and stays so, since what was used only grows.   *)
(* A suspension that is stored or about to be was decided on such a rollup.*)
(***************************************************************************)
Sound(m, d, made, polled) == m.requests <= made[d] /\ m.resource <= polled[d]

ReallyUsed(d, made, polled) == \/ made[d] + 1 > RequestLimit
                              \/ polled[d] > ResourceLimit

Deserved(s, made, polled) ==
  s # Never /\ s.cap = "daily" => ReallyUsed(s.of, made, polled)

DailySound == \A d \in D!Days : Sound(daily[d], d, recorded, hourly)
ReadSound == \A r \in Requests :
               account[r] = "put" => Sound(read[r], day[r], recorded, hourly)
MergedSound == \A h \in D!Hours : Sound(merged[h], D!DayOf(h), recorded, hourly)
VerdictDeserved == \A r \in Requests : Deserved(verdict[r], recorded, hourly)
SuspensionDeserved == Deserved(suspension, recorded, hourly)

UseInv == /\ DailySound /\ ReadSound /\ MergedSound
          /\ VerdictDeserved /\ SuspensionDeserved

(***************************************************************************)
(* Empty rollups are sound, and no suspension is decided.                  *)
(***************************************************************************)
LEMMA InitUse == D!Init => UseInv
<1> SUFFICES ASSUME D!Init
             PROVE  UseInv
  OBVIOUS
<1>1. \A d \in D!Days : Sound(D!Empty, d, recorded, hourly)
  BY DEF D!Init, Sound, D!Empty
<1>2. DailySound /\ MergedSound
  BY <1>1, DayType DEF D!Init, DailySound, MergedSound
<1>3. ReadSound
  BY DEF D!Init, ReadSound
<1>4. VerdictDeserved /\ SuspensionDeserved
  BY DEF D!Init, VerdictDeserved, SuspensionDeserved, Deserved
<1> QED
  BY <1>2, <1>3, <1>4 DEF UseInv

(***************************************************************************)
(* What was used on a day never shrinks.                                   *)
(***************************************************************************)
UseGrows == \A d \in D!Days : recorded[d] <= recorded'[d] /\ hourly[d] <= hourly'[d]

\* Use is never taken back.
LEMMA StepGrows == D!TypeOK /\ [D!Next]_D!vars => UseGrows
<1> SUFFICES ASSUME D!TypeOK, [D!Next]_D!vars, NEW d \in D!Days
             PROVE  recorded[d] <= recorded'[d] /\ hourly[d] <= hourly'[d]
  BY DEF UseGrows
<1>0. recorded[d] \in Nat /\ hourly[d] \in Nat
  BY DEF D!TypeOK
<1>1. ASSUME NEW r \in Requests, D!RecordPut(r)
      PROVE  recorded[d] <= recorded'[d] /\ hourly[d] <= hourly'[d]
  BY <1>0, <1>1 DEF D!RecordPut, D!TypeOK
<1>2. ASSUME NEW h \in D!Hours, NEW n \in 0..MaxResource, D!StoreHour(h, n)
      PROVE  recorded[d] <= recorded'[d] /\ hourly[d] <= hourly'[d]
  BY <1>0, <1>2, CapAssumption DEF D!StoreHour, D!TypeOK
<1>3. CASE recorded' = recorded /\ hourly' = hourly
  BY <1>0, <1>3
<1>4. ASSUME NEW r \in Requests, D!Account(r), ~D!RecordPut(r)
      PROVE  recorded' = recorded /\ hourly' = hourly
  BY <1>4 DEF D!Account, D!Enforce, D!ClearExpired, D!Answer, D!RecordGet, D!RecordFails,
              D!Check, D!Suspend, D!AccountingFails
<1>5. ASSUME NEW h \in D!Hours, D!Collect(h),
             ~\E n \in 0..MaxResource : D!StoreHour(h, n)
      PROVE  recorded' = recorded /\ hourly' = hourly
  BY <1>5 DEF D!Collect, D!Lock, D!ListHours, D!MergeGet, D!MergePut, D!Judge, D!CollectFails
<1>6. CASE UNCHANGED D!vars \/ D!CleanupGet \/ D!CleanupDelete \/ D!BurstEnds \/ D!Tick
  BY <1>3, <1>6 DEF D!vars, D!CleanupGet, D!CleanupDelete, D!BurstEnds, D!Tick
<1> QED
  BY <1>1, <1>2, <1>3, <1>4, <1>5, <1>6 DEF D!Next

(***************************************************************************)
(* What was sound stays sound, and what was deserved stays deserved.       *)
(***************************************************************************)
LEMMA SoundStays ==
  ASSUME D!TypeOK, D!TypeOK', UseGrows
  PROVE  /\ \A m \in D!Rollup, d \in D!Days :
              Sound(m, d, recorded, hourly) => Sound(m, d, recorded', hourly')
         /\ \A s \in D!Suspension \cup {Never} :
              Deserved(s, recorded, hourly) => Deserved(s, recorded', hourly')
<1>0. \A d \in D!Days : /\ recorded[d] \in Nat /\ recorded'[d] \in Nat
                      /\ hourly[d] \in Nat /\ hourly'[d] \in Nat
                      /\ recorded[d] <= recorded'[d] /\ hourly[d] <= hourly'[d]
  BY DEF D!TypeOK, UseGrows
<1>1. ASSUME NEW m \in D!Rollup, NEW d \in D!Days, Sound(m, d, recorded, hourly)
      PROVE  Sound(m, d, recorded', hourly')
  BY <1>0, <1>1 DEF Sound, D!Rollup
<1>2. ASSUME NEW d \in D!Days, ReallyUsed(d, recorded, hourly)
      PROVE  ReallyUsed(d, recorded', hourly')
  BY <1>0, <1>2, CapAssumption DEF ReallyUsed
<1>3. \A s \in D!Suspension \cup {Never} : s # Never => s.of \in D!Days
  BY DEF D!Suspension
<1> QED
  BY <1>1, <1>2, <1>3 DEF Deserved

(***************************************************************************)
(* The part of the strengthening that a account leaves alone is kept by it.   *)
(***************************************************************************)
LEMMA UseStays ==
  ASSUME D!TypeOK, D!TypeOK', UseInv, UseGrows
  PROVE  /\ daily' = daily => DailySound'
         /\ merged' = merged => MergedSound'
         /\ verdict' = verdict => VerdictDeserved'
         /\ suspension' \in {suspension, Never} => SuspensionDeserved'
         /\ \A r \in Requests :
              account'[r] = "put" /\ account[r] = "put"
                /\ read'[r] = read[r] /\ day'[r] = day[r]
              => Sound(read'[r], day'[r], recorded', hourly')
<1>1. /\ \A d \in D!Days : daily[d] \in D!Rollup
      /\ \A h \in D!Hours : merged[h] \in D!Rollup /\ D!DayOf(h) \in D!Days
      /\ \A q \in Requests : read[q] \in D!Rollup /\ day[q] \in D!Days
      /\ \A q \in Requests : verdict[q] \in D!Suspension \cup {Never}
      /\ suspension \in D!Suspension \cup {Never}
  BY DayType DEF D!TypeOK
<1>2. ASSUME daily' = daily
      PROVE  DailySound'
  BY <1>1, <1>2, SoundStays DEF UseInv, DailySound
<1>3. ASSUME merged' = merged
      PROVE  MergedSound'
  BY <1>1, <1>3, SoundStays DEF UseInv, MergedSound
<1>4. ASSUME verdict' = verdict
      PROVE  VerdictDeserved'
  BY <1>1, <1>4, SoundStays DEF UseInv, VerdictDeserved
<1>5. ASSUME suspension' \in {suspension, Never}
      PROVE  SuspensionDeserved'
  <2>1. CASE suspension' = suspension
    BY <1>1, <2>1, SoundStays DEF UseInv, SuspensionDeserved
  <2>2. CASE suspension' = Never
    BY <2>2 DEF SuspensionDeserved, Deserved
  <2> QED
    BY <1>5, <2>1, <2>2
<1>6. ASSUME NEW r \in Requests, account'[r] = "put", account[r] = "put",
             read'[r] = read[r], day'[r] = day[r]
      PROVE  Sound(read'[r], day'[r], recorded', hourly')
  BY <1>1, <1>6, SoundStays DEF UseInv, ReadSound
<1> QED
  BY <1>2, <1>3, <1>4, <1>5, <1>6

(***************************************************************************)
(* The accounting of a request keeps the strengthening.  The request that  *)
(* puts a rollup adds one to what it read and is itself recorded; the one  *)
(* that decides a suspension does so on a rollup that is sound.            *)
(***************************************************************************)
LEMMA AccountUse ==
  ASSUME D!TypeOK, D!TypeOK', UseInv, UseGrows, NEW r \in Requests, D!Account(r)
  PROVE  UseInv'
<1>0. /\ account \in [Requests -> AccountSteps] /\ day \in [Requests -> D!Days]
      /\ read \in [Requests -> D!Rollup] /\ daily \in [D!Days -> D!Rollup]
      /\ recorded \in [D!Days -> Nat] /\ hourly \in [D!Days -> Nat]
      /\ verdict \in [Requests -> D!Suspension \cup {Never}]
  BY DEF D!TypeOK, AccountSteps
<1>1. MergedSound'
  <2>1. merged' = merged
    BY DEF D!Account, D!Enforce, D!ClearExpired, D!Answer, D!RecordGet, D!RecordPut,
           D!RecordFails, D!Check, D!Suspend, D!AccountingFails
  <2> QED
    BY <2>1, UseStays
<1>2. DailySound'
  <2>1. CASE daily' = daily
    BY <2>1, UseStays
  <2>2. CASE D!RecordPut(r)
    <3>1. Sound(read[r], day[r], recorded, hourly) /\ hourly' = hourly
      BY <2>2 DEF D!RecordPut, UseInv, ReadSound
    <3>2. /\ daily'[day[r]].requests = read[r].requests + 1
          /\ daily'[day[r]].resource = read[r].resource
          /\ recorded'[day[r]] = recorded[day[r]] + 1
      BY <1>0, <2>2 DEF D!RecordPut, D!Rollup
    <3>3. Sound(daily'[day[r]], day[r], recorded', hourly')
      <4>1. read[r].requests \in Nat /\ recorded[day[r]] \in Nat
        BY <1>0 DEF D!Rollup
      <4> QED
        BY <3>1, <3>2, <4>1 DEF Sound
    <3>4. \A d \in D!Days : d # day[r] => daily'[d] = daily[d]
      BY <1>0, <2>2 DEF D!RecordPut
    <3>5. \A d \in D!Days : Sound(daily[d], d, recorded', hourly')
      BY <1>0, SoundStays DEF UseInv, DailySound
    <3> QED
      BY <3>3, <3>4, <3>5 DEF DailySound
  <2>3. daily' = daily \/ D!RecordPut(r)
    BY DEF D!Account, D!Enforce, D!ClearExpired, D!Answer, D!RecordGet, D!RecordFails,
           D!Check, D!Suspend, D!AccountingFails
  <2> QED
    BY <2>1, <2>2, <2>3
<1>3. ReadSound'
  <2> SUFFICES ASSUME NEW q \in Requests, account'[q] = "put"
               PROVE  Sound(read'[q], day'[q], recorded', hourly')
    BY DEF ReadSound
  <2>1. CASE q = r
    <3>1. D!RecordGet(r)
      BY <1>0, <2>1 DEF D!Account, D!Enforce, D!ClearExpired, D!Answer, D!RecordGet,
         D!RecordPut, D!RecordFails, D!Check, D!Suspend, D!AccountingFails, D!Goto
    <3>2. /\ read'[r] = daily[day[r]] /\ day'[r] = day[r]
          /\ recorded' = recorded /\ hourly' = hourly
      BY <1>0, <3>1 DEF D!RecordGet
    <3> QED
      BY <1>0, <2>1, <3>2 DEF UseInv, DailySound
  <2>2. CASE q # r
    <3>1. account[q] = "put" /\ read'[q] = read[q] /\ day'[q] = day[q]
      BY <1>0, <2>2 DEF D!Account, D!Enforce, D!ClearExpired, D!Answer, D!RecordGet,
         D!RecordPut, D!RecordFails, D!Check, D!Suspend, D!AccountingFails, D!Goto
    <3> QED
      BY <3>1, UseStays
  <2> QED
    BY <2>1, <2>2
<1>4. VerdictDeserved'
  <2>1. CASE verdict' = verdict
    BY <2>1, UseStays
  <2>2. CASE D!Check(r)
    <3>1. recorded' = recorded /\ hourly' = hourly /\ day[r] \in D!Days
      BY <1>0, <2>2 DEF D!Check
    <3>2. ASSUME D!UsedUp(r)
          PROVE  ReallyUsed(day[r], recorded, hourly)
      <4>1. /\ daily[day[r]].requests <= recorded[day[r]]
            /\ daily[day[r]].requests \in Nat /\ recorded[day[r]] \in Nat
        BY <1>0, <3>1 DEF UseInv, DailySound, Sound, D!Rollup
      <4> QED
        BY <3>2, <4>1, CapAssumption DEF D!UsedUp, ReallyUsed
    <3>3. \/ verdict' = verdict
          \/ D!UsedUp(r) /\ verdict'[r].of = day[r]
          \/ verdict'[r].cap # "daily"
      BY <1>0, <2>2 DEF D!Check
    <3>4. Deserved(verdict'[r], recorded', hourly')
      BY <3>1, <3>2, <3>3 DEF Deserved, UseInv, VerdictDeserved
    <3>5. \A q \in Requests : q # r => verdict'[q] = verdict[q]
      BY <1>0, <2>2 DEF D!Check
    <3> QED
      BY <3>1, <3>4, <3>5 DEF UseInv, VerdictDeserved
  <2>3. verdict' = verdict \/ D!Check(r)
    BY DEF D!Account, D!Enforce, D!ClearExpired, D!Answer, D!RecordGet, D!RecordPut,
           D!RecordFails, D!Suspend, D!AccountingFails
  <2> QED
    BY <2>1, <2>2, <2>3
<1>5. SuspensionDeserved'
  <2>1. CASE suspension' \in {suspension, Never}
    BY <2>1, UseStays
  <2>2. CASE D!Suspend(r)
    BY <2>2 DEF D!Suspend, UseInv, VerdictDeserved, SuspensionDeserved
  <2>3. suspension' \in {suspension, Never} \/ D!Suspend(r)
    BY DEF D!Account, D!Enforce, D!ClearExpired, D!Answer, D!RecordGet, D!RecordPut,
           D!RecordFails, D!Check, D!AccountingFails
  <2> QED
    BY <2>1, <2>2, <2>3
<1> QED
  BY <1>1, <1>2, <1>3, <1>4, <1>5 DEF UseInv

(***************************************************************************)
(* A collection keeps the strengthening: it lists units that are in the    *)
(* hourly records and gets requests that are in the rollup.                *)
(***************************************************************************)
LEMMA CollectUse ==
  ASSUME D!TypeOK, D!TypeOK', UseInv, UseGrows, NEW h \in D!Hours, D!Collect(h)
  PROVE  UseInv'
<1>0. /\ merged \in [D!Hours -> D!Rollup] /\ daily \in [D!Days -> D!Rollup]
      /\ recorded \in [D!Days -> Nat] /\ hourly \in [D!Days -> Nat]
      /\ D!DayOf(h) \in D!Days
  BY DayType DEF D!TypeOK
<1>1. VerdictDeserved' /\ ReadSound'
  <2>1. verdict' = verdict /\ account' = account /\ read' = read /\ day' = day
    BY DEF D!Collect, D!Lock, D!StoreHour, D!ListHours, D!MergeGet, D!MergePut, D!Judge,
           D!CollectFails
  <2> QED
    BY <2>1, UseStays DEF ReadSound
<1>2. MergedSound'
  <2>1. CASE merged' = merged
    BY <2>1, UseStays
  <2>2. CASE D!ListHours(h) \/ D!MergeGet(h)
    <3>1. recorded' = recorded /\ hourly' = hourly /\ daily' = daily
      BY <2>2 DEF D!ListHours, D!MergeGet
    <3>2. /\ Sound(merged[h], D!DayOf(h), recorded, hourly)
          /\ Sound(daily[D!DayOf(h)], D!DayOf(h), recorded, hourly)
      BY <1>0 DEF UseInv, MergedSound, DailySound
    <3>3. /\ merged'[h].requests \in {merged[h].requests, daily[D!DayOf(h)].requests}
          /\ merged'[h].resource \in {merged[h].resource, hourly[D!DayOf(h)]}
      BY <1>0, <2>2 DEF D!ListHours, D!MergeGet, D!Rollup
    <3>4. hourly[D!DayOf(h)] <= hourly[D!DayOf(h)]
      BY <1>0
    <3>5. Sound(merged'[h], D!DayOf(h), recorded', hourly')
      BY <3>1, <3>2, <3>3, <3>4 DEF Sound
    <3>6. \A k \in D!Hours : k # h => merged'[k] = merged[k]
      BY <1>0, <2>2 DEF D!ListHours, D!MergeGet
    <3> QED
      BY <3>1, <3>5, <3>6 DEF UseInv, MergedSound
  <2>3. merged' = merged \/ D!ListHours(h) \/ D!MergeGet(h)
    BY DEF D!Collect, D!Lock, D!StoreHour, D!MergePut, D!Judge, D!CollectFails
  <2> QED
    BY <2>1, <2>2, <2>3
<1>3. DailySound'
  <2>1. CASE daily' = daily
    BY <2>1, UseStays
  <2>2. CASE D!MergePut(h)
    BY <1>0, <2>2 DEF D!MergePut, UseInv, MergedSound, DailySound
  <2>3. daily' = daily \/ D!MergePut(h)
    BY DEF D!Collect, D!Lock, D!StoreHour, D!ListHours, D!MergeGet, D!Judge, D!CollectFails
  <2> QED
    BY <2>1, <2>2, <2>3
<1>4. SuspensionDeserved'
  <2>1. CASE suspension' \in {suspension, Never}
    BY <2>1, UseStays
  <2>2. CASE D!Judge(h) /\ D!Exceeded(merged[h])
    <3>1. /\ recorded' = recorded /\ hourly' = hourly
          /\ suspension'.of = D!DayOf(h)
      BY <2>2 DEF D!Judge
    <3>2. ReallyUsed(D!DayOf(h), recorded, hourly)
      <4>1. /\ merged[h].requests <= recorded[D!DayOf(h)]
            /\ merged[h].resource <= hourly[D!DayOf(h)]
        BY DEF UseInv, MergedSound, Sound
      <4>2. /\ merged[h].requests \in Nat /\ merged[h].resource \in Nat
            /\ recorded[D!DayOf(h)] \in Nat /\ hourly[D!DayOf(h)] \in Nat
        BY <1>0 DEF D!Rollup
      <4> QED
        BY <2>2, <4>1, <4>2, CapAssumption DEF D!Exceeded, ReallyUsed
    <3> QED
      BY <3>1, <3>2 DEF SuspensionDeserved, Deserved
  <2>3. \/ suspension' \in {suspension, Never}
        \/ D!Judge(h) /\ D!Exceeded(merged[h])
    BY DEF D!Collect, D!Lock, D!StoreHour, D!ListHours, D!MergeGet, D!MergePut, D!Judge,
           D!CollectFails
  <2> QED
    BY <2>1, <2>2, <2>3
<1> QED
  BY <1>1, <1>2, <1>3, <1>4 DEF UseInv

(***************************************************************************)
(* Every account keeps the strengthening.                                     *)
(***************************************************************************)
LEMMA StepUse == D!TypeOK /\ UseInv /\ [D!Next]_D!vars => UseInv'
<1> SUFFICES ASSUME D!TypeOK, UseInv, [D!Next]_D!vars
             PROVE  UseInv'
  OBVIOUS
<1>1. D!TypeOK' /\ UseGrows
  BY DailyStepType, StepGrows
<1>2. ASSUME daily' = daily, merged' = merged, account' = account, read' = read,
             day' = day, verdict' = verdict,
             suspension' \in {suspension, Never}
      PROVE  UseInv'
  BY <1>1, <1>2, UseStays DEF UseInv, ReadSound
<1>3. CASE UNCHANGED D!vars \/ D!CleanupGet \/ D!CleanupDelete \/ D!Tick
  BY <1>2, <1>3 DEF D!vars, D!CleanupGet, D!CleanupDelete, D!Tick
<1>4. CASE D!BurstEnds
  <2>1. suspension \in D!Suspension
    BY <1>4 DEF D!BurstEnds, D!InForce, D!TypeOK
  <2>2. suspension'.cap = "burst"
    BY <1>4, <2>1 DEF D!BurstEnds, D!Suspension
  <2>3. SuspensionDeserved'
    BY <2>2 DEF SuspensionDeserved, Deserved
  <2>4. /\ daily' = daily /\ merged' = merged /\ verdict' = verdict
        /\ account' = account /\ read' = read /\ day' = day
    BY <1>4 DEF D!BurstEnds
  <2> QED
    BY <1>1, <2>3, <2>4, UseStays DEF UseInv, ReadSound
<1> QED
  BY <1>1, <1>3, <1>4, AccountUse, CollectUse DEF D!Next

\* The parts and the types are an invariant.
LEMMA UseSafe == D!Spec => [](D!TypeOK /\ UseInv)
<1>1. D!Init => D!TypeOK /\ UseInv
  BY DailyInitType, InitUse
<1>2. D!TypeOK /\ UseInv /\ [D!Next]_D!vars => (D!TypeOK /\ UseInv)'
  BY DailyStepType, StepUse
<1> QED
  BY <1>1, <1>2, PTL DEF D!Spec

(***************************************************************************)
(* However the requests and the collector overwrite each other's rollups,  *)
(* no rollup says more than was used on its day.                           *)
(***************************************************************************)
THEOREM RollupsAreSound == D!Spec => []NeverOverCounts
<1>1. UseInv => NeverOverCounts
  BY DEF UseInv, DailySound, Sound, NeverOverCounts,
         Days, DayOf, Hours, D!Days, D!DayOf, D!Hours
<1> QED
  BY <1>1, UseSafe, PTL

(***************************************************************************)
(* A daily suspension in force was decided for a day on which the app used *)
(* up one of its limits.                                                   *)
(***************************************************************************)
THEOREM SuspensionsAreDeserved == D!Spec => []SuspendedForRealUse
<1>1. UseInv => SuspendedForRealUse
  BY DEF UseInv, SuspensionDeserved, Deserved, ReallyUsed,
         SuspendedForRealUse, InForce, Expired
<1> QED
  BY <1>1, UseSafe, PTL
=============================================================================
