---------------------------- MODULE BurstLimits ----------------------------
(***************************************************************************)
(* Short-window limits (rateLimits.ts, reached through                     *)
(* usageEnforcement.ts): a metered request of an app is counted in three   *)
(* KV counters of the current window, those of its repository, its owner   *)
(* and the whole environment.  checkRateLimit gets the three counters in   *)
(* parallel, refuses when one of them would exceed its limit, and          *)
(* otherwise puts the three incremented values in parallel.  Nothing locks *)
(* a counter between the get and the put, and any KV call may fail.        *)
(*                                                                         *)
(* One metric of one environment.  The daily limit, checked first, gives   *)
(* any verdict.  The counters' TTL (two windows from the put) is left out: *)
(* a counter outlives its window by at least one window.                   *)
(***************************************************************************)
EXTENDS Integers

CONSTANTS
  Requests,       \* metered requests
  Repos,          \* repositories of the apps
  OwnerOf,        \* OwnerOf[a]: the organization of repository a
  SlugOf,         \* SlugOf[a]: the name of repository a in keys, in which
                  \* sanitizeScriptPart makes "." and "_" a "-"
  Exempt,         \* organizations of W7S_LIMIT_EXEMPT_ORGS
  Limit,          \* Limit[a][s]: units of the policy in effect for a in scope s
  Units,          \* units a request may ask for
  Second,         \* a second in clock units (milliseconds)
  WindowSeconds,  \* windowSeconds of the metric's policies
  MaxClock        \* bound of the clock

Scopes == {"repo", "owner", "global"}

ASSUME LimitAssumption == /\ Limit \in [Repos -> [Scopes -> Nat]]
                          /\ Units \subseteq Nat
ASSUME ClockAssumption == /\ Second \in Nat \ {0}
                          /\ WindowSeconds \in Nat \ {0}
                          /\ MaxClock \in Nat

VARIABLES
  now,       \* the clock
  counter,   \* counter[k][w]: the counter of key k in window w, 0 if absent
  step,      \* step[r]: where request r is
  repo,      \* repo[r]: the repository r is counted for
  units,     \* units[r]: requestedUnits
  at,        \* at[r]: when checkRateLimit of r began
  used,      \* used[r][s]: what r read in scope s
  left,      \* left[r]: the scopes whose get or put of r is in flight
  admitted,  \* history: units of the requests let through, by key and window
  met,       \* history: pairs of requests in flight at the same time
  lost       \* history: requests one of whose puts failed

vars == <<now, counter, step, repo, units, at, used, left, admitted, met, lost>>

\* rateLimitKey without the window: the scope and the slugs it covers.
Key(a, s) == CASE s = "repo"  -> <<"repo", OwnerOf[a], SlugOf[a]>>
               [] s = "owner" -> <<"owner", OwnerOf[a]>>
               [] OTHER       -> <<"global", "all">>

Keys == {Key(a, s) : a \in Repos, s \in Scopes}

WindowLength == WindowSeconds * Second

\* windowStartMs, as the number of the window.
WindowOf(t) == t \div WindowLength

Windows == {WindowOf(t) : t \in 0..MaxClock}

\* Mutant: the remaining seconds are rounded down.
RetryAfterFloor(t) ==
  LET whole == (WindowLength * (WindowOf(t) + 1) - t) \div Second
  IN IF whole < 1 THEN 1 ELSE whole

\* retryAfterSeconds: the seconds left in the window of t, rounded up.
RetryAfter(t) ==
  LET whole == (WindowLength * (WindowOf(t) + 1) - t + Second - 1) \div Second
  IN IF whole < 1 THEN 1 ELSE whole

Init ==
  /\ now = 0
  /\ counter = [k \in Keys |-> [w \in Windows |-> 0]]
  /\ step = [r \in Requests |-> "idle"]
  /\ repo \in [Requests -> Repos]
  /\ units \in [Requests -> Units]
  /\ at = [r \in Requests |-> 0]
  /\ used = [r \in Requests |-> [s \in Scopes |-> 0]]
  /\ left = [r \in Requests |-> {}]
  /\ admitted = [k \in Keys |-> [w \in Windows |-> 0]]
  /\ met = {}
  /\ lost = {}

InFlight(r) == step[r] \in {"reading", "writing"} \/ left[r] # {}

-----------------------------------------------------------------------------

\* enforceUsageLimit when the daily limit refuses: no counter is touched.
DailyBlocks(r) ==
  /\ step[r] = "idle"
  /\ OwnerOf[repo[r]] \notin Exempt
  /\ step' = [step EXCEPT ![r] = "blocked"]
  /\ UNCHANGED <<now, counter, repo, units, at, used, left, admitted, met, lost>>

\* checkUsageLimit and checkRateLimit of an exempt organization.
PassExempt(r) ==
  /\ step[r] = "idle"
  /\ OwnerOf[repo[r]] \in Exempt
  /\ step' = [step EXCEPT ![r] = "exempt"]
  /\ UNCHANGED <<now, counter, repo, units, at, used, left, admitted, met, lost>>

\* checkRateLimit takes the time and starts the three gets.
Begin(r) ==
  /\ step[r] = "idle"
  /\ OwnerOf[repo[r]] \notin Exempt
  /\ step' = [step EXCEPT ![r] = "reading"]
  /\ at' = [at EXCEPT ![r] = now]
  /\ left' = [left EXCEPT ![r] = Scopes]
  /\ met' = met \cup UNION {{<<q, r>>, <<r, q>>} : q \in {p \in Requests : InFlight(p)}}
  /\ UNCHANGED <<now, counter, repo, units, used, admitted, lost>>

\* readCounter resolves for one scope.
ReadCounter(r, s) ==
  /\ step[r] = "reading"
  /\ s \in left[r]
  /\ left' = [left EXCEPT ![r] = @ \ {s}]
  /\ used' = [used EXCEPT ![r][s] = counter[Key(repo[r], s)][WindowOf(at[r])]]
  /\ UNCHANGED <<now, counter, step, repo, units, at, admitted, met, lost>>

\* A get fails: checkRateLimit throws.
ReadFails(r) ==
  /\ step[r] = "reading"
  /\ left[r] # {}
  /\ step' = [step EXCEPT ![r] = "error"]
  /\ left' = [left EXCEPT ![r] = {}]
  /\ UNCHANGED <<now, counter, repo, units, at, used, admitted, met, lost>>

\* Mutant: a request that would just reach the limit is refused.
WouldBlockAtLimit(r, s) == used[r][s] + units[r] >= Limit[repo[r]][s]

WouldBlock(r, s) == used[r][s] + units[r] > Limit[repo[r]][s]

Refuse(r) ==
  /\ step[r] = "reading"
  /\ left[r] = {}
  /\ \E s \in Scopes : WouldBlock(r, s)
  /\ step' = [step EXCEPT ![r] = "refused"]
  /\ UNCHANGED <<now, counter, repo, units, at, used, left, admitted, met, lost>>

\* Mutant: only the counter of the repository is compared with its limit.
AdmitByRepo(r) ==
  /\ step[r] = "reading"
  /\ left[r] = {}
  /\ ~WouldBlock(r, "repo")
  /\ step' = [step EXCEPT ![r] = "writing"]
  /\ left' = [left EXCEPT ![r] = Scopes]
  /\ admitted' = [k \in Keys |-> [w \in Windows |->
       IF w = WindowOf(at[r]) /\ \E s \in Scopes : k = Key(repo[r], s)
       THEN admitted[k][w] + units[r] ELSE admitted[k][w]]]
  /\ UNCHANGED <<now, counter, repo, units, at, used, met, lost>>

\* No scope blocks: the three puts start.
Admit(r) ==
  /\ step[r] = "reading"
  /\ left[r] = {}
  /\ \A s \in Scopes : ~WouldBlock(r, s)
  /\ step' = [step EXCEPT ![r] = "writing"]
  /\ left' = [left EXCEPT ![r] = Scopes]
  /\ admitted' = [k \in Keys |-> [w \in Windows |->
       IF w = WindowOf(at[r]) /\ \E s \in Scopes : k = Key(repo[r], s)
       THEN admitted[k][w] + units[r] ELSE admitted[k][w]]]
  /\ UNCHANGED <<now, counter, repo, units, at, used, met, lost>>

\* A put of projectedUnits lands, also after another put of r has failed.
PutCounter(r, s) ==
  /\ step[r] \in {"writing", "error"}
  /\ s \in left[r]
  /\ left' = [left EXCEPT ![r] = @ \ {s}]
  /\ counter' = [counter EXCEPT ![Key(repo[r], s)][WindowOf(at[r])] = used[r][s] + units[r]]
  /\ step' = [step EXCEPT ![r] =
                IF step[r] = "writing" /\ left[r] = {s} THEN "passed" ELSE @]
  /\ UNCHANGED <<now, repo, units, at, used, admitted, met, lost>>

\* A put fails: checkRateLimit throws, the other puts stay in flight.
PutFails(r, s) ==
  /\ step[r] \in {"writing", "error"}
  /\ s \in left[r]
  /\ left' = [left EXCEPT ![r] = @ \ {s}]
  /\ step' = [step EXCEPT ![r] = "error"]
  /\ lost' = lost \cup {r}
  /\ UNCHANGED <<now, counter, repo, units, at, used, admitted, met>>

Tick ==
  /\ now < MaxClock
  /\ now' = now + 1
  /\ UNCHANGED <<counter, step, repo, units, at, used, left, admitted, met, lost>>

Next ==
  \/ \E r \in Requests :
       \/ DailyBlocks(r) \/ PassExempt(r) \/ Begin(r)
       \/ ReadFails(r) \/ Refuse(r) \/ Admit(r)
       \/ \E s \in Scopes : ReadCounter(r, s) \/ PutCounter(r, s) \/ PutFails(r, s)
  \/ Tick

Spec == Init /\ [][Next]_vars

-----------------------------------------------------------------------------

Steps == {"idle", "blocked", "exempt", "reading", "writing",
          "passed", "refused", "error"}

TypeOK ==
  /\ now \in 0..MaxClock
  /\ counter \in [Keys -> [Windows -> Nat]]
  /\ step \in [Requests -> Steps]
  /\ repo \in [Requests -> Repos]
  /\ units \in [Requests -> Units]
  /\ at \in [Requests -> 0..MaxClock]
  /\ used \in [Requests -> [Scopes -> Nat]]
  /\ left \in [Requests -> SUBSET Scopes]
  /\ admitted \in [Keys -> [Windows -> Nat]]
  /\ met \subseteq Requests \X Requests
  /\ lost \subseteq Requests

(***************************************************************************)
(* However the gets and puts of concurrent requests interleave or fail, a  *)
(* counter never says more than what was let through: overlapping requests *)
(* lose counts, they never add any, and a refused one adds none.           *)
(***************************************************************************)
CountersNeverOverCount ==
  \A k \in Keys, w \in Windows : counter[k][w] <= admitted[k][w]

(***************************************************************************)
(* Nobody is refused early: when a request is refused, some scope has let  *)
(* through so much in that window that the request would exceed its limit. *)
(***************************************************************************)
RefusalIsJustified ==
  \A r \in Requests : step[r] = "refused" =>
    \E s \in Scopes :
      admitted[Key(repo[r], s)][WindowOf(at[r])] + units[r] > Limit[repo[r]][s]

(***************************************************************************)
(* The requests counted under key k in window w ran one after another and  *)
(* none of their puts failed.                                              *)
(***************************************************************************)
CountedIn(r, k, w) == /\ step[r] \in {"reading", "writing", "passed", "error"}
                      /\ WindowOf(at[r]) = w
                      /\ \E s \in Scopes : k = Key(repo[r], s)

OneByOne(k, w) ==
  \A r \in {q \in Requests : CountedIn(q, k, w)} :
    /\ r \notin lost
    /\ \A q \in Requests : CountedIn(q, k, w) => <<r, q>> \notin met

(***************************************************************************)
(* The limit of every scope holds for requests that do not overlap: what a *)
(* window lets through exceeds it only by racing the get and the put.  The *)
(* repositories counted under one key may have limits of their own; what   *)
(* is let through is within the limit of one of them.                      *)
(***************************************************************************)
SerialRequestsKeepLimit ==
  \A a \in Repos, s \in Scopes, w \in Windows :
    OneByOne(Key(a, s), w) =>
      \E b \in Repos : /\ Key(b, s) = Key(a, s)
                      /\ admitted[Key(a, s)][w] <= Limit[b][s]

(***************************************************************************)
(* A client that waits the Retry-After of its refusal comes back in a      *)
(* later window, and is not told to wait a whole second more than that.    *)
(***************************************************************************)
RetryAfterReachesNextWindow ==
  \A r \in Requests : step[r] = "refused" =>
    /\ WindowOf(at[r] + RetryAfter(at[r]) * Second) = WindowOf(at[r]) + 1
    /\ WindowOf(at[r] + (RetryAfter(at[r]) - 1) * Second) = WindowOf(at[r])
=============================================================================
