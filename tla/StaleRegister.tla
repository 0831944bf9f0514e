--------------------------- MODULE StaleRegister ---------------------------
(***************************************************************************)
(* What the cached metadata loaders promise: a register per key whose      *)
(* readers may be answered with a value that is no longer the stored one,  *)
(* but only for a bounded time after it was overwritten.                   *)
(*                                                                         *)
(* Every write of a key is numbered: value n is the n-th one written, and  *)
(* value 0 is "nothing stored", which loaders answer (and cache) as null.  *)
(***************************************************************************)
EXTENDS Integers, Sequences

CONSTANTS
  Keys,       \* metadata keys
  Procs,      \* concurrent calls
  NoAnswer,   \* a call that has not answered at this moment
  Bound       \* Bound[k]: how long an overwritten value may still be answered

VARIABLES
  now,        \* the clock
  kv,         \* kv[k]: the number of the value stored under k
  retired,    \* retired[k][n]: when value n - 1 of k was overwritten
  answer      \* answer[p]: what call p returned

vars == <<now, kv, retired, answer>>

(***************************************************************************)
(* The last moment at which v was the stored value of k.                   *)
(***************************************************************************)
LiveUntil(k, v) == IF v = kv[k] THEN now ELSE retired[k][v + 1]

Init ==
  /\ now = 0
  /\ kv = [k \in Keys |-> 0]
  /\ retired = [k \in Keys |-> <<>>]
  /\ answer = [p \in Procs |-> NoAnswer]

(***************************************************************************)
(* Time passes.  An answer speaks of the moment it was given at.           *)
(***************************************************************************)
Tick ==
  /\ now' = now + 1
  /\ answer' = [p \in Procs |-> NoAnswer]
  /\ UNCHANGED <<kv, retired>>

Put(k) ==
  /\ kv' = [kv EXCEPT ![k] = @ + 1]
  /\ retired' = [retired EXCEPT ![k] = Append(@, now)]
  /\ UNCHANGED <<now, answer>>

(***************************************************************************)
(* Call p answers v: it is stored, or was overwritten recently enough.     *)
(***************************************************************************)
Answer(p, k, v) ==
  /\ v \in 0..kv[k]
  /\ now <= LiveUntil(k, v) + Bound[k]
  /\ answer' = [answer EXCEPT ![p] = [key |-> k, value |-> v]]
  /\ UNCHANGED <<now, kv, retired>>

Next ==
  \/ Tick
  \/ \E k \in Keys : Put(k)
  \/ \E p \in Procs, k \in Keys : \E v \in 0..kv[k] : Answer(p, k, v)

Spec == Init /\ [][Next]_vars
=============================================================================
