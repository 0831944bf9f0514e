--------------------------- MODULE MCBurstLimits ---------------------------
(***************************************************************************)
(* Instances of BurstLimits: three repositories of one organization, two   *)
(* of which have one slug and limits of their own, and one of an exempt    *)
(* organization.  The owner's limit is that of two of the repositories, so *)
(* that they refuse each other's requests.                                 *)
(***************************************************************************)
EXTENDS BurstLimits, TLC

CONSTANTS api, twin, site, tool, acme, ops

MCOwnerOf == [a \in Repos |-> IF a = tool THEN ops ELSE acme]
MCSlugOf == [a \in Repos |-> IF a = twin THEN api ELSE a]
MCLimit == [a \in Repos |-> [s \in Scopes |->
              CASE s = "repo" -> IF a = twin THEN 1 ELSE 2
                [] s = "owner" -> 2 [] OTHER -> 3]]
MCUnits == {1, 2}

\* One request is of api; the other of its twin, with which it shares all
\* counters, of site, with which it shares the owner's, or exempt.
RelevantInit ==
  Init /\ \E r \in Requests : \A q \in Requests : repo[q] = api <=> q = r
RelevantSpec == RelevantInit /\ [][Next]_vars

Interchangeable == Permutations(Requests)
=============================================================================
