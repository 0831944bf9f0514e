-------------------------- MODULE MCDeployPipeline --------------------------
(***************************************************************************)
(* Instances of DeployPipeline for TLC.                                    *)
(***************************************************************************)
EXTENDS DeployPipeline, TLC

CONSTANTS sha1, sha2, asset, host, branchHost, queue, cron

(***************************************************************************)
(* A site with a hostname, a backend with a queue and a schedule (of two   *)
(* commits), a backend with Durable Objects and assets, a branch that must *)
(* have its hostname, and one that is rejected.                            *)
(***************************************************************************)
Site == [sha |-> sha1, native |-> FALSE, durable |-> FALSE,
         files |-> {asset}, maps |-> {host}, pruned |-> {host, branchHost},
         defaultDomain |-> TRUE, fits |-> TRUE]
Backend == [Site EXCEPT !.native = TRUE, !.files = {}, !.maps = {queue, cron}]
Backend2 == [Backend EXCEPT !.sha = sha2, !.maps = {queue}]
Durable == [Backend EXCEPT !.sha = sha2, !.durable = TRUE,
                           !.files = {asset}, !.maps = {}]
Branch == [Site EXCEPT !.defaultDomain = FALSE, !.sha = sha2,
                       !.maps = {branchHost}, !.pruned = {branchHost}]
Oversized == [Site EXCEPT !.fits = FALSE]

AllPlans == {Site, Backend, Backend2, Durable, Branch, Oversized}
=============================================================================
