-------------------------- MODULE MCPlatformCleanup --------------------------
(***************************************************************************)
(* Instances of PlatformCleanup for TLC: an app that has moved from        *)
(* Durable Objects to a plain Worker and on to another commit, or is new.  *)
(***************************************************************************)
EXTENDS PlatformCleanup, TLC

CONSTANTS c1, c2, stable, kv, db, queue, A, B

Asks(c, uses, migrations, classes, site) ==
  [commit |-> c, uses |-> uses, files |-> migrations, classes |-> classes,
   site |-> site]

AppPlans == {Asks(c1, <<db>>, {1, 2}, {}, FALSE),
             Asks(c2, <<db>>, {2}, {}, FALSE),
             Asks(c1, <<kv, queue>>, {}, {A}, FALSE),
             Asks(c2, <<>>, {}, {A, B}, FALSE),
             Asks(c1, <<>>, {}, {}, TRUE)}

Plain == [NoScript EXCEPT !.up = TRUE]
Nothing == [scripts |-> [n \in Names |-> NoScript],
            scriptKeys |-> [n \in Names |-> "none"],
            sites |-> {}, siteKeys |-> [c \in Commits |-> "none"],
            classRecords |-> {},
            record |-> [script |-> None, site |-> None, by |-> None],
            swept |-> {}]
Moved == [scripts |-> (c1 :> Plain) @@ (c2 :> Plain) @@
                      (stable :> [up |-> TRUE, tag |-> {A}, classes |-> {A},
                                  files |-> {}]),
          scriptKeys |-> (c1 :> "old") @@ (c2 :> "fresh") @@ (stable :> "old"),
          sites |-> {c1, c2},
          siteKeys |-> (c1 :> "old") @@ (c2 :> "old"),
          classRecords |-> {A},
          record |-> [script |-> c2, site |-> c2, by |-> None],
          swept |-> {}]
\* The same without Durable Objects before.
Plainly == [Moved EXCEPT !.scripts[stable] = NoScript,
                         !.scriptKeys[stable] = "none",
                         !.classRecords = {}]
\* An earlier cleanup has deleted their script.
Swept == [Plainly EXCEPT !.classRecords = {A}, !.swept = {stable}]
AppPasts == {Nothing, Moved, Plainly, Swept}

\* The resources of a new app, for which a cleanup has nothing to do, or the
\* scripts and sites of an old one, the two swept in turn: nothing relates
\* what happens to them.
NewOrSwept ==
  IF first = Nothing THEN sweep \in {"idle", "skipped"}
  ELSE /\ \A d \in Deploys : plan[d].uses = <<>>
       /\ \/ step["site"] = "refs"
          \/ step["script"] = "each" /\ left["script"] = {}

Symmetry == Permutations(Deploys)
=============================================================================
