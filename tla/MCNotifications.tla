---------------------------- MODULE MCNotifications ----------------------------
(***************************************************************************)
(* Instances of Notifications for TLC: two environments of a repository,   *)
(* an administrator, and a developer who is a manager and links the chat.  *)
(***************************************************************************)
EXTENDS Notifications

CONSTANTS live, test, repo, admin, dev, one, other, n1, n2, n3

Repositories == [a \in Apps |-> repo]

\* The errors begin alike.
Keeps(event, about, text) ==
  <<about, IF event = "deploy_error" THEN one ELSE text>>

Of(kind, event, app, text) ==
  [kind |-> kind, event |-> event, app |-> app, text |-> text, chat |-> None,
   events |-> {}]
With(notice, chat, events) == [notice EXCEPT !.chat = chat, !.events = events]

Deploy(events) ==
  With(Of("deploy", "deploy_success", live, one), dev, events)
Error(app, text) == Of("deploy", "deploy_error", app, text)
Suspended(day) == Of("suspended", "app_suspended", live, day)
Collection(hour) == Of("collection", "usage_collection_error", live, hour)

Start == With(Of("start", "deploy_success", live, one), dev, {})

Scenario(first, second, third) ==
  [n \in Notices |-> CASE n = n1 -> first [] n = n2 -> second [] OTHER -> third]

Repeated == {Suspended(one), Error(live, one)}

\* Links and what they are for, repeated notices, and those with no marks.
SomeScenarios ==
  {Scenario(Deploy(Events), Deploy({"deploy_error"}), notice) :
     notice \in Repeated}
  \cup {Scenario(Deploy(Events), notice, notice) : notice \in Repeated}
  \cup {Scenario(Deploy(Events), Suspended(one), Suspended(other))}
  \cup {Scenario(Error(live, one), Error(test, one), Error(live, other)),
        Scenario(Collection(one), Collection(one), Start)}
  \cup {Scenario(Deploy({"deploy_success"}),
                 With(Of("status", "deploy_error", live, one), chat, Events),
                 Start) :
          chat \in {None, admin}}

Over(n) ==
  /\ stage[n] \in {"open", "failed"} /\ branch[n] \notin {"list", "get"}
  /\ \A l \in LettersTo(n, "subscriber", Chats) :
       letter[l] \in {"none", "told", "lost"}

(***************************************************************************)
(* A chat is linked before what it is to be told of; messages to chats do  *)
(* not depend on each other, and the administrator's matter where no chat  *)
(* is linked; and those that are not marked fail only where nothing is.    *)
(***************************************************************************)
Relevant ==
  /\ Links(n1) /\ ~ Over(n1) => stage'[n2] = "new" /\ stage'[n3] = "new"
  /\ \A l \in Letters :
       /\ Links(n1) /\ l.role = "manager" =>
            letter'[l] = letter[l] \/ letter[l] = "none" \/ stage'[l.notice] = "failed"
       /\ letter'[l] \in {"lost", "plain"} /\ ~ Deduped(l.notice) =>
            \A n \in Notices : ~ Deduped(n)

RelevantSpec == Init /\ [][Next /\ Relevant]_vars
=============================================================================
