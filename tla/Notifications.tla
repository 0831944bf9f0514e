----------------------------- MODULE Notifications -----------------------------
(***************************************************************************)
(* Telegram notifications (notifications.ts): what becomes of a deploy, a  *)
(* suspension or a failed collection is told to the managers' chats and to *)
(* the chats that deploys of the app have linked to it.  All that keeps a  *)
(* chat from being told twice is a mark in KV, read before a message is    *)
(* sent and put after it, which expires.                                   *)
(*                                                                         *)
(* What a message says is a text; the keys of marks do not keep all of it. *)
(* Time is left out: a mark expires at any moment.                         *)
(***************************************************************************)
CONSTANTS
  Apps,         \* environments of repositories
  Repository,   \* Repository[a]
  Chats,
  Admins,       \* chats told of everything
  Manager,      \* the further manager's chat, or None
  Allowed,      \* the events it is told of: W7S_TELEGRAM_EVENTS
  None,
  Events,
  Texts,        \* what an error says, the day of a suspension, the hour of
                \* a collection
  Kept(_, _, _),\* Kept(e, a, t): what dedupePart keeps in a key of event e
                \* about a with text t, of both: it maps what is no letter,
                \* digit, "_", "." or ":" to "-" and cuts the key
  Notices,      \* things to notify of
  Scenarios     \* what they are, see Notice

(***************************************************************************)
(* kind: a deploy's answer, a suspension, failures of a collection, a      *)
(* stage that the deploy action reports, or the bot being started.  chat   *)
(* and events: what a deploy links or its action asks for, who starts.     *)
(***************************************************************************)
Notice == [kind : {"deploy", "suspended", "collection", "status", "start"},
           event : Events, app : Apps, text : Texts,
           chat : Chats \cup {None}, events : SUBSET Events]

ASSUME NoneAssumption == None \notin Chats
ASSUME EventsAssumption ==
  {"deploy_success", "deploy_error", "app_suspended"} \subseteq Events
ASSUME ScenariosAssumption == Scenarios \subseteq [Notices -> Notice]

Letters == [notice : Notices, role : {"manager", "subscriber", "direct"},
            chat : Chats]

VARIABLES
  ask,         \* ask[n]: what n is
  subscribed,  \* subscribed[a][c]: the events of a that c is linked to, {}
               \* where it has no subscription
  marks,       \* the keys that are marked
  stage,       \* stage[n]: new, linking, linked, open or failed
  branch,      \* branch[n]: none, list, get, posted or failed
  reading,     \* reading[n]: listed subscriptions that are still to be read
  found,       \* found[n]: chats whose subscription has the event
  letter,      \* letter[l]: none, reading, sending, plain, marking, told,
               \* unmarked, lost or skipped
  sent,        \* what Telegram has delivered
  fresh,       \* history: letters told whose mark has not expired since
  known,       \* history, known[l]: fresh when l read its key
  stay,        \* history, stay[n]: chats subscribed to it ever since it began
  ever         \* history, ever[n]: or at some time since

notices == <<stage, branch, reading, found, stay, ever>>
letters == <<letter, sent, marks, fresh, known>>
vars == <<ask, subscribed, notices, letters>>

Init ==
  /\ ask \in Scenarios
  /\ subscribed = [a \in Apps |-> [c \in Chats |-> {}]]
  /\ marks = {}
  /\ stage = [n \in Notices |-> "new"]
  /\ branch = [n \in Notices |-> "none"]
  /\ reading = [n \in Notices |-> {}]
  /\ found = [n \in Notices |-> {}]
  /\ letter = [l \in Letters |-> "none"]
  /\ sent = {}
  /\ fresh = {}
  /\ known = [l \in Letters |-> {}]
  /\ stay = [n \in Notices |-> {}]
  /\ ever = [n \in Notices |-> {}]

-----------------------------------------------------------------------------
(* Whom a notice is for *)

Succeeded(n) == ask[n].kind = "deploy" /\ ask[n].event # "deploy_error"

Links(n) == Succeeded(n) /\ ask[n].chat # None

Deduped(n) == ~ Succeeded(n) /\ ask[n].kind \notin {"status", "start"}

\* managerTelegramChatIds
Managers(event) ==
  Admins \cup {c \in {Manager} \ {None} : event \in Allowed}

\* A repository's environments share the key of what managers are told.
About(l) ==
  CASE ask[l.notice].kind = "collection" -> None
    [] ask[l.notice].kind = "deploy" /\ l.role = "manager" ->
         Repository[ask[l.notice].app]
    [] OTHER -> ask[l.notice].app

\* The chat, the role and the event come first and are never cut off.
Key(l) ==
  LET event == ask[l.notice].event IN
  [chat |-> l.chat, role |-> l.role, event |-> event,
   rest |-> Kept(event, About(l), ask[l.notice].text)]

LettersTo(n, role, chats) ==
  {l \in Letters : l.notice = n /\ l.role = role /\ l.chat \in chats}

Posting(new) ==
  letter' = [l \in Letters |->
    IF l \notin new THEN letter[l]
    ELSE IF Deduped(l.notice) THEN "reading" ELSE "sending"]

\* A collection's failures are no repository's subscribers' business.
HasSubscribers(n) == ask[n].kind \in {"deploy", "suspended"}

\* handleDeployStatus: the chat of the deploy action, if it asks for that.
StatusChats(n) ==
  Managers(ask[n].event)
  \cup {c \in {ask[n].chat} \ {None} : ask[n].event \in ask[n].events}

\* handleTelegramUpdate: the instructions are for who asks.
ToStarter(n) == LettersTo(n, "direct", {ask[n].chat})

Subscribers(table, n) == {c \in Chats : ask[n].event \in table[ask[n].app][c]}

-----------------------------------------------------------------------------
(* Notices *)

\* A deploy that links a chat puts the subscription before anyone is told.
Begin(n) ==
  /\ stage[n] = "new"
  /\ Links(n)
  /\ stage' = [stage EXCEPT ![n] = "linking"]
  /\ UNCHANGED <<ask, subscribed, branch, reading, found, stay, ever, letters>>

\* upsertTelegramSubscription
Link(n) ==
  /\ stage[n] = "linking"
  /\ \E put \in BOOLEAN, answered \in BOOLEAN :
       /\ subscribed' = IF put THEN [subscribed EXCEPT
                                       ![ask[n].app][ask[n].chat] = ask[n].events]
                        ELSE subscribed
       /\ stage' = [stage EXCEPT ![n] = IF put /\ answered THEN "linked"
                                        ELSE "failed"]
  /\ stay' = [m \in Notices |-> stay[m] \cap Subscribers(subscribed', m)]
  /\ ever' = [m \in Notices |->
       IF branch[m] \in {"list", "get"}
       THEN ever[m] \cup Subscribers(subscribed', m) ELSE ever[m]]
  /\ UNCHANGED <<ask, branch, reading, found, letters>>

(***************************************************************************)
(* The managers are told while the subscriptions are listed.  A stage that *)
(* an action reports goes to its chat and the managers', each once, and    *)
(* the bot answers who starts it.                                          *)
(***************************************************************************)
Open(n) ==
  /\ stage[n] = IF Links(n) THEN "linked" ELSE "new"
  /\ stage' = [stage EXCEPT ![n] = "open"]
  /\ Posting(CASE ask[n].kind = "status" -> LettersTo(n, "direct", StatusChats(n))
               [] ask[n].kind = "start" -> ToStarter(n)
               [] OTHER -> LettersTo(n, "manager", Managers(ask[n].event)))
  /\ IF HasSubscribers(n)
     THEN /\ branch' = [branch EXCEPT ![n] = "list"]
          /\ stay' = [stay EXCEPT ![n] = Subscribers(subscribed, n)]
          /\ ever' = [ever EXCEPT ![n] = Subscribers(subscribed, n)]
     ELSE UNCHANGED <<branch, stay, ever>>
  /\ UNCHANGED <<ask, subscribed, reading, found, sent, marks, fresh, known>>

\* listTelegramSubscriptions: the keys, and then the records one by one.
List(n) ==
  /\ branch[n] = "list"
  /\ branch' = [branch EXCEPT ![n] = "get"]
  /\ reading' = [reading EXCEPT ![n] =
       {c \in Chats : subscribed[ask[n].app][c] # {}}]
  /\ UNCHANGED <<ask, subscribed, stage, found, stay, ever, letters>>

Get(n, c) ==
  /\ branch[n] = "get"
  /\ c \in reading[n]
  /\ reading' = [reading EXCEPT ![n] = @ \ {c}]
  /\ found' = IF ask[n].event \in subscribed[ask[n].app][c]
              THEN [found EXCEPT ![n] = @ \cup {c}] ELSE found
  /\ UNCHANGED <<ask, subscribed, stage, branch, stay, ever, letters>>

Post(n) ==
  /\ branch[n] = "get"
  /\ reading[n] = {}
  /\ branch' = [branch EXCEPT ![n] = "posted"]
  /\ Posting(LettersTo(n, "subscriber", found[n]))
  /\ UNCHANGED <<ask, subscribed, stage, reading, found, stay, ever, sent, marks,
                 fresh, known>>

\* A list or get rejects: the managers are told nevertheless.
ListFails(n) ==
  /\ branch[n] \in {"list", "get"}
  /\ branch' = [branch EXCEPT ![n] = "failed"]
  /\ UNCHANGED <<ask, subscribed, stage, reading, found, stay, ever, letters>>

-----------------------------------------------------------------------------
(* Messages: sendTelegramMessage *)

Becomes(l, next) == letter' = [letter EXCEPT ![l] = next]

LettersOnly == UNCHANGED <<ask, subscribed, notices>>

\* Mutant: the mark is put when it is found missing.
ReadKeyAndMark(l) ==
  /\ letter[l] = "reading"
  /\ known' = [known EXCEPT ![l] = fresh]
  /\ Becomes(l, IF Key(l) \in marks THEN "skipped" ELSE "sending")
  /\ marks' = marks \cup {Key(l)}
  /\ LettersOnly /\ UNCHANGED <<sent, fresh>>

\* readDedupeKey
ReadKey(l) ==
  /\ letter[l] = "reading"
  /\ known' = [known EXCEPT ![l] = fresh]
  /\ Becomes(l, IF Key(l) \in marks THEN "skipped" ELSE "sending")
  /\ LettersOnly /\ UNCHANGED <<sent, marks, fresh>>

Delivered(l) ==
  /\ sent' = sent \cup {l}
  /\ Becomes(l, IF Deduped(l.notice) THEN "marking" ELSE "told")

(***************************************************************************)
(* Telegram takes the message, refuses it, or the request is rejected, be  *)
(* it after the message was taken.                                         *)
(***************************************************************************)
Send(l) ==
  /\ letter[l] = "sending"
  /\ \/ Delivered(l)
     \/ Becomes(l, "plain") /\ UNCHANGED sent
     \/ Becomes(l, "lost") /\ sent' \in {sent, sent \cup {l}}
  /\ LettersOnly /\ UNCHANGED <<marks, fresh, known>>

\* Mutant: a message sent as plain text is not marked.
SendPlainUnmarked(l) ==
  /\ letter[l] = "plain"
  /\ \/ sent' = sent \cup {l} /\ Becomes(l, "told") /\ fresh' = fresh \cup {l}
     \/ Becomes(l, "lost") /\ sent' \in {sent, sent \cup {l}} /\ UNCHANGED fresh
  /\ LettersOnly /\ UNCHANGED <<marks, known>>

\* What was refused with its formatting is sent without.
SendPlain(l) ==
  /\ letter[l] = "plain"
  /\ \/ Delivered(l)
     \/ Becomes(l, "lost") /\ sent' \in {sent, sent \cup {l}}
  /\ LettersOnly /\ UNCHANGED <<marks, fresh, known>>

\* markDedupeKey, which may fail, be it after the mark was put.
Mark(l) ==
  /\ letter[l] = "marking"
  /\ \/ /\ marks' = marks \cup {Key(l)}
        /\ fresh' = fresh \cup {l}
        /\ Becomes(l, "told")
     \/ /\ marks' \in {marks, marks \cup {Key(l)}}
        /\ Becomes(l, "unmarked") /\ UNCHANGED fresh
  /\ LettersOnly /\ UNCHANGED <<sent, known>>

\* expirationTtl
Expire(key) ==
  /\ key \in marks
  /\ marks' = marks \ {key}
  /\ fresh' = {l \in fresh : Key(l) # key}
  /\ LettersOnly /\ UNCHANGED <<letter, sent, known>>

\* The isolate ends with whatever it has not done.
Stop(n) ==
  /\ stage[n] \in {"linking", "linked", "open"}
  /\ \/ branch[n] \in {"list", "get"}
     \/ stage[n] \in {"linking", "linked"}
     \/ \E l \in Letters :
          l.notice = n /\ letter[l] \in {"reading", "sending", "plain", "marking"}
  /\ stage' = [stage EXCEPT ![n] = "failed"]
  /\ branch' = [branch EXCEPT ![n] = IF @ \in {"list", "get"} THEN "failed" ELSE @]
  /\ letter' = [l \in Letters |->
       IF l.notice # n THEN letter[l]
       ELSE CASE letter[l] \in {"reading", "sending", "plain"} -> "lost"
              [] letter[l] = "marking" -> "unmarked"
              [] OTHER -> letter[l]]
  /\ UNCHANGED <<ask, subscribed, reading, found, stay, ever, sent, marks, fresh,
                 known>>

Next ==
  \/ \E n \in Notices :
       \/ Begin(n) \/ Link(n) \/ Open(n) \/ List(n) \/ Post(n) \/ ListFails(n)
       \/ Stop(n)
       \/ \E c \in Chats : Get(n, c)
  \/ \E l \in Letters : ReadKey(l) \/ Send(l) \/ SendPlain(l) \/ Mark(l)
  \/ \E key \in marks : Expire(key)

Spec == Init /\ [][Next]_vars

-----------------------------------------------------------------------------
(* Properties *)

\* Every variable has its type.
TypeOK ==
  /\ ask \in [Notices -> Notice]
  /\ subscribed \in [Apps -> [Chats -> SUBSET Events]]
  /\ marks \subseteq {Key(l) : l \in Letters}
  /\ stage \in [Notices -> {"new", "linking", "linked", "open", "failed"}]
  /\ branch \in [Notices -> {"none", "list", "get", "posted", "failed"}]
  /\ reading \in [Notices -> SUBSET Chats]
  /\ found \in [Notices -> SUBSET Chats]
  /\ letter \in [Letters -> {"none", "reading", "sending", "plain", "marking",
                             "told", "unmarked", "lost", "skipped"}]
  /\ sent \subseteq Letters /\ fresh \subseteq Letters
  /\ known \in [Letters -> SUBSET Letters]
  /\ stay \in [Notices -> SUBSET Chats] /\ ever \in [Notices -> SUBSET Chats]

(***************************************************************************)
(* Nobody is passed over: a chat that stays subscribed to an event while   *)
(* its notice lists the subscriptions gets a letter, one that never was    *)
(* subscribed does not, and a letter is left out only if Telegram has      *)
(* delivered one of the same key to the same chat.                         *)
(***************************************************************************)
EveryoneIsTold ==
  /\ \A n \in Notices :
       branch[n] = "posted" =>
         LET told == {c \in Chats : letter[[notice |-> n, role |-> "subscriber",
                                            chat |-> c]] # "none"} IN
         stay[n] \subseteq told /\ told \subseteq ever[n]
  /\ \A l \in Letters :
       letter[l] = "skipped" => \E k \in sent : k # l /\ Key(k) = Key(l)

(***************************************************************************)
(* A chat is told again of what it was told, in the same role, only if the *)
(* first message was not marked yet or not any more when the mark was read *)
(* for the second, or putting it had failed.                               *)
(***************************************************************************)
ToldAgainOnlyWhenUnmarked ==
  \A l \in sent : \A k \in known[l] : Key(k) # Key(l)
=============================================================================
