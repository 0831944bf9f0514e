------------------------- MODULE NotificationsProofs -------------------------
(***************************************************************************)
(* Proofs about Notifications for any apps, chats, events, texts and       *)
(* notices.                                                                *)
(***************************************************************************)
EXTENDS Notifications, TLAPS

NoticeStep(n) ==
  \/ Begin(n) \/ Link(n) \/ Open(n) \/ List(n) \/ Post(n) \/ ListFails(n)
  \/ Stop(n)
  \/ \E c \in Chats : Get(n, c)

LetterStep(l) == ReadKey(l) \/ Send(l) \/ SendPlain(l) \/ Mark(l)

(***************************************************************************)
(* What a step can be; what is notified of never changes, and with it the  *)
(* keys.                                                                   *)
(***************************************************************************)
LEMMA Steps ==
  ASSUME [Next]_vars
  PROVE  \/ \E n \in Notices : NoticeStep(n)
         \/ \E l \in Letters : LetterStep(l)
         \/ \E key \in marks : Expire(key)
         \/ UNCHANGED vars
  BY DEF Next, NoticeStep, LetterStep

\* What was asked stays as it is.
LEMMA AskStays ==
  ASSUME [Next]_vars
  PROVE  ask' = ask
  BY DEF Next, vars, Begin, Link, Open, List, Post, ListFails, Stop, Get,
         ReadKey, Send, SendPlain, Mark, Expire, LettersOnly

\* So do the keys of letters.
LEMMA KeysStay ==
  ASSUME ask' = ask
  PROVE  \A l : Key(l)' = Key(l)
  BY DEF Key, About

-----------------------------------------------------------------------------
(* Types *)

\* At first nothing was said, and all is well typed.
LEMMA InitType == Init => TypeOK
  BY ScenariosAssumption DEF Init, TypeOK

(***************************************************************************)
(* The new letters of a notice are read or sent, the others stay.          *)
(***************************************************************************)
LEMMA PostingType ==
  ASSUME TypeOK, NEW new, Posting(new)
  PROVE  letter' \in [Letters -> {"none", "reading", "sending", "plain",
                       "marking", "told", "unmarked", "lost", "skipped"}]
  BY DEF TypeOK, Posting

\* The steps of notices keep the types.
LEMMA NoticeType ==
  ASSUME TypeOK, NEW n \in Notices, NoticeStep(n)
  PROVE  TypeOK'
<1> USE DEF TypeOK
<1>0. ask' = ask /\ {Key(l) : l \in Letters}' = {Key(l) : l \in Letters}
  <2>1. ask' = ask
    BY DEF NoticeStep, Begin, Link, Open, List, Post, ListFails, Stop, Get
  <2> QED
    BY <2>1, KeysStay
<1>1. CASE Begin(n)
  BY <1>0, <1>1 DEF Begin, letters
<1>2. CASE Link(n)
  <2>0. ask[n].app \in Apps /\ ask[n].events \in SUBSET Events
    BY DEF Notice
  <2>1. subscribed' \in [Apps -> [Chats -> SUBSET Events]]
    <3> DEFINE chats == [subscribed[ask[n].app] EXCEPT ![ask[n].chat] = ask[n].events]
    <3>1. chats \in [Chats -> SUBSET Events]
      BY <2>0
    <3>2. [subscribed EXCEPT ![ask[n].app][ask[n].chat] = ask[n].events]
            = [subscribed EXCEPT ![ask[n].app] = chats]
      BY <2>0
    <3>3. [subscribed EXCEPT ![ask[n].app] = chats]
            \in [Apps -> [Chats -> SUBSET Events]]
      BY <3>1
    <3> QED
      BY <1>2, <3>2, <3>3 DEF Link
  <2>2. ever' \in [Notices -> SUBSET Chats] /\ stay' \in [Notices -> SUBSET Chats]
    BY <1>2 DEF Link, Subscribers
  <2>3. stage' \in [Notices -> {"new", "linking", "linked", "open", "failed"}]
    BY <1>2 DEF Link
  <2> QED
    BY <1>0, <1>2, <2>1, <2>2, <2>3 DEF Link, letters
<1>3. CASE Open(n)
  <2>1. PICK new : Posting(new)
    BY <1>3 DEF Open
  <2>2. /\ branch' \in [Notices -> {"none", "list", "get", "posted", "failed"}]
        /\ stay' \in [Notices -> SUBSET Chats]
        /\ ever' \in [Notices -> SUBSET Chats]
    <3>1. CASE HasSubscribers(n)
      <4>1. Subscribers(subscribed, n) \in SUBSET Chats
        BY DEF Subscribers
      <4>2. /\ branch' = [branch EXCEPT ![n] = "list"]
            /\ stay' = [stay EXCEPT ![n] = Subscribers(subscribed, n)]
            /\ ever' = [ever EXCEPT ![n] = Subscribers(subscribed, n)]
        BY <1>3, <3>1, Zenon DEF Open
      <4> QED
        BY <4>1, <4>2
    <3>2. CASE ~ HasSubscribers(n)
      <4>1. UNCHANGED <<branch, stay, ever>>
        BY <1>3, <3>2, Zenon DEF Open
      <4> QED
        BY <4>1
    <3> QED
      BY <3>1, <3>2
  <2> QED
    BY <1>0, <1>3, <2>1, <2>2, PostingType DEF Open
<1>4. CASE List(n)
  BY <1>0, <1>4 DEF List, letters
<1>5. CASE Post(n)
  <2>1. PICK new : Posting(new)
    BY <1>5 DEF Post
  <2> QED
    BY <1>0, <1>5, <2>1, PostingType DEF Post
<1>6. CASE ListFails(n)
  BY <1>0, <1>6 DEF ListFails, letters
<1>7. CASE Stop(n)
  BY <1>0, <1>7 DEF Stop
<1>8. CASE \E c \in Chats : Get(n, c)
  <2>1. PICK c \in Chats : Get(n, c)
    BY <1>8
  <2>2. found' \in [Notices -> SUBSET Chats] /\ reading' \in [Notices -> SUBSET Chats]
    BY <2>1 DEF Get
  <2> QED
    BY <1>0, <2>1, <2>2 DEF Get, letters
<1> QED
  BY <1>1, <1>2, <1>3, <1>4, <1>5, <1>6, <1>7, <1>8 DEF NoticeStep

\* The steps of letters keep the types.
LEMMA LetterType ==
  ASSUME TypeOK, NEW l \in Letters, LetterStep(l)
  PROVE  TypeOK'
<1> USE DEF TypeOK
<1>0. ask' = ask /\ {Key(k) : k \in Letters}' = {Key(k) : k \in Letters}
  <2>1. ask' = ask
    BY DEF LetterStep, ReadKey, Send, SendPlain, Mark, LettersOnly
  <2> QED
    BY <2>1, KeysStay
<1>1. CASE ReadKey(l)
  BY <1>0, <1>1 DEF ReadKey, Becomes, LettersOnly, notices
<1>2. CASE Send(l)
  BY <1>0, <1>2 DEF Send, Delivered, Becomes, LettersOnly, notices
<1>3. CASE SendPlain(l)
  BY <1>0, <1>3 DEF SendPlain, Delivered, Becomes, LettersOnly, notices
<1>4. CASE Mark(l)
  <2>1. marks' \subseteq {Key(k) : k \in Letters}
    BY <1>4 DEF Mark
  <2> QED
    BY <1>0, <1>4, <2>1 DEF Mark, Becomes, LettersOnly, notices
<1> QED
  BY <1>1, <1>2, <1>3, <1>4 DEF LetterStep

\* Every step keeps the types.
LEMMA TypeStep ==
  ASSUME TypeOK, [Next]_vars
  PROVE  TypeOK'
<1>1. CASE \E n \in Notices : NoticeStep(n)
  BY <1>1, NoticeType
<1>2. CASE \E l \in Letters : LetterStep(l)
  BY <1>2, LetterType
<1>3. ASSUME NEW key \in marks, Expire(key)
      PROVE  TypeOK'
  <2>1. {Key(k) : k \in Letters}' = {Key(k) : k \in Letters}
    BY AskStays, KeysStay
  <2> QED
    BY <1>3, <2>1, AskStays DEF TypeOK, Expire, LettersOnly, notices
<1>4. CASE UNCHANGED vars
  <2>1. {Key(k) : k \in Letters}' = {Key(k) : k \in Letters}
    BY AskStays, KeysStay
  <2> QED
    BY <1>4, <2>1 DEF TypeOK, vars, notices, letters
<1> QED
  BY <1>1, <1>2, <1>3, <1>4, Steps

(***************************************************************************)
(* Every variable has its type, for any notices, chats and apps.           *)
(***************************************************************************)
THEOREM TypeCorrect == Spec => []TypeOK
  BY InitType, TypeStep, PTL DEF Spec

-----------------------------------------------------------------------------
(* Marks *)

(***************************************************************************)
(* What has become of a letter tells what was sent and what it has seen: a *)
(* letter that is not begun or skipped was not sent, one that is marked    *)
(* was; one that goes on after its key was read knows of no letter with    *)
(* the same key; and one is skipped for a letter that was sent.            *)
(***************************************************************************)
LetterInv == \A l \in Letters :
  /\ letter[l] \in {"none", "reading", "skipped"} => l \notin sent
  /\ letter[l] \in {"none", "reading"} => known[l] = {}
  /\ letter[l] # "skipped" => \A k \in known[l] : Key(k) # Key(l)
  /\ letter[l] = "marking" => l \in sent
  /\ letter[l] = "skipped" => \E k \in sent : Key(k) = Key(l)

(***************************************************************************)
(* A letter whose mark has not expired has one, and there are no marks but *)
(* of letters that were sent.                                              *)
(***************************************************************************)
MarkInv ==
  /\ \A l \in fresh : Key(l) \in marks
  /\ \A key \in marks : \E l \in sent : Key(l) = key

(***************************************************************************)
(* Letters are not begun before they are posted.                           *)
(***************************************************************************)
UnsentInv == \A n \in Notices :
  /\ stage[n] \in {"new", "linking", "linked"} =>
       /\ branch[n] = "none"
       /\ \A l \in Letters : l.notice = n => letter[l] = "none"
  /\ branch[n] # "posted" =>
       \A l \in Letters :
         l.notice = n /\ l.role = "subscriber" => letter[l] = "none"

(***************************************************************************)
(* A chat that stayed subscribed is listed and then found, and a chat that *)
(* is found was subscribed at some time; those that were found got letters.*)
(***************************************************************************)
ToSubscriber(n, c) == [notice |-> n, role |-> "subscriber", chat |-> c]

ListInv == \A n \in Notices :
  /\ branch[n] \in {"none", "list"} => found[n] = {}
  /\ branch[n] \in {"list", "get"} =>
       /\ stay[n] \subseteq Subscribers(subscribed, n)
       /\ Subscribers(subscribed, n) \subseteq ever[n]
  /\ branch[n] = "get" =>
       stay[n] \subseteq reading[n] \cup found[n] /\ found[n] \subseteq ever[n]
  /\ branch[n] = "posted" =>
       /\ stay[n] \subseteq found[n] /\ found[n] \subseteq ever[n]
       /\ \A c \in Chats : letter[ToSubscriber(n, c)] # "none" <=> c \in found[n]

\* At first there are no letters and no marks.
LEMMA InitInv == Init => LetterInv /\ MarkInv /\ UnsentInv /\ ListInv
  BY DEF Init, LetterInv, MarkInv, UnsentInv, ListInv, ToSubscriber, Letters

(***************************************************************************)
(* A notice does nothing to letters but begin some that were not begun and *)
(* end some of its own that are not finished.                              *)
(***************************************************************************)
NoticeTouches ==
  /\ UNCHANGED <<sent, marks, fresh, known>>
  /\ \A l \in Letters :
       \/ letter'[l] = letter[l]
       \/ letter[l] = "none" /\ letter'[l] \in {"reading", "sending"}
       \/ letter[l] \in {"reading", "sending", "plain"} /\ letter'[l] = "lost"
       \/ letter[l] = "marking" /\ letter'[l] = "unmarked"

\* The steps of notices keep what letters know.
LEMMA NoticeLetters ==
  ASSUME TypeOK, UnsentInv, NEW n \in Notices, NoticeStep(n)
  PROVE  NoticeTouches
<1>1. CASE Begin(n) \/ Link(n) \/ List(n) \/ ListFails(n) \/ \E c \in Chats : Get(n, c)
  BY <1>1 DEF Begin, Link, List, ListFails, Get, letters, NoticeTouches
<1>2. CASE Open(n)
  <2>1. \A l \in Letters : l.notice = n => letter[l] = "none"
    BY <1>2 DEF Open, UnsentInv
  <2>2. \A role, chats : \A l \in LettersTo(n, role, chats) : letter[l] = "none"
    BY <2>1 DEF LettersTo
  <2>3. PICK new : Posting(new) /\ \A l \in new : l \in Letters => letter[l] = "none"
    BY <1>2, <2>2 DEF Open, ToStarter
  <2> QED
    BY <1>2, <2>3 DEF Open, Posting, NoticeTouches
<1>3. CASE Post(n)
  <2>1. \A l \in LettersTo(n, "subscriber", found[n]) : letter[l] = "none"
    BY <1>3 DEF Post, LettersTo, UnsentInv
  <2> QED
    BY <1>3, <2>1 DEF Post, Posting, NoticeTouches
<1>4. CASE Stop(n)
  BY <1>4 DEF Stop, TypeOK, NoticeTouches
<1> QED
  BY <1>1, <1>2, <1>3, <1>4 DEF NoticeStep

\* They put no marks.
LEMMA NoticeMarks ==
  ASSUME TypeOK, LetterInv, MarkInv, UnsentInv, ask' = ask,
         NEW n \in Notices, NoticeStep(n)
  PROVE  (LetterInv /\ MarkInv)'
<1>1. NoticeTouches
  BY NoticeLetters
<1>2. \A l : Key(l)' = Key(l)
  BY KeysStay
<1>3. MarkInv'
  BY <1>1, <1>2 DEF MarkInv, NoticeTouches
<1>4. LetterInv'
  BY <1>1, <1>2 DEF LetterInv, NoticeTouches
<1> QED
  BY <1>3, <1>4

\* The marks that letters put are of letters that were sent.
LEMMA LetterMarks ==
  ASSUME TypeOK, LetterInv, MarkInv, ask' = ask, NEW l \in Letters, LetterStep(l)
  PROVE  (LetterInv /\ MarkInv)'
<1>0. \A k : Key(k)' = Key(k)
  BY KeysStay
<1>1. CASE ReadKey(l)
  <2>1. Key(l) \notin marks => \A k \in fresh : Key(k) # Key(l)
    BY DEF MarkInv
  <2>2. Key(l) \in marks => \E k \in sent : Key(k) = Key(l)
    BY DEF MarkInv
  <2> QED
    BY <1>0, <1>1, <2>1, <2>2 DEF ReadKey, Becomes, LetterInv, MarkInv, TypeOK
<1>2. CASE Send(l) \/ SendPlain(l)
  <2>1. /\ letter[l] \in {"sending", "plain"}
        /\ sent \subseteq sent' /\ sent' \subseteq sent \cup {l}
        /\ UNCHANGED <<marks, fresh, known>>
        /\ \E next \in {"marking", "told", "plain", "lost"} :
             letter' = [letter EXCEPT ![l] = next] /\ (next = "marking" => l \in sent')
    BY <1>2 DEF Send, SendPlain, Delivered, Becomes
  <2>2. MarkInv'
    BY <1>0, <2>1 DEF MarkInv
  <2>3. LetterInv'
    BY <1>0, <2>1 DEF LetterInv, TypeOK
  <2> QED
    BY <2>2, <2>3
<1>3. CASE Mark(l)
  <2>1. l \in sent
    BY <1>3 DEF Mark, LetterInv
  <2> QED
    BY <1>0, <1>3, <2>1 DEF Mark, Becomes, LetterInv, MarkInv, TypeOK
<1> QED
  BY <1>1, <1>2, <1>3 DEF LetterStep

\* A mark that expires leaves the others.
LEMMA ExpireMarks ==
  ASSUME TypeOK, LetterInv, MarkInv, ask' = ask, NEW key \in marks, Expire(key)
  PROVE  (LetterInv /\ MarkInv)'
<1>1. \A k : Key(k)' = Key(k)
  BY KeysStay
<1> QED
  BY <1>1 DEF Expire, LettersOnly, LetterInv, MarkInv

-----------------------------------------------------------------------------
(* Lists *)

(***************************************************************************)
(* The letters that messages move were begun, and stay begun.              *)
(***************************************************************************)
LEMMA LetterLists ==
  ASSUME TypeOK, UnsentInv, ListInv, ask' = ask, NEW l \in Letters, LetterStep(l)
  PROVE  (UnsentInv /\ ListInv)'
<1>1. /\ letter[l] # "none"
      /\ \E next \in {"skipped", "sending", "plain", "marking", "told", "unmarked",
                     "lost"} :
           letter' = [letter EXCEPT ![l] = next]
      /\ UNCHANGED <<subscribed, notices>>
  BY DEF LetterStep, ReadKey, Send, SendPlain, Mark, Delivered, Becomes, LettersOnly
<1>2. \A k \in Letters : letter'[k] = "none" <=> letter[k] = "none"
  BY <1>1 DEF TypeOK
<1>3. UnsentInv'
  BY <1>1, <1>2 DEF UnsentInv, notices
<1>4. \A n \in Notices, c \in Chats : ToSubscriber(n, c) \in Letters
  BY DEF ToSubscriber, Letters
<1>5. \A n \in Notices : Subscribers(subscribed, n)' = Subscribers(subscribed, n)
  BY <1>1 DEF Subscribers
<1>6. \A n \in Notices, c \in Chats :
        letter'[ToSubscriber(n, c)] # "none" <=> letter[ToSubscriber(n, c)] # "none"
  BY <1>2, <1>4
<1>7. ListInv'
  BY <1>1, <1>5, <1>6 DEF ListInv, notices, ToSubscriber
<1> QED
  BY <1>3, <1>7

(***************************************************************************)
(* A notice begins letters of its own only, and those to subscribers when  *)
(* it has found them.                                                      *)
(***************************************************************************)
LEMMA NoticeUnsent ==
  ASSUME TypeOK, UnsentInv, NEW n \in Notices, NoticeStep(n)
  PROVE  UnsentInv'
<1>1. CASE Begin(n) \/ Link(n) \/ List(n) \/ ListFails(n) \/ \E c \in Chats : Get(n, c)
  <2>1. letter' = letter
    BY <1>1 DEF Begin, Link, List, ListFails, Get, letters
  <2>2. \A m \in Notices :
          /\ branch'[m] = "posted" <=> branch[m] = "posted"
          /\ stage'[m] \in {"new", "linking", "linked"} =>
               stage[m] \in {"new", "linking", "linked"} /\ branch'[m] = branch[m]
    BY <1>1 DEF Begin, Link, List, ListFails, Get, TypeOK, UnsentInv
  <2> QED
    BY <2>1, <2>2 DEF UnsentInv
<1>2. CASE Open(n)
  <2>1. PICK new : /\ Posting(new)
                   /\ \A l \in new : l.notice = n /\ l.role # "subscriber"
    BY <1>2 DEF Open, ToStarter, LettersTo
  <2>2. stage' = [stage EXCEPT ![n] = "open"]
        /\ \A m \in Notices : branch'[m] \in {branch[m], "list"} /\ (m # n => branch'[m] = branch[m])
    BY <1>2 DEF Open, TypeOK
  <2>3. \A l \in Letters : l.notice # n \/ l.role = "subscriber" => letter'[l] = letter[l]
    BY <2>1 DEF Posting
  <2>4. branch[n] = "none"
    BY <1>2 DEF Open, UnsentInv
  <2> QED
    BY <2>2, <2>3, <2>4 DEF UnsentInv, TypeOK
<1>3. CASE Post(n)
  <2>1. \A l \in Letters : l.notice # n => letter'[l] = letter[l]
    BY <1>3 DEF Post, Posting, LettersTo
  <2> QED
    BY <1>3, <2>1 DEF Post, UnsentInv, TypeOK
<1>4. CASE Stop(n)
  <2>1. \A l \in Letters : letter[l] = "none" => letter'[l] = "none"
    BY <1>4 DEF Stop
  <2>2. \A m \in Notices :
          /\ branch'[m] # "posted" => branch[m] # "posted"
          /\ stage'[m] \in {"new", "linking", "linked"} =>
               stage'[m] = stage[m] /\ branch'[m] = branch[m]
    BY <1>4 DEF Stop, TypeOK
  <2> QED
    BY <2>1, <2>2 DEF UnsentInv
<1> QED
  BY <1>1, <1>2, <1>3, <1>4 DEF NoticeStep

\* A listing finds who stayed subscribed, and writes to those found.
LEMMA NoticeLists ==
  ASSUME TypeOK, UnsentInv, ListInv, ask' = ask, NEW n \in Notices, NoticeStep(n)
  PROVE  ListInv'
<1>0. \A m \in Notices, c \in Chats :
        /\ ToSubscriber(m, c) \in Letters
        /\ ToSubscriber(m, c).notice = m /\ ToSubscriber(m, c).chat = c
        /\ ToSubscriber(m, c).role = "subscriber"
  BY DEF ToSubscriber, Letters
<1>1. subscribed' = subscribed => \A m \in Notices :
        Subscribers(subscribed, m)' = Subscribers(subscribed, m)
  BY DEF Subscribers
<1>2. ASSUME \A m \in Notices, c \in Chats : letter'[ToSubscriber(m, c)] # "none"
                                          <=> letter[ToSubscriber(m, c)] # "none",
             subscribed' = subscribed,
             UNCHANGED <<reading, found, stay, ever>>,
             \A m \in Notices : branch'[m] \in {branch[m], "failed"}
      PROVE  ListInv'
  BY <1>1, <1>2 DEF ListInv, ToSubscriber
<1>3. CASE Begin(n) \/ ListFails(n)
  BY <1>2, <1>3 DEF Begin, ListFails, letters, TypeOK
<1>4. CASE Link(n)
  <2>1. letter' = letter /\ UNCHANGED <<branch, reading, found>>
    BY <1>4 DEF Link, letters
  <2>2. \A m \in Notices : Subscribers(subscribed, m)' = Subscribers(subscribed', m)
    BY DEF Subscribers
  <2>3. \A m \in Notices :
          /\ stay'[m] \subseteq stay[m] /\ stay'[m] \subseteq Subscribers(subscribed, m)'
          /\ ever[m] \subseteq ever'[m]
          /\ branch[m] \in {"list", "get"} => Subscribers(subscribed, m)' \subseteq ever'[m]
    BY <1>4, <2>2 DEF Link
  <2> QED
    BY <2>1, <2>3 DEF ListInv, ToSubscriber
<1>5. CASE Open(n)
  <2>1. \A m \in Notices, c \in Chats : letter'[ToSubscriber(m, c)] = letter[ToSubscriber(m, c)]
    <3>1. PICK new : Posting(new) /\ \A l \in new : l.role # "subscriber"
      BY <1>5 DEF Open, ToStarter, LettersTo
    <3> QED
      BY <1>0, <3>1 DEF Posting
  <2>2. CASE ~ HasSubscribers(n)
    BY <1>2, <1>5, <2>1, <2>2 DEF Open
  <2>3. CASE HasSubscribers(n)
    <3>1. branch[n] = "none"
      BY <1>5 DEF Open, UnsentInv
    <3>2. found[n] = {}
      BY <3>1 DEF ListInv
    <3>3. /\ branch'[n] = "list" /\ found'[n] = {}
          /\ stay'[n] = Subscribers(subscribed, n)
          /\ ever'[n] = Subscribers(subscribed, n)
      BY <1>5, <2>3, <3>2 DEF Open, TypeOK
    <3>4. \A m \in Notices : m # n => /\ branch'[m] = branch[m] /\ stay'[m] = stay[m]
                                    /\ ever'[m] = ever[m]
      BY <1>5, <2>3 DEF Open, TypeOK
    <3>5. UNCHANGED <<subscribed, reading, found>>
      BY <1>5 DEF Open
    <3> QED
      BY <1>1, <2>1, <3>3, <3>4, <3>5 DEF ListInv, ToSubscriber
  <2> QED
    BY <2>2, <2>3
<1>6. CASE List(n)
  <2>1. Subscribers(subscribed, n) \subseteq {c \in Chats : subscribed[ask[n].app][c] # {}}
    BY DEF Subscribers
  <2> QED
    BY <1>1, <1>6, <2>1 DEF List, letters, ListInv, ToSubscriber, TypeOK
<1>7. CASE \E c \in Chats : Get(n, c)
  <2>1. PICK c \in Chats : Get(n, c)
    BY <1>7
  <2>2. c \in Subscribers(subscribed, n) <=> ask[n].event \in subscribed[ask[n].app][c]
    BY DEF Subscribers
  <2>3. found'[n] = IF c \in Subscribers(subscribed, n) THEN found[n] \cup {c} ELSE found[n]
    BY <2>1, <2>2 DEF Get, TypeOK
  <2>4. reading'[n] = reading[n] \ {c}
    BY <2>1 DEF Get, TypeOK
  <2>5. \A m \in Notices : m # n => found'[m] = found[m] /\ reading'[m] = reading[m]
    BY <2>1 DEF Get, TypeOK
  <2>6. letter' = letter /\ subscribed' = subscribed /\ UNCHANGED <<branch, stay, ever>>
        /\ branch[n] = "get"
    BY <2>1 DEF Get, letters
  <2> QED
    BY <1>1, <2>3, <2>4, <2>5, <2>6 DEF ListInv, ToSubscriber
<1>8. CASE Post(n)
  <2>1. \A c \in Chats : letter'[ToSubscriber(n, c)] # "none" <=> c \in found[n]
    <3>1. \A c \in Chats : letter[ToSubscriber(n, c)] = "none"
      BY <1>0, <1>8 DEF Post, UnsentInv
    <3>2. \A c \in Chats :
            ToSubscriber(n, c) \in LettersTo(n, "subscriber", found[n]) <=> c \in found[n]
      BY <1>0 DEF LettersTo
    <3> QED
      BY <1>0, <1>8, <3>1, <3>2 DEF Post, Posting
  <2>2. \A m \in Notices, c \in Chats :
          m # n => letter'[ToSubscriber(m, c)] = letter[ToSubscriber(m, c)]
    BY <1>0, <1>8 DEF Post, Posting, LettersTo
  <2>3. stay[n] \subseteq found[n] /\ found[n] \subseteq ever[n]
    BY <1>8 DEF Post, ListInv
  <2>4. /\ branch'[n] = "posted" /\ \A m \in Notices : m # n => branch'[m] = branch[m]
        /\ UNCHANGED <<subscribed, reading, found, stay, ever>>
    BY <1>8 DEF Post, TypeOK
  <2> QED
    BY <1>1, <2>1, <2>2, <2>3, <2>4 DEF ListInv, ToSubscriber
<1>9. CASE Stop(n)
  <2>1. \A l \in Letters : letter'[l] # "none" <=> letter[l] # "none"
    BY <1>9 DEF Stop
  <2> QED
    BY <1>0, <1>2, <1>9, <2>1 DEF Stop, TypeOK
<1> QED
  BY <1>3, <1>4, <1>5, <1>6, <1>7, <1>8, <1>9 DEF NoticeStep

Inv == TypeOK /\ LetterInv /\ MarkInv /\ UnsentInv /\ ListInv

\* Every step keeps the parts.
LEMMA InvStep ==
  ASSUME Inv, [Next]_vars
  PROVE  Inv'
<1>1. TypeOK' /\ ask' = ask
  BY TypeStep, AskStays DEF Inv
<1>2. CASE \E n \in Notices : NoticeStep(n)
  BY <1>1, <1>2, NoticeMarks, NoticeUnsent, NoticeLists DEF Inv
<1>3. CASE \E l \in Letters : LetterStep(l)
  BY <1>1, <1>3, LetterMarks, LetterLists DEF Inv
<1>4. ASSUME NEW key \in marks, Expire(key)
      PROVE  Inv'
  <2>1. letter' = letter /\ UNCHANGED <<subscribed, notices>>
    BY <1>4 DEF Expire, LettersOnly
  <2>2. (UnsentInv /\ ListInv)'
    BY <1>1, <2>1 DEF Inv, UnsentInv, ListInv, notices, Subscribers, ToSubscriber
  <2> QED
    BY <1>1, <1>4, <2>2, ExpireMarks DEF Inv
<1>5. CASE UNCHANGED vars
  <2>1. \A k : Key(k)' = Key(k)
    BY <1>1, KeysStay
  <2>2. (LetterInv /\ MarkInv)'
    BY <1>5, <2>1 DEF Inv, LetterInv, MarkInv, vars, letters
  <2>3. (UnsentInv /\ ListInv)'
    BY <1>5 DEF Inv, UnsentInv, ListInv, vars, letters, notices, Subscribers, ToSubscriber
  <2> QED
    BY <1>1, <2>2, <2>3 DEF Inv
<1> QED
  BY <1>2, <1>3, <1>4, <1>5, Steps

\* The parts are an invariant.
LEMMA InvHolds == Spec => []Inv
<1>1. Init => Inv
  BY InitType, InitInv DEF Inv
<1>2. Inv /\ [Next]_vars => Inv'
  BY InvStep
<1> QED
  BY <1>1, <1>2, PTL DEF Spec

(***************************************************************************)
(* A chat is told again of what it was told only when the first message    *)
(* had no mark when that of the second was read: however many notices are  *)
(* told at once and whatever is lost, fails or expires.                    *)
(***************************************************************************)
THEOREM MarksKeepFromTelling == Spec => []ToldAgainOnlyWhenUnmarked
<1>1. Inv => ToldAgainOnlyWhenUnmarked
  <2>1. ASSUME TypeOK, LetterInv, NEW l \in sent, NEW k \in known[l]
        PROVE  Key(k) # Key(l)
    BY <2>1 DEF TypeOK, LetterInv
  <2> QED
    BY <2>1 DEF Inv, ToldAgainOnlyWhenUnmarked
<1> QED
  BY <1>1, InvHolds, PTL

(***************************************************************************)
(* Nobody is passed over: a chat that stays subscribed is told, one that   *)
(* never was is not, and what is left out was told before.                 *)
(***************************************************************************)
THEOREM NobodyIsPassedOver == Spec => []EveryoneIsTold
<1>1. Inv => EveryoneIsTold
  <2>1. ASSUME ListInv, NEW n \in Notices, branch[n] = "posted",
               NEW told, told = {c \in Chats : letter[ToSubscriber(n, c)] # "none"},
               stay[n] \subseteq Chats, found[n] \subseteq Chats
        PROVE  stay[n] \subseteq told /\ told \subseteq ever[n]
    BY <2>1 DEF ListInv
  <2>2. ASSUME LetterInv, NEW l \in Letters, letter[l] = "skipped"
        PROVE  \E k \in sent : k # l /\ Key(k) = Key(l)
    BY <2>2 DEF LetterInv
  <2> QED
    BY <2>1, <2>2 DEF Inv, EveryoneIsTold, TypeOK, ToSubscriber
<1> QED
  BY <1>1, InvHolds, PTL
=============================================================================
