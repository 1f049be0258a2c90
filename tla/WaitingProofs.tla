---------------------------- MODULE WaitingProofs ---------------------------
(***************************************************************************)
(* Resize transactions, for any windows, transactions and bounds: whatever *)
(* waits for a transaction has a deadline, and a commit whose blockers are *)
(* released is never forgotten.                                            *)
(*                                                                         *)
(* IPC requests, for any number of clients and any queue of callbacks: a   *)
(* client that waits has one way to get its answer, the answer to an       *)
(* action comes after the action, and who waits for a pick has the         *)
(* pointer's grab.                                                         *)
(***************************************************************************)
EXTENDS Transaction, IpcRequests, TLAPS

-----------------------------------------------------------------------------
(* IPC requests.                                                           *)

Entries == [client : RqClients, what : Awaited \cup {"config"}]
Replies == {"none", "info", "done", "picked"}
Channels == {<<>>} \cup {<<m>> : m \in Replies}
RqTypeOK ==
  /\ rqTask \in [RqClients -> {"read", "await", "closed"}]
  /\ rqAsked \in [RqClients -> Awaited \cup {"nothing"}]
  /\ rqIdle \in Seq(Entries)
  /\ rqChan \in [RqClients -> Channels]
  /\ rqGrab \in {"none", "window", "color", "other"}
  /\ rqPick \in [Picks -> RqClients \cup {NoClient}]
  /\ rqRan \subseteq RqClients

\* A callback that will answer: all but the ones that change an output's config.
Answers(i) == rqIdle[i].what # "config"
Waiting(c) == \E i \in DOMAIN rqIdle : rqIdle[i].client = c /\ Answers(i)
Picking(c) == \E p \in Picks : rqPick[p] = c

\* Each place an answer can come from has a client that waits for just that, and the
\* three exclude each other.
WaitsFor(c, what) == rqTask[c] = "await" /\ rqAsked[c] = what /\ rqChan[c] = <<>> /\ ~Picking(c)
CallbacksOfWaiting == \A i \in DOMAIN rqIdle : Answers(i) => WaitsFor(rqIdle[i].client, rqIdle[i].what)
OneCallback ==
  \A i, j \in DOMAIN rqIdle : rqIdle[i].client = rqIdle[j].client /\ Answers(i) /\ Answers(j) => i = j
PicksOfWaiting ==
  \A p \in Picks : rqPick[p] # NoClient =>
    rqTask[rqPick[p]] = "await" /\ rqAsked[rqPick[p]] = p /\ rqChan[rqPick[p]] = <<>>
AnswersOfWaiting ==
  \A c \in RqClients : rqChan[c] # <<>> => rqTask[c] = "await" /\ (rqAsked[c] = "action" => c \in rqRan)
SomeAnswer ==
  \A c \in RqClients : rqTask[c] = "await" => rqChan[c] # <<>> \/ Picking(c) \/ Waiting(c)

RqInv ==
  /\ RqTypeOK /\ PickHasItsGrab
  /\ CallbacksOfWaiting /\ OneCallback /\ PicksOfWaiting /\ AnswersOfWaiting /\ SomeAnswer

\* Append puts its element at the end.
LEMMA Appended ==
    ASSUME NEW S, NEW s \in Seq(S), NEW e \in S
    PROVE  /\ Append(s, e) \in Seq(S) /\ Len(Append(s, e)) = Len(s) + 1
           /\ Append(s, e)[Len(s) + 1] = e /\ \A i \in 1 .. Len(s) : Append(s, e)[i] = s[i]
  OBVIOUS

\* An empty sequence is one of any kind.
LEMMA EmptySequence ==
    ASSUME NEW S
    PROVE  <<>> \in Seq(S) /\ \A s \in Seq(S) : s = <<>> <=> Len(s) = 0
  OBVIOUS

\* The server starts in the invariant.
LEMMA RqInitInv == RqInit => RqInv
<1> SUFFICES ASSUME RqInit PROVE RqInv
  BY Zenon
<1> USE DEF RqInit
<1>1. RqTypeOK
  BY EmptySequence, Zenon DEF RqTypeOK, Channels
<1>2. CallbacksOfWaiting /\ OneCallback
  BY DEF CallbacksOfWaiting, OneCallback
<1>3. PickHasItsGrab /\ PicksOfWaiting
  BY Zenon DEF PickHasItsGrab, PicksOfWaiting
<1>4. AnswersOfWaiting /\ SomeAnswer
  BY Zenon DEF AnswersOfWaiting, SomeAnswer
<1> QED
  BY <1>1, <1>2, <1>3, <1>4, ZenonT(60) DEF RqInv

\* Callbacks are of clients.
LEMMA IdleFacts ==
  ASSUME RqTypeOK, NEW i \in DOMAIN rqIdle
  PROVE  rqIdle[i] \in Entries /\ rqIdle[i].client \in RqClients /\ rqIdle[i].what \in Awaited \cup {"config"}
<1>1. rqIdle[i] \in Entries
  BY DEF RqTypeOK
<1> QED
  BY <1>1, Zenon DEF Entries

-----------------------------------------------------------------------------
\* The end of a grab: no pick is left, and who waited for one has the answer.
Cancelled(pick, chan, m) ==
  /\ pick = [p \in Picks |-> NoClient]
  /\ chan = [c \in RqClients |-> IF Picking(c) THEN <<m>> ELSE rqChan[c]]

\* on_ungrab answers the pick of the grab that ends; by PickHasItsGrab there is no other.
LEMMA OnUngrabFacts ==
  ASSUME RqInv
  PROVE  Cancelled(OnUngrab(rqPick, rqChan).pick, OnUngrab(rqPick, rqChan).chan, "none")
<1> USE RqAssumption DEF RqInv
<1> DEFINE c == IF rqGrab \in Picks THEN rqPick[rqGrab] ELSE NoClient
           u == OnUngrab(rqPick, rqChan)
<1>1. CASE c = NoClient
  <2>1. u.pick = rqPick /\ u.chan = rqChan
    BY <1>1, Zenon DEF OnUngrab
  <2>2. \A p \in Picks : rqPick[p] = NoClient
    BY <1>1, Zenon DEF PickHasItsGrab
  <2> QED
    BY <2>1, <2>2 DEF Cancelled, Picking, RqTypeOK
<1>2. CASE c # NoClient
  <2>1. rqGrab \in Picks /\ c = rqPick[rqGrab] /\ c \in RqClients
    BY <1>2, Zenon DEF RqTypeOK
  <2>2. u.pick = [rqPick EXCEPT ![rqGrab] = NoClient] /\ u.chan = [rqChan EXCEPT ![c] = Append(@, "none")]
    BY <1>2, <2>1, Zenon DEF OnUngrab
  <2>3. \A p \in Picks : p # rqGrab => rqPick[p] = NoClient
    BY Zenon DEF PickHasItsGrab
  <2>4. rqChan[c] = <<>>
    BY <1>2, <2>1, Zenon DEF PicksOfWaiting
  <2>5. \A d \in RqClients : Picking(d) <=> d = c
    BY <2>1, <2>3, Zenon DEF Picking
  <2>6. Append(<<>>, "none") = <<"none">>
    OBVIOUS
  <2> HIDE DEF u, c
  <2>7. u.pick = [p \in Picks |-> NoClient]
    BY <2>1, <2>2, <2>3, ZenonT(60) DEF RqTypeOK
  <2>8. u.chan = [d \in RqClients |-> IF Picking(d) THEN <<"none">> ELSE rqChan[d]]
    BY <2>1, <2>2, <2>4, <2>5, <2>6, ZenonT(60) DEF RqTypeOK
  <2> QED
    BY <2>7, <2>8, Zenon DEF Cancelled, u
<1> QED
  BY <1>1, <1>2, Zenon

\* Whatever ends the grab, the client that waited for its pick has its answer.
LEMMA GrabEnds ==
  ASSUME RqInv, NEW m \in Replies, Cancelled(rqPick', rqChan', m),
         rqGrab' \in {"none", "other"}, UNCHANGED <<rqTask, rqAsked, rqIdle, rqRan>>
  PROVE  RqInv'
<1> USE RqAssumption DEF RqInv
<1>1. /\ rqPick' = [p \in Picks |-> NoClient]
      /\ rqChan' = [c \in RqClients |-> IF Picking(c) THEN <<m>> ELSE rqChan[c]]
  BY Zenon DEF Cancelled
<1>2. RqTypeOK'
  BY <1>1, Zenon DEF RqTypeOK, Channels
<1>3. \A c \in RqClients : ~Picking(c)'
  BY <1>1, Zenon DEF Picking
<1>4. PickHasItsGrab' /\ PicksOfWaiting'
  BY <1>1, Zenon DEF PickHasItsGrab, PicksOfWaiting
<1>5. CallbacksOfWaiting' /\ OneCallback'
  <2>1. \A i \in DOMAIN rqIdle : rqIdle[i].client \in RqClients
    BY IdleFacts, Zenon
  <2> QED
    BY <1>1, <1>3, <2>1, Zenon DEF CallbacksOfWaiting, WaitsFor, OneCallback, Answers
<1>6. AnswersOfWaiting'
  BY <1>1, ZenonT(60) DEF AnswersOfWaiting, PicksOfWaiting, Picking, Picks
<1>7. SomeAnswer'
  BY <1>1, Zenon DEF SomeAnswer, Waiting, Answers
<1> QED
  BY <1>2, <1>4, <1>5, <1>6, <1>7, ZenonT(60)

\* A click answers the pick it was for, and ends the grab.
LEMMA PickUnderPointerStep == ASSUME RqInv, PickUnderPointer PROVE RqInv'
<1> USE RqAssumption DEF RqInv
<1> DEFINE c == rqPick[rqGrab]
<1>1. rqGrab \in Picks /\ rqGrab' = "none" /\ UNCHANGED <<rqTask, rqAsked, rqIdle, rqRan>>
  BY Zenon DEF PickUnderPointer
<1>2. \A p \in Picks : p # rqGrab => rqPick[p] = NoClient
  BY Zenon DEF PickHasItsGrab
<1>3. Cancelled(rqPick', rqChan', "picked")
  <2>1. CASE c = NoClient
    BY <1>1, <1>2, <2>1 DEF PickUnderPointer, Cancelled, Picking, RqTypeOK
  <2>2. CASE c # NoClient
    <3>1. c \in RqClients /\ rqChan[c] = <<>> /\ Append(<<>>, "picked") = <<"picked">>
      BY <1>1, <2>2 DEF RqTypeOK, PicksOfWaiting
    <3>2. \A d \in RqClients : Picking(d) <=> d = c
      BY <1>1, <1>2, <3>1, Zenon DEF Picking
    <3>3. rqChan' = [rqChan EXCEPT ![c] = Append(@, "picked")] /\ rqPick' = [rqPick EXCEPT ![rqGrab] = NoClient]
      BY <2>2, Zenon DEF PickUnderPointer
    <3> HIDE DEF c
    <3>4. rqPick' = [p \in Picks |-> NoClient]
      BY <1>1, <1>2, <3>3, Zenon DEF RqTypeOK
    <3>5. rqChan' = [d \in RqClients |-> IF Picking(d) THEN <<"picked">> ELSE rqChan[d]]
      BY <3>1, <3>2, <3>3, Zenon DEF RqTypeOK
    <3> QED
      BY <3>4, <3>5, Zenon DEF Cancelled
  <2> QED
    BY <2>1, <2>2, Zenon
<1> QED
  BY <1>1, <1>3, GrabEnds, Zenon DEF Replies

\* The grab ends otherwise, or another one takes its place.
LEMMA UngrabStep == ASSUME RqInv, EndGrab \/ OtherGrab PROVE RqInv'
<1>1. Cancelled(rqPick', rqChan', "none")
  BY OnUngrabFacts, Zenon DEF EndGrab, OtherGrab
<1> QED
  BY <1>1, GrabEnds, Zenon DEF EndGrab, OtherGrab, Replies

\* A request is queued: the client had no answer on its way.
LEMMA AskStep == ASSUME RqInv, NEW c \in RqClients, NEW what \in Awaited, Ask(c, what) PROVE RqInv'
<1> USE RqAssumption DEF RqInv
<1> DEFINE e == [client |-> c, what |-> what]
           n == Len(rqIdle)
<1>1. /\ rqTask[c] = "read" /\ rqTask' = [rqTask EXCEPT ![c] = "await"]
      /\ rqAsked' = [rqAsked EXCEPT ![c] = what] /\ rqIdle' = Append(rqIdle, e)
      /\ rqRan' = rqRan \ {c} /\ UNCHANGED <<rqChan, rqGrab, rqPick>>
  BY Zenon DEF Ask
<1>2. e \in Entries /\ e.client = c /\ e.what = what /\ what # "config"
  BY Zenon DEF Entries, Awaited
<1> HIDE DEF e
<1>3. /\ rqIdle' \in Seq(Entries) /\ n \in Nat /\ DOMAIN rqIdle = 1 .. n /\ DOMAIN rqIdle' = 1 .. n + 1
      /\ rqIdle'[n + 1] = e /\ \A i \in 1 .. n : rqIdle'[i] = rqIdle[i]
  BY <1>1, <1>2, Appended, SMTT(30) DEF RqTypeOK
<1> HIDE DEF n
<1>4. rqChan[c] = <<>> /\ ~Picking(c) /\ ~Waiting(c)
  BY <1>1 DEF AnswersOfWaiting, PicksOfWaiting, Picking, CallbacksOfWaiting, WaitsFor, Waiting
<1>5. RqTypeOK'
  BY <1>1, <1>3, Zenon DEF RqTypeOK
<1>6. PickHasItsGrab' /\ PicksOfWaiting'
  BY <1>1, <1>4, SMTT(30) DEF PickHasItsGrab, PicksOfWaiting, Picking, RqTypeOK
<1>7. \A i \in 1 .. n : rqIdle[i].client \in RqClients /\ (Answers(i) => rqIdle[i].client # c)
  BY <1>3, <1>4, IdleFacts, Zenon DEF Waiting
<1>8. CallbacksOfWaiting'
  <2> SUFFICES ASSUME NEW i \in DOMAIN rqIdle', Answers(i)'
               PROVE  WaitsFor(rqIdle[i].client, rqIdle[i].what)'
    BY Zenon DEF CallbacksOfWaiting
  <2>1. CASE i = n + 1
    BY <1>1, <1>2, <1>3, <1>4, <2>1, Zenon DEF WaitsFor, Picking, RqTypeOK
  <2>2. CASE i \in 1 .. n
    <3>1. Answers(i) /\ rqIdle[i].client \in RqClients /\ rqIdle[i].client # c /\ rqIdle'[i] = rqIdle[i]
      BY <1>3, <1>7, <2>2, ZenonT(60) DEF Answers
    <3>2. WaitsFor(rqIdle[i].client, rqIdle[i].what)
      BY <1>3, <2>2, <3>1, ZenonT(60) DEF CallbacksOfWaiting
    <3> QED
      BY <1>1, <3>1, <3>2, ZenonT(60) DEF WaitsFor, Picking, RqTypeOK
  <2> QED
    BY <1>3, <2>1, <2>2
<1>9. OneCallback'
  BY <1>2, <1>3, <1>7 DEF OneCallback, Answers
<1>10. AnswersOfWaiting'
  BY <1>1, <1>4, Zenon DEF AnswersOfWaiting, RqTypeOK
<1>11. SomeAnswer'
  <2> SUFFICES ASSUME NEW d \in RqClients, rqTask'[d] = "await"
               PROVE  rqChan'[d] # <<>> \/ Picking(d)' \/ Waiting(d)'
    BY Zenon DEF SomeAnswer
  <2>1. CASE d = c
    BY <1>2, <1>3, <2>1, SMTT(30) DEF Waiting, Answers
  <2>2. CASE d # c
    <3>1. rqChan[d] # <<>> \/ Picking(d) \/ Waiting(d)
      BY <1>1, <2>2, Zenon DEF SomeAnswer, RqTypeOK
    <3>2. Waiting(d) => Waiting(d)'
      BY <1>3 DEF Waiting, Answers
    <3> QED
      BY <1>1, <3>1, <3>2, Zenon DEF Picking
  <2> QED
    BY <2>1, <2>2, Zenon
<1> QED
  BY <1>5, <1>6, <1>8, <1>9, <1>10, <1>11, Zenon

\* Request::Output leaves a callback that answers nobody.
LEMMA AskOutputStep == ASSUME RqInv, NEW c \in RqClients, AskOutput(c) PROVE RqInv'
<1> USE RqAssumption DEF RqInv
<1> DEFINE e == [client |-> c, what |-> "config"]
           n == Len(rqIdle)
<1>1. rqIdle' = Append(rqIdle, e) /\ UNCHANGED <<rqTask, rqAsked, rqChan, rqGrab, rqPick, rqRan>>
  BY Zenon DEF AskOutput
<1>2. e \in Entries /\ e.what = "config"
  BY Zenon DEF Entries
<1> HIDE DEF e
<1>3. /\ rqIdle' \in Seq(Entries) /\ n \in Nat /\ DOMAIN rqIdle = 1 .. n /\ DOMAIN rqIdle' = 1 .. n + 1
      /\ rqIdle'[n + 1] = e /\ \A i \in 1 .. n : rqIdle'[i] = rqIdle[i]
  BY <1>1, <1>2, Appended DEF RqTypeOK
<1> HIDE DEF n
<1>4. \A i \in DOMAIN rqIdle' : Answers(i)' => i \in DOMAIN rqIdle /\ Answers(i) /\ rqIdle'[i] = rqIdle[i]
  BY <1>2, <1>3 DEF Answers
<1>5. \A d : Picking(d)' <=> Picking(d)
  BY <1>1, Zenon DEF Picking
<1>6. \A d : Waiting(d) => Waiting(d)'
  BY <1>3, SMTT(30) DEF Waiting, Answers
<1>7. RqTypeOK'
  BY <1>1, <1>3, Zenon DEF RqTypeOK
<1>8. CallbacksOfWaiting'
  BY <1>1, <1>4, <1>5, SMTT(30) DEF CallbacksOfWaiting, WaitsFor
<1>9. OneCallback'
  BY <1>4, Zenon DEF OneCallback
<1>10. PickHasItsGrab' /\ PicksOfWaiting' /\ AnswersOfWaiting'
  BY <1>1, Zenon DEF PickHasItsGrab, PicksOfWaiting, AnswersOfWaiting
<1>11. SomeAnswer'
  BY <1>1, <1>5, <1>6, ZenonT(60) DEF SomeAnswer
<1> QED
  BY <1>7, <1>8, <1>9, <1>10, <1>11, Zenon

\* handle_client takes its answer, leaves, or is a new task.
LEMMA TaskStep == ASSUME RqInv, NEW c \in RqClients, Answer(c) \/ Leave(c) \/ Connect(c) PROVE RqInv'
<1> USE RqAssumption DEF RqInv
<1>1. UNCHANGED <<rqIdle, rqGrab, rqPick, rqRan>>
  BY Zenon DEF Answer, Leave, Connect
<1>2. \A d : (Picking(d)' <=> Picking(d)) /\ (Waiting(d)' <=> Waiting(d))
  BY <1>1, Zenon DEF Picking, Waiting, Answers
<1>3. ~Picking(c) /\ ~Waiting(c)
  BY SMTT(30) DEF Answer, Leave, Connect, Picking, PicksOfWaiting, Waiting, CallbacksOfWaiting, WaitsFor
<1>4. /\ rqTask' \in [RqClients -> {"read", "await", "closed"}] /\ rqTask'[c] # "await"
      /\ \A d \in RqClients : d # c => rqTask'[d] = rqTask[d]
  BY DEF Answer, Leave, Connect, RqTypeOK
<1>5. /\ rqAsked' \in [RqClients -> Awaited \cup {"nothing"}]
      /\ \A d \in RqClients : d # c => rqAsked'[d] = rqAsked[d]
  BY ZenonT(60) DEF Answer, Leave, Connect, RqTypeOK
<1>6. /\ rqChan' \in [RqClients -> Channels] /\ rqChan'[c] = <<>>
      /\ \A d \in RqClients : d # c => rqChan'[d] = rqChan[d]
  <2>1. CASE rqChan' = [rqChan EXCEPT ![c] = <<>>]
    BY <2>1, Zenon DEF RqTypeOK, Channels
  <2>2. CASE rqTask[c] # "await" /\ rqChan' = rqChan
    BY <2>2, Zenon DEF RqTypeOK, AnswersOfWaiting
  <2> QED
    BY <2>1, <2>2, Zenon DEF Answer, Leave, Connect
<1>7. RqTypeOK'
  BY <1>1, <1>4, <1>5, <1>6, ZenonT(60) DEF RqTypeOK
<1>8. CallbacksOfWaiting'
  <2> SUFFICES ASSUME NEW i \in DOMAIN rqIdle, Answers(i)
               PROVE  WaitsFor(rqIdle[i].client, rqIdle[i].what)'
    BY <1>1, Zenon DEF CallbacksOfWaiting, Answers
  <2>1. rqIdle[i].client # c /\ rqIdle[i].client \in RqClients
    BY <1>3, IdleFacts, Zenon DEF Waiting
  <2>2. WaitsFor(rqIdle[i].client, rqIdle[i].what)
    BY Zenon DEF CallbacksOfWaiting
  <2> QED
    BY <1>1, <1>2, <1>4, <1>5, <1>6, <2>1, <2>2, ZenonT(60) DEF WaitsFor
<1>9. OneCallback' /\ PickHasItsGrab'
  BY <1>1, Zenon DEF OneCallback, PickHasItsGrab, Answers
<1>10. PicksOfWaiting'
  BY <1>1, <1>3, <1>4, <1>5, <1>6, SMTT(30) DEF PicksOfWaiting, Picking, RqTypeOK
<1>11. AnswersOfWaiting'
  BY <1>1, <1>4, <1>5, <1>6, Zenon DEF AnswersOfWaiting
<1>12. SomeAnswer'
  BY <1>2, <1>4, <1>6, Zenon DEF SomeAnswer
<1> QED
  BY <1>7, <1>8, <1>9, <1>10, <1>11, <1>12, ZenonT(60)

\* The first callback leaves the queue: the others move up, and its client has no other.
LEMMA TailFacts ==
  ASSUME RqInv, rqIdle # <<>>, rqIdle' = Tail(rqIdle)
  PROVE  /\ Head(rqIdle) \in Entries /\ rqIdle' \in Seq(Entries)
         /\ OneCallback'
         /\ \A i \in DOMAIN rqIdle' : i + 1 \in DOMAIN rqIdle /\ rqIdle'[i] = rqIdle[i + 1]
         /\ Head(rqIdle) = rqIdle[1] /\ 1 \in DOMAIN rqIdle
         /\ Head(rqIdle).what # "config" => \A i \in DOMAIN rqIdle' : Answers(i)' => rqIdle'[i].client # Head(rqIdle).client
         /\ \A d : Waiting(d) => Waiting(d)' \/ (d = Head(rqIdle).client /\ Head(rqIdle).what # "config")
<1> USE DEF RqInv
<1> DEFINE n == Len(rqIdle)
<1>1. /\ rqIdle \in Seq(Entries) /\ n \in Nat \ {0} /\ DOMAIN rqIdle = 1 .. n
      /\ rqIdle' \in Seq(Entries) /\ DOMAIN rqIdle' = 1 .. n - 1
      /\ \A i \in 1 .. n - 1 : rqIdle'[i] = rqIdle[i + 1]
      /\ Head(rqIdle) = rqIdle[1]
  BY EmptySequence DEF RqTypeOK
<1> HIDE DEF n
<1>2. \A i \in DOMAIN rqIdle' : i + 1 \in DOMAIN rqIdle /\ rqIdle'[i] = rqIdle[i + 1] /\ (Answers(i)' <=> Answers(i + 1))
  BY <1>1 DEF Answers
<1>3. OneCallback'
  BY <1>1, <1>2, SMTT(30) DEF OneCallback
<1>4. Head(rqIdle) \in Entries /\ 1 \in DOMAIN rqIdle
  BY <1>1
<1>5. Head(rqIdle).what # "config" => \A i \in DOMAIN rqIdle' : Answers(i)' => rqIdle'[i].client # Head(rqIdle).client
  BY <1>1, <1>2, <1>4 DEF OneCallback, Answers
<1>6. ASSUME NEW d, Waiting(d) PROVE Waiting(d)' \/ (d = Head(rqIdle).client /\ Head(rqIdle).what # "config")
  <2>1. PICK i \in DOMAIN rqIdle : rqIdle[i].client = d /\ Answers(i)
    BY <1>6, Zenon DEF Waiting
  <2>2. CASE i = 1
    BY <1>1, <2>1, <2>2, Zenon DEF Answers
  <2>3. CASE i # 1
    <3>1. i - 1 \in DOMAIN rqIdle' /\ (i - 1) + 1 = i
      BY <1>1, <2>3
    <3>2. rqIdle'[i - 1] = rqIdle[i]
      BY <1>2, <3>1, Zenon
    <3> QED
      BY <2>1, <3>1, <3>2, Zenon DEF Waiting, Answers
  <2> QED
    BY <2>2, <2>3, Zenon
<1> QED
  BY <1>1, <1>2, <1>3, <1>4, <1>5, <1>6, Zenon

\* A callback that only concerns an output's config.
LEMMA RunConfig ==
  ASSUME RqInv, rqIdle # <<>>, rqIdle' = Tail(rqIdle), Head(rqIdle).what = "config",
         UNCHANGED <<rqTask, rqAsked, rqChan, rqGrab, rqPick, rqRan>>
  PROVE  RqInv'
<1> USE DEF RqInv
<1>1. \A d : (Picking(d)' <=> Picking(d)) /\ (Waiting(d) => Waiting(d)')
  BY TailFacts, Zenon DEF Picking
<1>2. RqTypeOK' /\ OneCallback'
  BY TailFacts, Zenon DEF RqTypeOK
<1>3. CallbacksOfWaiting'
  <2> SUFFICES ASSUME NEW i \in DOMAIN rqIdle', Answers(i)' PROVE WaitsFor(rqIdle[i].client, rqIdle[i].what)'
    BY Zenon DEF CallbacksOfWaiting
  <2>1. i + 1 \in DOMAIN rqIdle /\ rqIdle'[i] = rqIdle[i + 1]
    BY TailFacts, Zenon
  <2>2. WaitsFor(rqIdle[i + 1].client, rqIdle[i + 1].what)
    BY <2>1, Zenon DEF CallbacksOfWaiting, Answers
  <2> QED
    BY <1>1, <2>1, <2>2, Zenon DEF WaitsFor
<1>4. PickHasItsGrab' /\ PicksOfWaiting' /\ AnswersOfWaiting'
  BY Zenon DEF PickHasItsGrab, PicksOfWaiting, AnswersOfWaiting
<1>5. SomeAnswer'
  BY <1>1, Zenon DEF SomeAnswer
<1> QED
  BY <1>2, <1>3, <1>4, <1>5, Zenon

\* A callback that answers at once; an action is done before its answer.
LEMMA RunAnswer ==
  ASSUME RqInv, rqIdle # <<>>, rqIdle' = Tail(rqIdle), NEW c, NEW what, NEW m \in Replies,
         c = Head(rqIdle).client, what = Head(rqIdle).what, what # "config",
         rqChan' = [rqChan EXCEPT ![c] = Append(@, m)],
         rqRan \subseteq rqRan', rqRan' \subseteq RqClients, what = "action" => c \in rqRan',
         UNCHANGED <<rqTask, rqAsked, rqGrab, rqPick>>
  PROVE  RqInv'
<1> USE DEF RqInv
<1>1. c \in RqClients
  BY TailFacts, Zenon DEF Entries
<1>2. WaitsFor(c, what)
  BY TailFacts, Zenon DEF CallbacksOfWaiting, Answers
<1>3. rqChan' = [rqChan EXCEPT ![c] = <<m>>]
  BY <1>2, SMTT(30) DEF WaitsFor
<1>4. RqTypeOK' /\ OneCallback'
  <2>1. <<m>> \in Channels
    BY Zenon DEF Channels
  <2>2. rqChan' \in [RqClients -> Channels]
    BY <1>3, <2>1, ZenonT(60) DEF RqTypeOK
  <2> QED
    BY <2>2, TailFacts, Zenon DEF RqTypeOK
<1>5. \A d : Picking(d)' <=> Picking(d)
  BY Zenon DEF Picking
<1>6. CallbacksOfWaiting'
  <2> SUFFICES ASSUME NEW i \in DOMAIN rqIdle', Answers(i)' PROVE WaitsFor(rqIdle[i].client, rqIdle[i].what)'
    BY Zenon DEF CallbacksOfWaiting
  <2>1. i + 1 \in DOMAIN rqIdle /\ rqIdle'[i] = rqIdle[i + 1] /\ rqIdle[i + 1].client # c
    BY TailFacts, Zenon
  <2>2. WaitsFor(rqIdle[i + 1].client, rqIdle[i + 1].what) /\ rqIdle[i + 1].client \in RqClients
    BY <2>1, IdleFacts, Zenon DEF CallbacksOfWaiting, Answers
  <2> QED
    BY <1>3, <1>5, <2>1, <2>2, SMTT(30) DEF WaitsFor, RqTypeOK
<1>7. PickHasItsGrab' /\ PicksOfWaiting'
  BY <1>2, <1>3 DEF PickHasItsGrab, PicksOfWaiting, WaitsFor, Picking, RqTypeOK
<1>8. AnswersOfWaiting'
  BY <1>2, <1>3, ZenonT(60) DEF AnswersOfWaiting, WaitsFor, RqTypeOK
<1>9. SomeAnswer'
  <2> SUFFICES ASSUME NEW d \in RqClients, rqTask[d] = "await"
               PROVE  rqChan'[d] # <<>> \/ Picking(d)' \/ Waiting(d)'
    BY Zenon DEF SomeAnswer
  <2>1. CASE d = c
    BY <1>1, <1>3, <2>1, SMTT(30) DEF RqTypeOK
  <2>2. CASE d # c
    <3>1. Waiting(d) => Waiting(d)'
      BY <2>2, TailFacts, Zenon
    <3>2. rqChan[d] # <<>> \/ Picking(d) \/ Waiting(d)
      BY Zenon DEF SomeAnswer
    <3>3. rqChan'[d] = rqChan[d]
      BY <1>3, <2>2, Zenon DEF RqTypeOK
    <3> QED
      BY <1>5, <3>1, <3>2, <3>3, Zenon
  <2> QED
    BY <2>1, <2>2, Zenon
<1> QED
  BY <1>4, <1>6, <1>7, <1>8, <1>9, ZenonT(60)

\* A pick starts: the grab that was there ends first, and its pick has its answer.
LEMMA RunPick ==
  ASSUME RqInv, rqIdle # <<>>, rqIdle' = Tail(rqIdle), NEW c, NEW what \in Picks,
         c = Head(rqIdle).client, what = Head(rqIdle).what, StartPick(c, what),
         UNCHANGED <<rqTask, rqAsked, rqRan>>
  PROVE  RqInv'
<1> USE RqAssumption DEF RqInv
<1>1. c \in RqClients
  BY TailFacts, Zenon DEF Entries
<1>2. WaitsFor(c, what) /\ what # "config"
  BY TailFacts, Zenon DEF CallbacksOfWaiting, Answers, Picks
<1> DEFINE none == [p \in Picks |-> NoClient]
<1>3. /\ rqPick' = [none EXCEPT ![what] = c] /\ rqGrab' = what
      /\ rqChan' = [d \in RqClients |-> IF Picking(d) THEN <<"none">> ELSE rqChan[d]]
  BY OnUngrabFacts, Zenon DEF StartPick, Cancelled
<1>4. \A d \in RqClients : Picking(d)' <=> d = c
  BY <1>1, <1>3, Zenon DEF Picking
<1>5. rqPick'[what] = c /\ \A p \in Picks : p # what => rqPick'[p] = NoClient
  BY <1>3, Zenon
<1>6. RqTypeOK' /\ OneCallback'
  BY <1>1, <1>3, TailFacts, ZenonT(60) DEF RqTypeOK, Picks, Channels, Replies
<1>7. CallbacksOfWaiting'
  <2> SUFFICES ASSUME NEW i \in DOMAIN rqIdle', Answers(i)' PROVE WaitsFor(rqIdle[i].client, rqIdle[i].what)'
    BY Zenon DEF CallbacksOfWaiting
  <2>1. i + 1 \in DOMAIN rqIdle /\ rqIdle'[i] = rqIdle[i + 1] /\ rqIdle[i + 1].client # c
    BY <1>2, TailFacts, Zenon
  <2>2. WaitsFor(rqIdle[i + 1].client, rqIdle[i + 1].what) /\ rqIdle[i + 1].client \in RqClients
    BY <2>1, IdleFacts, Zenon DEF CallbacksOfWaiting, Answers
  <2> QED
    BY <1>3, <1>4, <2>1, <2>2, ZenonT(60) DEF WaitsFor
<1>8. PickHasItsGrab' /\ PicksOfWaiting'
  BY <1>1, <1>2, <1>3, <1>5, ZenonT(60) DEF PickHasItsGrab, PicksOfWaiting, WaitsFor
<1>9. AnswersOfWaiting'
  BY <1>3, SMTT(30) DEF AnswersOfWaiting, PicksOfWaiting, Picking, Picks
<1>10. SomeAnswer'
  <2> SUFFICES ASSUME NEW d \in RqClients, rqTask[d] = "await"
               PROVE  rqChan'[d] # <<>> \/ Picking(d)' \/ Waiting(d)'
    BY Zenon DEF SomeAnswer
  <2>1. CASE d = c
    BY <1>4, <2>1, Zenon
  <2>2. CASE d # c
    <3>1. Waiting(d) => Waiting(d)'
      BY <2>2, TailFacts, Zenon
    <3> QED
      BY <1>3, <3>1, Zenon DEF SomeAnswer
  <2> QED
    BY <2>1, <2>2, Zenon
<1> QED
  BY <1>6, <1>7, <1>8, <1>9, <1>10, Zenon

\* The first of the idle callbacks runs.
LEMMA RunIdleStep == ASSUME RqInv, RunIdle PROVE RqInv'
<1> DEFINE c == Head(rqIdle).client
           what == Head(rqIdle).what
<1>1. rqIdle # <<>> /\ rqIdle' = Tail(rqIdle) /\ UNCHANGED <<rqTask, rqAsked>>
  BY Zenon DEF RunIdle
<1>2. what \in Awaited \cup {"config"} /\ c \in RqClients /\ rqRan \subseteq RqClients
  BY <1>1, TailFacts, Zenon DEF Entries, RqInv, RqTypeOK
<1>3. CASE what \in Picks
  <2>1. what \notin {"layers", "output"} /\ what # "action"
    BY <1>3, Zenon DEF Picks
  <2>2. StartPick(c, what) /\ UNCHANGED rqRan
    BY <1>3, <2>1, Zenon DEF RunIdle
  <2> QED
    BY <1>1, <1>3, <2>2, RunPick, ZenonT(60)
<1>4. CASE what \in {"layers", "output"}
  <2>1. rqChan' = [rqChan EXCEPT ![c] = Append(@, "info")] /\ UNCHANGED <<rqGrab, rqPick, rqRan>>
    BY <1>4, Zenon DEF RunIdle, Picks
  <2> QED
    BY <1>1, <1>2, <1>4, <2>1, RunAnswer, ZenonT(60) DEF Replies
<1>5. CASE what = "action"
  <2>1. /\ rqChan' = [rqChan EXCEPT ![c] = Append(@, "done")] /\ rqRan' = rqRan \union {c}
        /\ UNCHANGED <<rqGrab, rqPick>>
    BY <1>5, Zenon DEF RunIdle, Picks
  <2> QED
    BY <1>1, <1>2, <1>5, <2>1, RunAnswer, ZenonT(60) DEF Replies
<1>6. CASE what = "config"
  <2>1. UNCHANGED <<rqChan, rqGrab, rqPick, rqRan>>
    BY <1>6, Zenon DEF RunIdle, Picks
  <2> QED
    BY <1>1, <1>6, <2>1, RunConfig, ZenonT(60)
<1> QED
  BY <1>2, <1>3, <1>4, <1>5, <1>6, Zenon DEF Awaited, Picks

\* Every step keeps the invariant.
LEMMA RqNextInv == RqInv /\ [RqNext]_rqVars => RqInv'
<1> SUFFICES ASSUME RqInv, [RqNext]_rqVars PROVE RqInv'
  BY Zenon
<1>1. CASE UNCHANGED rqVars
  BY <1>1, SMTT(30) DEF rqVars, RqInv, RqTypeOK, PickHasItsGrab, CallbacksOfWaiting, WaitsFor, OneCallback, PicksOfWaiting,
              AnswersOfWaiting, SomeAnswer, Answers, Waiting, Picking
<1>2. CASE RqNext
  BY <1>2, AskStep, AskOutputStep, TaskStep, RunIdleStep, PickUnderPointerStep, UngrabStep, Zenon DEF RqNext
<1> QED
  BY <1>1, <1>2, ZenonT(60)

\* The invariant holds in every reachable state.
THEOREM RqInductive == RqSpec => []RqInv
BY RqInitInv, RqNextInv, PTL DEF RqSpec

-----------------------------------------------------------------------------
\* Who waits for a picked window or color has the grab that will answer: set_grab and
\* unset_grab never leave a pick behind, whatever replaces the grab.
THEOREM PickKeepsItsGrab == RqSpec => []PickHasItsGrab
<1>1. RqInv => PickHasItsGrab
  BY Zenon DEF RqInv
<1> QED
  BY <1>1, RqInductive, PTL

\* The reply to Request::Action is written after the action was processed.
THEOREM ActionDoneBeforeReply == RqSpec => ActionBeforeReply
<1> DEFINE Step == \A c \in RqClients :
                     rqTask[c] = "await" /\ rqAsked[c] = "action" /\ rqTask'[c] # "await" => c \in rqRan
<1>1. RqInv /\ [RqNext]_rqVars => [Step]_rqVars
  <2> SUFFICES ASSUME RqInv, RqNext, NEW c \in RqClients,
                      rqTask[c] = "await", rqAsked[c] = "action", rqTask'[c] # "await"
               PROVE  c \in rqRan
    BY Zenon
  <2> USE DEF RqInv
  <2>1. \E d \in RqClients : Answer(d) \/ Leave(d) \/ Connect(d) \/ \E what \in Awaited : Ask(d, what)
    BY Zenon DEF RqNext, AskOutput, RunIdle, PickUnderPointer, EndGrab, OtherGrab
  <2>2. PICK d \in RqClients : Answer(d) \/ Leave(d) \/ Connect(d) \/ \E what \in Awaited : Ask(d, what)
    BY <2>1, Zenon
  <2>3. rqTask \in [RqClients -> {"read", "await", "closed"}]
    BY Zenon DEF RqTypeOK
  <2>4. d = c /\ Answer(d)
    BY <2>2, <2>3, ZenonT(60) DEF Answer, Leave, Connect, Ask
  <2> QED
    BY <2>4, Zenon DEF Answer, AnswersOfWaiting
<1> QED
  BY <1>1, RqInductive, PTL DEF RqSpec, ActionBeforeReply

-----------------------------------------------------------------------------
(* Transactions.                                                           *)

\* A commit that waits for a live transaction has its timer and its notification.
WaitersTold ==
    \A w \in Windows : \A i \in DOMAIN queue[w] :
        queue[w][i].wait /\ queue[w][i].of \in live =>
            queue[w][i].of \in timers /\ <<queue[w][i].of, w>> \in notify
\* A close animation that waits for a live transaction has its timer.
ClosersTimed == \A w \in Windows : closing[w] \in live => closing[w] \in timers

TxInv == TxTypeOK /\ WaitersTold /\ ClosersTimed /\ NoLostWakeup

\* A transaction that is not completed has an instance, and a window that is
\* closed neither asks for a configure nor has an instance in one.
Held ==
    /\ \A t \in live : Instances(t) # {}
    /\ \A w \in Windows \ open : /\ next[w] = NoTxn /\ pending[w] = <<>>
                                /\ ~resize[w] /\ ~other[w]

\* The end of a step completes every transaction without an instance.
LEMMA SettleHolds ==
    ASSUME NEW alive, NEW armed, NEW notes, NEW fired, NEW rest, NEW applied,
           Settle(alive, armed, notes, fired, rest, applied)
    PROVE  (\A t \in live : Instances(t) # {})'
BY Zenon DEF Settle

\* Every step keeps the instances where they belong.
LEMMA HeldStep ==
    ASSUME TxTypeOK, Held, [TxNext]_txVars
    PROVE  Held'
<1> DEFINE Empty == \A w \in Windows \ open : /\ next[w] = NoTxn /\ pending[w] = <<>>
                                             /\ ~resize[w] /\ ~other[w]
<1>1. CASE \E t \in Txns, R \in SUBSET Windows : Resize(t, R)
  <2>1. PICK t \in Txns, R \in SUBSET Windows : Resize(t, R)
    BY <1>1, Zenon
  <2>2. Empty'
    BY <2>1, Zenon DEF Held, Resize, RequestSizes, cliVars
  <2>3. Settle(live \cup {t}, timers, notify, {}, inbox, {})
    BY <2>1, Zenon DEF Resize
  <2> QED
    BY <2>2, <2>3, SettleHolds, Zenon DEF Held
<1>2. CASE \E w \in Windows, t \in Txns, R \in SUBSET Windows, animated \in BOOLEAN :
              CloseWindow(w, t, R, animated)
  <2>1. PICK w \in Windows, t \in Txns, R \in SUBSET Windows, animated \in BOOLEAN :
               CloseWindow(w, t, R, animated)
    BY <1>2, Zenon
  <2>2. Empty'
    <3> SUFFICES ASSUME NEW v \in Windows, v \notin open'
                 PROVE  /\ next'[v] = NoTxn /\ pending'[v] = <<>>
                        /\ ~resize'[v] /\ ~other'[v]
      BY Zenon
    <3>1. next'[v] = NoTxn /\ ~resize'[v]
      BY <2>1, Zenon DEF CloseWindow, RequestSizes
    <3>2. /\ pending' = [pending EXCEPT ![w] = <<>>]
          /\ other' = [other EXCEPT ![w] = FALSE]
          /\ open' = open \ {w}
      BY <2>1, Zenon DEF CloseWindow
    <3>3. v = w \/ (v \notin open /\ v # w)
      BY <3>2, Zenon
    <3>4. pending'[v] = <<>> /\ ~other'[v]
      BY <3>2, <3>3, Zenon DEF Held, TxTypeOK
    <3> QED
      BY <3>1, <3>4, Zenon
  <2>3. Settle(live \cup {t}, timers \cup {t}, notify, {}, inbox, {})
    BY <2>1, Zenon DEF CloseWindow
  <2> QED
    BY <2>2, <2>3, SettleHolds, Zenon DEF Held
<1>3. CASE \E w \in Windows : ChangeState(w)
  <2>1. PICK w \in Windows : ChangeState(w)
    BY <1>3, Zenon
  <2>2. \A v \in Windows \ open' : ~other'[v]
    BY <2>1, Zenon DEF Held, ChangeState, TxTypeOK
  <2>3. UNCHANGED <<open, resize, next, pending, queue, live>>
    BY <2>1, Zenon DEF ChangeState, cliVars
  <2> QED
    BY <2>2, <2>3, Zenon DEF Held, Instances, InstancesIn
<1>4. CASE \E w \in Windows : StartClosing(w)
  <2>1. PICK w \in Windows : StartClosing(w)
    BY <1>4, Zenon
  <2>2. Empty'
    BY <2>1, Zenon DEF Held, StartClosing, winVars, cliVars
  <2>3. Settle(live, timers, notify, {}, inbox, {})
    BY <2>1, Zenon DEF StartClosing
  <2> QED
    BY <2>2, <2>3, SettleHolds, Zenon DEF Held
<1>5. CASE \E w \in Windows, k \in 1 .. MaxPending : AckConfigure(w, k)
  <2>1. UNCHANGED <<open, resize, other, next, pending, queue, live>>
    BY <1>5, Zenon DEF AckConfigure, winVars
  <2> QED
    BY <2>1, Zenon DEF Held, Instances, InstancesIn
<1>6. CASE \E w \in Windows, buf \in BOOLEAN : \E same \in SUBSET {w} : Commit(w, buf, same)
  <2>1. PICK w \in Windows, buf \in BOOLEAN : \E same \in SUBSET {w} : Commit(w, buf, same)
    BY <1>6, Zenon
  <2>2. PICK same \in SUBSET {w} : Commit(w, buf, same)
    BY <2>1, Zenon
  <2>3. w \in open /\ UNCHANGED <<open, resize, other, next>> /\ pending' = Untaken(w)
    BY <2>2, Zenon DEF Commit, winVars
  <2>4. \A v \in Windows \ open : pending'[v] = pending[v]
    BY <2>3, Zenon DEF Untaken, TxTypeOK
  <2>5. Empty'
    BY <2>3, <2>4, Zenon DEF Held
  <2>6. \E a, b, c, d, e : Settle(live, a, b, c, d, e)
    BY <2>2, Zenon DEF Commit
  <2> QED
    BY <2>5, <2>6, SettleHolds, Zenon DEF Held
<1>7. CASE \E w \in Windows : BufferDrawn(w)
  <2>1. PICK w \in Windows : \E i \in 1 .. MaxQueue, same \in SUBSET {w} : BufferReady(w, i, same)
    BY <1>7, Zenon DEF BufferDrawn
  <2>2. Empty'
    BY <2>1, Zenon DEF Held, BufferReady, winVars, cliVars
  <2>3. \E a, b, c, d, e : Settle(live, a, b, c, d, e)
    BY <2>1, Zenon DEF BufferReady
  <2> QED
    BY <2>2, <2>3, SettleHolds, Zenon DEF Held
<1>8. CASE \E t \in Txns : Deadline(t)
  <2>1. PICK t \in Txns : Deadline(t)
    BY <1>8, Zenon
  <2>2. Empty'
    BY <2>1, Zenon DEF Held, Deadline, winVars, cliVars
  <2>3. Settle(live, timers, notify, {t}, inbox, {})
    BY <2>1, Zenon DEF Deadline
  <2> QED
    BY <2>2, <2>3, SettleHolds, Zenon DEF Held
<1>9. CASE Refreshes
  <2>1. PICK same \in SUBSET Unsure : Refresh(same)
    BY <1>9, Zenon DEF Refreshes
  <2>2. Empty'
    <3>1. open' = open
      BY <2>1, Zenon DEF Refresh
    <3>2. CASE UNCHANGED <<pending, resize, other, next>>
      BY <3>1, <3>2, Zenon DEF Held
    <3>3. CASE \E q, st : SendPendingConfigures(q, st, same)
      <4>1. /\ pending' = [w \in Windows |-> IF other[w] \/ resize[w]
                                             THEN Append(pending[w], next[w]) ELSE pending[w]]
            /\ resize' = [w \in Windows |-> FALSE]
            /\ other' = [w \in Windows |-> FALSE]
            /\ next' = [w \in Windows |-> NoTxn]
        BY <3>3, Zenon DEF SendPendingConfigures
      <4>2. \A v \in Windows \ open : pending'[v] = <<>>
        BY <4>1, Zenon DEF Held
      <4> QED
        BY <3>1, <4>1, <4>2, Zenon
    <3> QED
      BY <2>1, <3>2, <3>3, Zenon DEF Refresh
  <2>3. \E a, b, c, d, e : Settle(live, a, b, c, d, e)
    BY <2>1, Zenon DEF Refresh
  <2> QED
    BY <2>2, <2>3, SettleHolds, Zenon DEF Held
<1>10. CASE UNCHANGED txVars
  <2>1. UNCHANGED <<open, resize, other, next, pending, queue, live>>
    BY <1>10, Zenon DEF txVars, winVars, cliVars
  <2> QED
    BY <2>1, Zenon DEF Held, Instances, InstancesIn
<1> QED
  BY <1>1, <1>2, <1>3, <1>4, <1>5, <1>6, <1>7, <1>8, <1>9, <1>10, Zenon DEF TxNext

-----------------------------------------------------------------------------
INSTANCE WellFoundedInduction

\* A set of naturals that is not empty has a least element.
LEMMA LeastElement ==
    ASSUME NEW T \in SUBSET Nat, T # {}
    PROVE  \E m \in T : \A k \in T : m <= k
<1>1. PICK m \in T : \A k \in T : ~(<<k, m>> \in OpToRel(<, Nat))
  BY NatLessThanWellFounded, WFMin, Zenon
<1>2. \A k \in T : ~(k < m)
  BY <1>1, Zenon DEF OpToRel
<1> QED
  BY <1>2

\* blocker_cleared applies the longest run of released commits.
LEMMA ReadyFacts ==
    ASSUME NEW q \in Seq(Commits), NEW L
    PROVE  /\ Ready(q, L) \in 0 .. Len(q)
           /\ \A i \in 1 .. Ready(q, L) : Released(q[i], L)
           /\ Ready(q, L) < Len(q) => ~Released(q[Ready(q, L) + 1], L)
<1> DEFINE n == Len(q)
           T == {k \in 1 .. n + 1 : k = n + 1 \/ ~Released(q[k], L)}
<1>1. n \in Nat
  OBVIOUS
<1> HIDE DEF n
<1>2. PICK m \in T : \A k \in T : m <= k
  <2>1. n + 1 \in T /\ T \subseteq Nat
    BY <1>1
  <2> HIDE DEF T
  <2> QED
    BY <2>1, LeastElement, Zenon
<1>3. m \in 1 .. n + 1
  BY <1>1, <1>2, Zenon
<1>4. \A i \in 1 .. m - 1 : Released(q[i], L)
  <2> SUFFICES ASSUME NEW i \in 1 .. m - 1, ~Released(q[i], L) PROVE FALSE
    BY Zenon
  <2>1. i \in T
    BY <1>1, <1>3
  <2> QED
    BY <1>1, <1>2, <1>3, <2>1
<1>5. m - 1 \in 0 .. n /\ (m - 1 < n => ~Released(q[(m - 1) + 1], L))
  BY <1>1, <1>2, <1>3
<1> HIDE DEF T
<1>6. \E k \in 0 .. n : (\A i \in 1 .. k : Released(q[i], L)) /\ (k < n => ~Released(q[k + 1], L))
  BY <1>4, <1>5, Zenon
<1> QED
  BY <1>6, Zenon DEF Ready, n

\* The commits that are left once the first n of a queue are applied.
LEMMA SuffixFacts ==
    ASSUME NEW q \in Seq(Commits), NEW n \in 0 .. Len(q)
    PROVE  /\ SubSeq(q, n + 1, Len(q)) \in Seq(Commits)
           /\ Len(SubSeq(q, n + 1, Len(q))) = Len(q) - n
           /\ \A i \in 1 .. Len(q) - n :
                 i + n \in 1 .. Len(q) /\ SubSeq(q, n + 1, Len(q))[i] = q[i + n]
<1>1. Len(q) \in Nat /\ n \in Nat /\ n <= Len(q)
  OBVIOUS
<1>2. \A i \in n + 1 .. Len(q) : q[i] \in Commits
  BY <1>1
<1>3. Len(SubSeq(q, n + 1, Len(q))) = Len(q) - n
  BY <1>1
<1> QED
  BY <1>1, <1>2, <1>3, SMTT(30)

\* Applying commits of each window leaves the others of its queue, in order.
LEMMA AppliedQueue ==
    ASSUME NEW q \in [Windows -> Seq(Commits)], NEW n \in [Windows -> Nat],
           \A w \in Windows : n[w] <= Len(q[w])
    PROVE  /\ ApplyReady(q, n) \in [Windows -> Seq(Commits)]
           /\ \A w \in Windows :
                 /\ Len(ApplyReady(q, n)[w]) = Len(q[w]) - n[w]
                 /\ \A i \in DOMAIN ApplyReady(q, n)[w] :
                       i + n[w] \in DOMAIN q[w] /\ ApplyReady(q, n)[w][i] = q[w][i + n[w]]
           /\ Applied(q, n) \subseteq Txns
<1>1. ASSUME NEW w \in Windows
      PROVE  /\ ApplyReady(q, n)[w] \in Seq(Commits)
             /\ Len(ApplyReady(q, n)[w]) = Len(q[w]) - n[w]
             /\ \A i \in DOMAIN ApplyReady(q, n)[w] :
                   i + n[w] \in DOMAIN q[w] /\ ApplyReady(q, n)[w][i] = q[w][i + n[w]]
  <2> DEFINE s == ApplyReady(q, n)[w]
  <2>1. s = SubSeq(q[w], n[w] + 1, Len(q[w]))
    BY <1>1, Zenon DEF ApplyReady
  <2>2. q[w] \in Seq(Commits) /\ n[w] \in 0 .. Len(q[w]) /\ DOMAIN q[w] = 1 .. Len(q[w])
    BY <1>1
  <2>3. /\ s \in Seq(Commits) /\ Len(s) = Len(q[w]) - n[w]
        /\ \A i \in 1 .. Len(q[w]) - n[w] : i + n[w] \in 1 .. Len(q[w]) /\ s[i] = q[w][i + n[w]]
    BY <2>1, <2>2, SuffixFacts, SMTT(30)
  <2> HIDE DEF s
  <2>4. DOMAIN s = 1 .. Len(q[w]) - n[w]
    BY <2>3
  <2> QED
    BY <2>2, <2>3, <2>4, Zenon DEF s
<1>2. ApplyReady(q, n) \in [Windows -> Seq(Commits)]
  BY <1>1, Zenon DEF ApplyReady
<1>3. ASSUME NEW w \in Windows, NEW i \in 1 .. n[w] PROVE q[w][i].of \in Txns \cup {NoTxn}
  <2>1. q[w] \in Seq(Commits) /\ n[w] \in Nat /\ n[w] <= Len(q[w])
    BY <1>3, Zenon
  <2>2. q[w][i] \in Commits
    BY <1>3, <2>1
  <2> QED
    BY <2>2, Zenon DEF Commits
<1>4. Applied(q, n) \subseteq Txns
  <2> SUFFICES ASSUME NEW t \in Applied(q, n) PROVE t \in Txns
    BY Zenon
  <2>1. t # NoTxn /\ t \in UNION {{q[w][i].of : i \in 1 .. n[w]} : w \in Windows}
    BY Zenon DEF Applied
  <2>2. PICK w \in Windows : t \in {q[w][i].of : i \in 1 .. n[w]}
    BY <2>1, Zenon
  <2> QED
    BY <1>3, <2>1, <2>2, Zenon
<1> QED
  BY <1>1, <1>2, <1>4, ZenonT(60)

\* What blocker_cleared applies is within the queue, and stops at a blocked commit.
LEMMA ApplyingFacts ==
    ASSUME NEW q \in [Windows -> Seq(Commits)], NEW C, NEW L
    PROVE  /\ Applying(q, C, L) \in [Windows -> Nat]
           /\ \A w \in Windows :
                 /\ Applying(q, C, L)[w] <= Len(q[w])
                 /\ w \notin C => Applying(q, C, L)[w] = 0
                 /\ w \in C /\ Applying(q, C, L)[w] < Len(q[w])
                       => ~Released(q[w][Applying(q, C, L)[w] + 1], L)
<1>1. ASSUME NEW w \in Windows
      PROVE  /\ Applying(q, C, L)[w] \in Nat /\ Applying(q, C, L)[w] <= Len(q[w])
             /\ w \notin C => Applying(q, C, L)[w] = 0
             /\ w \in C /\ Applying(q, C, L)[w] < Len(q[w])
                   => ~Released(q[w][Applying(q, C, L)[w] + 1], L)
  <2>1. q[w] \in Seq(Commits) /\ Len(q[w]) \in Nat
    BY <1>1
  <2>2. /\ Ready(q[w], L) \in 0 .. Len(q[w])
        /\ Ready(q[w], L) < Len(q[w]) => ~Released(q[w][Ready(q[w], L) + 1], L)
    BY <2>1, ReadyFacts, Zenon
  <2>3. CASE w \in C
    BY <2>1, <2>2, <2>3, Applying(q, C, L)[w] = Ready(q[w], L), SMTT(30) DEF Applying
  <2>4. CASE w \notin C
    BY <2>1, <2>4, Applying(q, C, L)[w] = 0 DEF Applying
  <2> QED
    BY <2>3, <2>4, Zenon
<1>2. Applying(q, C, L) \in [Windows -> Nat]
  BY <1>1, Zenon DEF Applying
<1> QED
  BY <1>1, <1>2, Zenon

\* Whether a window is behind its last configure is a yes or a no.
LEMMA StaleThenType ==
    ASSUME NEW q, NEW n, NEW same
    PROVE  StaleThen(q, n, same) \in [Windows -> BOOLEAN]
BY Zenon DEF StaleThen
-----------------------------------------------------------------------------
\* The part of the type that a step sets before it settles.
BaseOK ==
    /\ open \subseteq Windows
    /\ resize \in [Windows -> BOOLEAN] /\ other \in [Windows -> BOOLEAN]
    /\ stale \in [Windows -> BOOLEAN]
    /\ next \in [Windows -> Txns \cup {NoTxn}]
    /\ pending \in [Windows -> Seq(Txns \cup {NoTxn})]
    /\ acked \in [Windows -> Nat]
    /\ \A w \in Windows : acked[w] <= Len(pending[w])
    /\ queue \in [Windows -> Seq(Commits)]
    /\ closing \in [Windows -> Txns \cup {NoTxn}]

\* The transactions a window takes part in are transactions.
LEMMA OverlappingType == BaseOK => Overlapping \subseteq Txns
<1> SUFFICES ASSUME BaseOK PROVE Overlapping \subseteq Txns
  BY Zenon
<1>1. ASSUME NEW w \in Windows PROVE InFlight(w) \subseteq Txns
  <2>1. pending[w] \in Seq(Txns \cup {NoTxn}) /\ queue[w] \in Seq(Commits)
    BY <1>1, Zenon DEF BaseOK
  <2>2. \A i \in DOMAIN pending[w] : pending[w][i] \in Txns \cup {NoTxn}
    BY <2>1
  <2>3. \A i \in DOMAIN queue[w] : queue[w][i] \in Commits
    BY <2>1
  <2>4. \A i \in DOMAIN queue[w] : queue[w][i].of \in Txns \cup {NoTxn}
    BY <2>3, Zenon DEF Commits
  <2> QED
    BY <2>2, <2>4, Zenon DEF InFlight
<1> QED
  BY <1>1, Zenon DEF Overlapping

\* What the end of a step does: a transaction still alive keeps its timer and
\* its notifications, and one that completed has told everybody who waits.
LEMMA SettleFacts ==
    ASSUME TxTypeOK, BaseOK',
           NEW alive \in SUBSET Txns, NEW armed \in SUBSET Txns,
           NEW notes \in SUBSET (Txns \X Windows), NEW fired \in SUBSET Txns,
           NEW rest \in SUBSET Windows, NEW applied \in SUBSET Txns,
           Settle(alive, armed, notes, fired, rest, applied)
    PROVE  /\ TxTypeOK'
           /\ live' \subseteq alive
           /\ \A t \in live' \cap armed : t \in timers'
           /\ \A t \in live', w \in Windows : <<t, w>> \in notes => <<t, w>> \in notify'
           /\ \A t \in alive \ live', w \in Windows : <<t, w>> \in notify => w \in inbox'
           /\ rest \subseteq inbox'
<1> DEFINE dropped == {t \in alive : Instances(t)' = {}}
           complete == dropped \cup (fired \cap alive)
<1>1. /\ live' = alive \ complete
      /\ timers' = armed \ (dropped \cup fired)
      /\ notify' = {n \in notes : n[1] \notin complete}
      /\ inbox' = rest \cup Notified(complete)
      /\ excused' = Remembered(excused \cup (fired \cap alive) \cup Overlapping')
      /\ appeared' = Remembered(appeared \cup applied)
  BY Zenon DEF Settle
<1>3. dropped \subseteq complete /\ fired \cap alive \subseteq complete /\ complete \subseteq alive
  BY Zenon
<1> HIDE DEF dropped, complete
<1>4. Notified(complete) \subseteq Windows
  BY DEF Notified, TxTypeOK
<1>5. \A t \in complete, w \in Windows : <<t, w>> \in notify => w \in Notified(complete)
  <2> SUFFICES ASSUME NEW t \in complete, NEW w \in Windows, <<t, w>> \in notify
               PROVE  w \in Notified(complete)
    BY Zenon
  <2>1. <<t, w>> \in {n \in notify : n[1] \in complete} /\ <<t, w>>[2] = w
    BY Zenon
  <2> QED
    BY <2>1, Zenon DEF Notified
<1>6. excused' \subseteq Txns /\ appeared' \subseteq Txns
  <2>1. Overlapping' \subseteq Txns
    <3>1. BaseOK' => (Overlapping \subseteq Txns)'
      BY OverlappingType, PTL
    <3> QED
      BY <3>1, Zenon
  <2> QED
    BY <1>1, <2>1, Zenon DEF Remembered, TxTypeOK
<1>7. notify' \subseteq Txns \X Windows
  BY <1>1, Zenon
<1>8. TxTypeOK'
  BY <1>1, <1>4, <1>6, <1>7, Zenon DEF TxTypeOK, BaseOK
<1>9. \A t \in live', w \in Windows : <<t, w>> \in notes => <<t, w>> \in notify'
  BY <1>1, Zenon
<1> QED
  BY <1>1, <1>3, <1>5, <1>8, <1>9, Zenon

\* A transaction of which a window has an instance goes on until its deadline.
LEMMA SettleSpares ==
    ASSUME NEW alive, NEW armed, NEW notes, NEW fired, NEW rest, NEW applied,
           Settle(alive, armed, notes, fired, rest, applied),
           NEW t \in alive, t \notin fired, InstancesIn(t, next', pending', queue') # {}
    PROVE  t \in live'
BY Zenon DEF Settle, Instances

\* A step keeps the invariant if whatever then waits for a transaction has its
\* timer and its notification, and a queue's first commit is told, still drawing,
\* or waits for a transaction that had it on its list or goes on.
LEMMA StepKeeps ==
    ASSUME TxTypeOK, BaseOK',
           NEW alive \in SUBSET Txns, NEW armed \in SUBSET Txns,
           NEW notes \in SUBSET (Txns \X Windows), NEW fired \in SUBSET Txns,
           NEW rest \in SUBSET Windows, NEW applied \in SUBSET Txns,
           Settle(alive, armed, notes, fired, rest, applied),
           \A w \in Windows : \A i \in DOMAIN queue'[w] :
               queue'[w][i].wait /\ queue'[w][i].of \in alive =>
                   queue'[w][i].of \in armed /\ <<queue'[w][i].of, w>> \in notes,
           \A w \in Windows : closing'[w] \in alive => closing'[w] \in armed,
           \A w \in Windows : queue'[w] # <<>> =>
               \/ w \in rest
               \/ Head(queue'[w]).buf
               \/ /\ Head(queue'[w]).wait /\ Head(queue'[w]).of \in alive
                  /\ <<Head(queue'[w]).of, w>> \in notify \/ Head(queue'[w]).of \in live'
    PROVE  TxInv'
<1>1. /\ TxTypeOK' /\ live' \subseteq alive
      /\ \A t \in live' \cap armed : t \in timers'
      /\ \A t \in live', w \in Windows : <<t, w>> \in notes => <<t, w>> \in notify'
      /\ \A t \in alive \ live', w \in Windows : <<t, w>> \in notify => w \in inbox'
      /\ rest \subseteq inbox'
  BY SettleFacts, ZenonT(60)
<1>2. WaitersTold'
  BY <1>1, Zenon DEF WaitersTold
<1>3. ClosersTimed'
  BY <1>1, Zenon DEF ClosersTimed
<1>4. NoLostWakeup'
  BY <1>1, Zenon DEF NoLostWakeup, Released
<1> QED
  BY <1>1, <1>2, <1>3, <1>4, Zenon DEF TxInv

-----------------------------------------------------------------------------
\* The first commit of a queue is known to the next refresh, still drawing, or
\* waits for a transaction that is going to tell it.
LEMMA FirstIsTold ==
    ASSUME TxInv, NEW w \in Windows, queue[w] # <<>>
    PROVE  \/ w \in inbox
           \/ queue[w][1].buf
           \/ /\ queue[w][1].wait /\ queue[w][1].of \in live
              /\ <<queue[w][1].of, w>> \in notify
<1>1. queue[w] \in Seq(Commits) /\ 1 \in DOMAIN queue[w] /\ Head(queue[w]) = queue[w][1]
  BY DEF TxInv, TxTypeOK
<1>2. Released(queue[w][1], live) => w \in inbox
  BY <1>1, Zenon DEF TxInv, NoLostWakeup
<1> QED
  BY <1>1, <1>2, Zenon DEF TxInv, WaitersTold, Released

\* Nothing waits for a transaction that is made only now.
LEMMA NewIsUnknown ==
    ASSUME NEW t \in Txns, IsNew(t), NEW w \in Windows
    PROVE  closing[w] # t /\ \A i \in DOMAIN queue[w] : queue[w][i].of # t
BY Zenon DEF IsNew, Referring

\* A step that leaves the queues alone, and arms the timer of whatever closes.
LEMMA QueuesKept ==
    ASSUME TxInv, BaseOK', queue' = queue,
           NEW alive \in SUBSET Txns, NEW armed \in SUBSET Txns, NEW fired \in SUBSET Txns,
           live \subseteq alive, timers \subseteq armed,
           Settle(alive, armed, notify, fired, inbox, {}),
           \A w \in Windows : \A i \in DOMAIN queue[w] :
               queue[w][i].of \in alive => queue[w][i].of \in live,
           \A w \in Windows : closing'[w] \in alive => closing'[w] \in armed
    PROVE  TxInv'
<1>1. TxTypeOK /\ notify \in SUBSET (Txns \X Windows) /\ inbox \in SUBSET Windows
  BY Zenon DEF TxInv, TxTypeOK
<1>2. \A w \in Windows : \A i \in DOMAIN queue'[w] :
         queue'[w][i].wait /\ queue'[w][i].of \in alive =>
             queue'[w][i].of \in armed /\ <<queue'[w][i].of, w>> \in notify
  BY Zenon DEF TxInv, WaitersTold
<1>3. ASSUME NEW w \in Windows, queue'[w] # <<>>
      PROVE  \/ w \in inbox
             \/ Head(queue'[w]).buf
             \/ /\ Head(queue'[w]).wait /\ Head(queue'[w]).of \in alive
                /\ <<Head(queue'[w]).of, w>> \in notify \/ Head(queue'[w]).of \in live'
  <2>1. queue[w] \in Seq(Commits) /\ Head(queue[w]) = queue[w][1]
    BY <1>1 DEF TxTypeOK
  <2> QED
    BY <1>3, <2>1, FirstIsTold, Zenon
<1>4. {} \in SUBSET Txns
  BY Zenon
<1> HIDE DEF Settle
<1> QED
  BY <1>1, <1>2, <1>3, <1>4, StepKeeps, SMTT(30)

-----------------------------------------------------------------------------
\* The layout resizes the column.
LEMMA ResizeKeeps ==
    ASSUME TxInv, NEW t \in Txns, NEW R \in SUBSET Windows, Resize(t, R)
    PROVE  TxInv'
<1>1. TxTypeOK /\ queue' = queue /\ closing' = closing
  BY Zenon DEF TxInv, Resize
<1>2. resize' \in [Windows -> BOOLEAN] /\ next' \in [Windows -> Txns \cup {NoTxn}]
  BY DEF Resize, RequestSizes
<1>3. BaseOK'
  BY <1>1, <1>2, Zenon DEF BaseOK, TxTypeOK, Resize, cliVars
<1>4. IsNew(t) /\ Settle(live \cup {t}, timers, notify, {}, inbox, {})
  BY Zenon DEF Resize
<1>5. live \cup {t} \in SUBSET Txns /\ timers \in SUBSET Txns /\ {} \in SUBSET Txns
  BY <1>1, Zenon DEF TxTypeOK
<1>6. \A w \in Windows : \A i \in DOMAIN queue[w] :
         queue[w][i].of \in live \cup {t} => queue[w][i].of \in live
  BY <1>4, NewIsUnknown, Zenon
<1>7. \A w \in Windows : closing'[w] \in live \cup {t} => closing'[w] \in timers
  BY <1>1, <1>4, NewIsUnknown, Zenon DEF TxInv, ClosersTimed
<1> QED
  BY <1>1, <1>3, <1>4, <1>5, <1>6, <1>7, QueuesKept, ZenonT(60)

\* A window closes; its animation waits for the transaction made for it.
LEMMA CloseWindowKeeps ==
    ASSUME TxInv, NEW w \in Windows, NEW t \in Txns, NEW R \in SUBSET Windows,
           NEW animated \in BOOLEAN, CloseWindow(w, t, R, animated)
    PROVE  TxInv'
<1>1. /\ TxTypeOK /\ queue' = queue
      /\ closing' = [closing EXCEPT ![w] = IF animated THEN t ELSE NoTxn]
      /\ IsNew(t) /\ Settle(live \cup {t}, timers \cup {t}, notify, {}, inbox, {})
  BY Zenon DEF TxInv, CloseWindow
<1>2. resize' \in [Windows -> BOOLEAN] /\ next' \in [Windows -> Txns \cup {NoTxn}]
  BY DEF CloseWindow, RequestSizes
<1>3. open' \subseteq Windows /\ other' \in [Windows -> BOOLEAN] /\ stale' \in [Windows -> BOOLEAN]
  BY <1>1, Zenon DEF CloseWindow, TxTypeOK
<1>4. /\ pending' \in [Windows -> Seq(Txns \cup {NoTxn})] /\ acked' \in [Windows -> Nat]
      /\ \A v \in Windows : acked'[v] <= Len(pending'[v])
  <2>1. pending' = [pending EXCEPT ![w] = <<>>] /\ acked' = [acked EXCEPT ![w] = 0]
    BY Zenon DEF CloseWindow
  <2>2. /\ pending \in [Windows -> Seq(Txns \cup {NoTxn})] /\ acked \in [Windows -> Nat]
        /\ \A v \in Windows : acked[v] <= Len(pending[v])
    BY <1>1, Zenon DEF TxTypeOK
  <2>3. <<>> \in Seq(Txns \cup {NoTxn}) /\ Len(<<>>) = 0
    OBVIOUS
  <2> QED
    BY <2>1, <2>2, <2>3, SMTT(30)
<1>5. closing' \in [Windows -> Txns \cup {NoTxn}]
  BY <1>1, Zenon DEF TxTypeOK
<1>6. BaseOK'
  BY <1>1, <1>2, <1>3, <1>4, <1>5, ZenonT(60) DEF BaseOK, TxTypeOK
<1>7. live \cup {t} \in SUBSET Txns /\ timers \cup {t} \in SUBSET Txns /\ {} \in SUBSET Txns
  BY <1>1, Zenon DEF TxTypeOK
<1>8. \A v \in Windows : \A i \in DOMAIN queue[v] :
         queue[v][i].of \in live \cup {t} => queue[v][i].of \in live
  BY <1>1, NewIsUnknown, Zenon
<1>9. \A v \in Windows : closing'[v] \in live \cup {t} => closing'[v] \in timers \cup {t}
  <2> SUFFICES ASSUME NEW v \in Windows, closing'[v] \in live \cup {t}
               PROVE  closing'[v] \in timers \cup {t}
    BY Zenon
  <2>1. CASE v = w
    BY <1>1, <2>1, TxnAssumption, ZenonT(60) DEF TxTypeOK
  <2>2. CASE v # w
    BY <1>1, <2>2, ZenonT(60) DEF TxInv, ClosersTimed, TxTypeOK
  <2> QED
    BY <2>1, <2>2, ZenonT(60)
<1> QED
  BY <1>1, <1>6, <1>7, <1>8, <1>9, QueuesKept, SMTT(30)

\* A close animation starts, which waits no longer.
LEMMA StartClosingKeeps ==
    ASSUME TxInv, NEW w \in Windows, StartClosing(w)
    PROVE  TxInv'
<1>1. /\ TxTypeOK /\ queue' = queue /\ closing' = [closing EXCEPT ![w] = NoTxn]
      /\ Settle(live, timers, notify, {}, inbox, {})
  BY Zenon DEF TxInv, StartClosing
<1>2. BaseOK'
  BY <1>1, Zenon DEF BaseOK, TxTypeOK, StartClosing, winVars, cliVars
<1>3. live \in SUBSET Txns /\ timers \in SUBSET Txns /\ {} \in SUBSET Txns /\ NoTxn \notin live
  BY <1>1, TxnAssumption, Zenon DEF TxTypeOK
<1>4. \A v \in Windows : closing'[v] \in live => closing'[v] \in timers
  BY <1>1, <1>3, Zenon DEF TxInv, ClosersTimed, TxTypeOK
<1> QED
  BY <1>1, <1>2, <1>3, <1>4, QueuesKept, Zenon

\* A deadline passes.
LEMMA DeadlineKeeps ==
    ASSUME TxInv, NEW t \in Txns, Deadline(t)
    PROVE  TxInv'
<1>1. /\ TxTypeOK /\ queue' = queue /\ closing' = closing
      /\ Settle(live, timers, notify, {t}, inbox, {})
  BY Zenon DEF TxInv, Deadline
<1>2. BaseOK'
  BY <1>1, Zenon DEF BaseOK, TxTypeOK, Deadline, winVars, cliVars
<1>3. live \in SUBSET Txns /\ timers \in SUBSET Txns /\ {t} \in SUBSET Txns
  BY <1>1, Zenon DEF TxTypeOK
<1>4. \A v \in Windows : closing'[v] \in live => closing'[v] \in timers
  BY <1>1, Zenon DEF TxInv, ClosersTimed
<1> QED
  BY <1>1, <1>2, <1>3, <1>4, QueuesKept, ZenonT(60)

\* Activation changes and acknowledgements touch nothing that waits.
LEMMA QuietKeeps ==
    ASSUME TxInv, NEW w \in Windows,
           \/ ChangeState(w)
           \/ \E k \in 1 .. MaxPending : AckConfigure(w, k)
    PROVE  TxInv'
<1>1. UNCHANGED <<queue, closing, live, timers, notify, inbox>>
  BY Zenon DEF ChangeState, AckConfigure
<1>2. TxTypeOK'
  <2>1. CASE ChangeState(w)
    BY <2>1, ZenonT(60) DEF TxInv, TxTypeOK, ChangeState, cliVars
  <2>2. CASE \E k \in 1 .. MaxPending : AckConfigure(w, k)
    BY <2>2, SMTT(30) DEF TxInv, TxTypeOK, AckConfigure, winVars
  <2> QED
    BY <2>1, <2>2, Zenon
<1> QED
  BY <1>1, <1>2, ZenonT(60) DEF TxInv, WaitersTold, ClosersTimed, NoLostWakeup, Released

-----------------------------------------------------------------------------
\* A new commit that waits does so for a live transaction of which another
\* window has an instance.
LEMMA NewCommitFacts ==
    ASSUME TxTypeOK, NEW w \in Windows, NEW buf \in BOOLEAN
    PROVE  /\ NewCommit(w, buf) \in Commits
           /\ NewCommit(w, buf).buf = buf
           /\ NewCommit(w, buf).wait =>
                 /\ NewCommit(w, buf).of \in live
                 /\ ~IsLast(NewCommit(w, buf).of, w)
<1> DEFINE t == TakenTransaction(w)
           size == IF acked[w] = 0 THEN "same" ELSE IF acked[w] = Len(pending[w]) THEN "latest" ELSE "older"
           of == IF t \in live THEN t ELSE NoTxn
           wait == t \in live /\ ~IsLast(t, w)
<1>1. NewCommit(w, buf) = [size |-> size, of |-> of, wait |-> wait, buf |-> buf]
  BY Zenon DEF NewCommit
<1>2. size \in {"same", "older", "latest"}
  BY Zenon
<1>3. of \in Txns \cup {NoTxn} /\ wait \in BOOLEAN /\ (wait => of \in live /\ ~IsLast(of, w))
  BY Zenon DEF TxTypeOK
<1> HIDE DEF t, size, of, wait
<1>4. NewCommit(w, buf) \in Commits
  BY <1>1, <1>2, <1>3, SMTT(30) DEF Commits
<1>5. NewCommit(w, buf).buf = buf /\ NewCommit(w, buf).wait = wait /\ NewCommit(w, buf).of = of
  BY <1>1
<1> QED
  BY <1>3, <1>4, <1>5, Zenon

\* What the client has not acknowledged stays configured.
LEMMA UntakenType ==
    ASSUME TxTypeOK, NEW w \in Windows
    PROVE  Untaken(w) \in [Windows -> Seq(Txns \cup {NoTxn})]
<1> DEFINE s == SubSeq(pending[w], acked[w] + 1, Len(pending[w]))
<1>1. Untaken(w) = [pending EXCEPT ![w] = s]
  BY Zenon DEF Untaken
<1>2. pending[w] \in Seq(Txns \cup {NoTxn}) /\ acked[w] \in Nat /\ acked[w] <= Len(pending[w])
  BY Zenon DEF TxTypeOK
<1>3. \A i \in acked[w] + 1 .. Len(pending[w]) : pending[w][i] \in Txns \cup {NoTxn}
  BY <1>2
<1>4. s \in Seq(Txns \cup {NoTxn})
  BY <1>2, <1>3
<1> HIDE DEF s
<1> QED
  BY <1>1, <1>4, Zenon DEF TxTypeOK

\* A commit arms the deadline and asks for the notification before it waits.
LEMMA CommitKeeps ==
    ASSUME TxInv, NEW w \in Windows, NEW buf \in BOOLEAN, NEW same, Commit(w, buf, same)
    PROVE  TxInv'
<1> DEFINE c == NewCommit(w, buf)
           q == [queue EXCEPT ![w] = Append(@, c)]
           n == [v \in Windows |-> IF v = w /\ queue[w] = <<>> /\ ~c.wait /\ ~buf THEN 1 ELSE 0]
           armed == timers \cup DeadlineOf(c)
           notes == notify \cup NotificationOf(w, c)
<1>1. /\ TxTypeOK /\ UNCHANGED <<winVars, closing>>
      /\ pending' = Untaken(w) /\ acked' = [acked EXCEPT ![w] = 0]
      /\ queue' = ApplyReady(q, n) /\ stale' = StaleThen(q, n, same)
      /\ Settle(live, armed, notes, {}, inbox, Applied(q, n))
  BY Zenon DEF TxInv, Commit
<1>2. /\ c \in Commits /\ c.buf = buf
      /\ c.wait => c.of \in live /\ ~IsLast(c.of, w)
  BY <1>1, NewCommitFacts, Zenon
<1>3. c.of \in Txns \cup {NoTxn}
  BY <1>2, Zenon DEF Commits
<1>4. armed \in SUBSET Txns /\ notes \in SUBSET (Txns \X Windows) /\ (c.wait => c.of \in armed /\ <<c.of, w>> \in notes)
  <2>1. live \subseteq Txns /\ timers \subseteq Txns /\ notify \subseteq Txns \X Windows
    BY <1>1, Zenon DEF TxTypeOK
  <2>2. c.wait => c.of \in Txns /\ c.of # NoTxn
    BY <1>2, <2>1, TxnAssumption, Zenon
  <2> HIDE DEF c
  <2>3. armed \in SUBSET Txns /\ (c.wait => c.of \in armed)
    BY <1>3, <2>1, <2>2, Zenon DEF DeadlineOf
  <2>4. c.wait => <<c.of, w>> \in Txns \X Windows
    BY <2>2, Zenon
  <2>5. notes \in SUBSET (Txns \X Windows) /\ (c.wait => <<c.of, w>> \in notes)
    BY <2>1, <2>4, Zenon DEF NotificationOf
  <2> QED
    BY <2>3, <2>5, Zenon
<1> HIDE DEF c
<1>5. /\ q \in [Windows -> Seq(Commits)]
      /\ \A v \in Windows \ {w} : q[v] = queue[v]
      /\ Len(q[w]) = Len(queue[w]) + 1 /\ q[w][Len(queue[w]) + 1] = c
      /\ \A i \in DOMAIN queue[w] : q[w][i] = queue[w][i]
  <2>1. queue \in [Windows -> Seq(Commits)] /\ q[w] = Append(queue[w], c) /\ queue[w] \in Seq(Commits)
    BY <1>1, ZenonT(60) DEF TxTypeOK
  <2>2. Append(queue[w], c) \in Seq(Commits)
    BY <1>2, <2>1, SMTT(30)
  <2>3. /\ Len(q[w]) = Len(queue[w]) + 1 /\ q[w][Len(queue[w]) + 1] = c
        /\ \A i \in DOMAIN queue[w] : q[w][i] = queue[w][i]
    BY <1>2, <2>1, SMTT(30)
  <2> QED
    BY <2>1, <2>2, <2>3, Zenon
<1>6. /\ n \in [Windows -> Nat] /\ \A v \in Windows \ {w} : n[v] = 0
      /\ n[w] = 0 \/ (n[w] = 1 /\ queue[w] = <<>>)
      /\ n[w] = 0 => queue[w] # <<>> \/ c.wait \/ buf
  OBVIOUS
<1> HIDE DEF n, q, armed, notes
<1>7. \A v \in Windows : queue[v] \in Seq(Commits) /\ Len(queue[v]) \in Nat /\ DOMAIN queue[v] = 1 .. Len(queue[v])
  BY <1>1 DEF TxTypeOK
<1>8. \A v \in Windows : n[v] <= Len(q[v])
  <2> SUFFICES ASSUME NEW v \in Windows PROVE n[v] <= Len(q[v])
    BY Zenon
  <2>1. CASE v = w
    BY <1>5, <1>6, <1>7, <2>1, SMTT(30)
  <2>2. CASE v # w
    BY <1>5, <1>6, <1>7, <2>2, SMTT(30)
  <2> QED
    BY <2>1, <2>2, Zenon
<1>9. /\ queue' \in [Windows -> Seq(Commits)]
      /\ \A v \in Windows :
            /\ Len(queue'[v]) = Len(q[v]) - n[v]
            /\ \A i \in DOMAIN queue'[v] : i + n[v] \in DOMAIN q[v] /\ queue'[v][i] = q[v][i + n[v]]
      /\ Applied(q, n) \in SUBSET Txns
  BY <1>1, <1>5, <1>6, <1>8, AppliedQueue, ZenonT(60)
<1>10. \A v \in Windows : DOMAIN queue'[v] = 1 .. Len(queue'[v]) /\ Len(queue'[v]) \in Nat
  BY <1>9, SMTT(30)
<1>11. \A v \in Windows \ {w} : Len(queue'[v]) = Len(queue[v]) /\ \A i \in DOMAIN queue[v] : queue'[v][i] = queue[v][i]
  BY <1>5, <1>6, <1>7, <1>9, <1>10, SMTT(30)
<1>12. n[w] = 1 => queue'[w] = <<>>
  <2>1. n[w] = 1 => Len(queue'[w]) = 0
    BY <1>5, <1>6, <1>7, <1>9, SMTT(30)
  <2> QED
    BY <1>9, <2>1, SMTT(30)
<1>13. n[w] = 0 => /\ Len(queue'[w]) = Len(queue[w]) + 1 /\ queue'[w][Len(queue[w]) + 1] = c
                   /\ \A i \in DOMAIN queue[w] : queue'[w][i] = queue[w][i]
  BY <1>5, <1>7, <1>9, <1>10, SMTT(30)
<1>14. BaseOK'
  <2>1. pending' \in [Windows -> Seq(Txns \cup {NoTxn})]
    BY <1>1, UntakenType, ZenonT(60)
  <2>2. stale' \in [Windows -> BOOLEAN]
    BY <1>1, StaleThenType, ZenonT(60)
  <2>3. acked' \in [Windows -> Nat]
    BY <1>1, Zenon DEF TxTypeOK
  <2>4. ASSUME NEW v \in Windows PROVE acked'[v] <= Len(pending'[v])
    <3>1. CASE v = w
      BY <1>1, <2>1, <3>1, SMTT(30) DEF TxTypeOK
    <3>2. CASE v # w
      BY <1>1, <3>2, Zenon DEF TxTypeOK, Untaken
    <3> QED
      BY <3>1, <3>2, Zenon
  <2> QED
    BY <1>1, <1>9, <2>1, <2>2, <2>3, <2>4, Zenon DEF BaseOK, TxTypeOK, winVars
<1>15. /\ TxTypeOK /\ live \in SUBSET Txns /\ inbox \in SUBSET Windows
       /\ {} \in SUBSET Txns /\ Applied(q, n) \in SUBSET Txns
       /\ armed \in SUBSET Txns /\ notes \in SUBSET (Txns \X Windows)
       /\ Settle(live, armed, notes, {}, inbox, Applied(q, n))
  BY <1>1, <1>4, <1>9, ZenonT(60) DEF TxTypeOK
<1>16. \A v \in Windows : \A i \in DOMAIN queue'[v] :
          queue'[v][i].wait /\ queue'[v][i].of \in live =>
              queue'[v][i].of \in armed /\ <<queue'[v][i].of, v>> \in notes
  <2>1. timers \subseteq armed /\ notify \subseteq notes
    BY Zenon DEF armed, notes
  <2> SUFFICES ASSUME NEW v \in Windows, NEW i \in DOMAIN queue'[v],
                      queue'[v][i].wait, queue'[v][i].of \in live
               PROVE  queue'[v][i].of \in armed /\ <<queue'[v][i].of, v>> \in notes
    BY Zenon
  <2>2. CASE i \in DOMAIN queue[v] /\ queue'[v][i] = queue[v][i]
    BY <2>1, <2>2, Zenon DEF TxInv, WaitersTold
  <2>3. CASE v = w /\ queue'[v][i] = c
    BY <1>4, <2>3, Zenon
  <2> QED
    BY <1>6, <1>7, <1>10, <1>11, <1>12, <1>13, <2>2, <2>3, SMTT(30)
<1>17. \A v \in Windows : closing'[v] \in live => closing'[v] \in armed
  BY <1>1, Zenon DEF TxInv, ClosersTimed, armed
<1>18. ASSUME c.wait, queue[w] = <<>> PROVE c.of \in live'
  <2>0. PICK t \in live : t = c.of
    BY <1>2, <1>18, Zenon
  <2>1. PICK v \in Windows : v \in InstancesIn(t, next, Untaken(w), queue)
    BY <1>2, <1>18, <2>0, ZenonT(60) DEF IsLast, InstancesIn
  <2>2. v \in InstancesIn(t, next', pending', queue')
    <3>1. CASE \E i \in DOMAIN queue[v] : queue[v][i].buf /\ queue[v][i].of = t
      <4>1. v # w
        BY <1>18, <3>1, SMTT(30)
      <4> QED
        BY <1>7, <1>10, <1>11, <3>1, <4>1, ZenonT(60) DEF InstancesIn
    <3>2. CASE ~\E i \in DOMAIN queue[v] : queue[v][i].buf /\ queue[v][i].of = t
      BY <1>1, <2>1, <3>2, ZenonT(60) DEF InstancesIn, winVars
    <3> QED
      BY <3>1, <3>2, Zenon
  <2>3. t \in live'
    BY <1>15, <2>0, <2>2, SettleSpares, SMTT(30)
  <2> QED
    BY <2>0, <2>3, Zenon
<1>19. ASSUME NEW v \in Windows, queue'[v] # <<>>
       PROVE  \/ v \in inbox
              \/ Head(queue'[v]).buf
              \/ /\ Head(queue'[v]).wait /\ Head(queue'[v]).of \in live
                 /\ <<Head(queue'[v]).of, v>> \in notify \/ Head(queue'[v]).of \in live'
  <2>1. Head(queue'[v]) = queue'[v][1]
    BY <1>9, <1>19, SMTT(30)
  <2>2. CASE queue[v] # <<>> /\ queue'[v][1] = queue[v][1]
    BY <2>1, <2>2, FirstIsTold, Zenon
  <2>3. CASE v = w /\ queue[w] = <<>> /\ queue'[w][1] = c /\ (c.wait \/ buf)
    BY <1>2, <1>18, <2>1, <2>3, ZenonT(60)
  <2>4. v # w => queue[v] # <<>> /\ queue'[v][1] = queue[v][1]
    <3>1. v # w => Len(queue[v]) # 0
      BY <1>9, <1>10, <1>11, <1>19, SMTT(30)
    <3> QED
      BY <1>7, <1>11, <3>1, SMTT(30)
  <2>5. v = w => n[w] = 0
    BY <1>6, <1>12, <1>19, Zenon
  <2>6. v = w /\ queue[w] # <<>> => queue'[v][1] = queue[v][1]
    BY <1>7, <1>13, <2>5, SMTT(30)
  <2>7. v = w /\ queue[w] = <<>> => queue'[w][1] = c /\ (c.wait \/ buf)
    BY <1>6, <1>7, <1>13, <2>5, SMTT(30)
  <2> QED
    BY <2>2, <2>3, <2>4, <2>6, <2>7, Zenon
<1> QED
  BY <1>14, <1>15, <1>16, <1>17, <1>19, StepKeeps, ZenonT(60)

-----------------------------------------------------------------------------
\* A drawn commit waits for what it waited for.
LEMMA DrawnFacts ==
    ASSUME NEW c \in Commits
    PROVE  Drawn(c) \in Commits /\ Drawn(c).of = c.of /\ Drawn(c).wait = c.wait
BY Zenon DEF Drawn, Commits

\* A buffer is drawn: what the client's queue still holds back is told later.
LEMMA BufferReadyKeeps ==
    ASSUME TxInv, NEW w \in Windows, NEW i, NEW same, BufferReady(w, i, same)
    PROVE  TxInv'
<1> DEFINE d == Drawn(queue[w][i])
           s == [queue[w] EXCEPT ![i] = d]
           q == [queue EXCEPT ![w] = s]
           L == {t \in live : InstancesIn(t, next, pending, q) # {}}
           n == Applying(q, {w}, L)
<1>1. /\ TxTypeOK /\ i \in DOMAIN queue[w] /\ UNCHANGED <<winVars, cliVars, closing>>
      /\ queue' = ApplyReady(q, n) /\ stale' = StaleThen(q, n, same)
      /\ Settle(live, timers, notify, {}, inbox, Applied(q, n))
  <2>1. TxTypeOK /\ i \in DOMAIN queue[w] /\ UNCHANGED <<winVars, cliVars, closing>>
    BY Zenon DEF TxInv, BufferReady
  <2>2. queue' = ApplyReady(q, n) /\ stale' = StaleThen(q, n, same)
    BY Zenon DEF BufferReady
  <2>3. Settle(live, timers, notify, {}, inbox, Applied(q, n))
    BY Zenon DEF BufferReady
  <2> QED
    BY <2>1, <2>2, <2>3, Zenon
<1>2. L \subseteq live
  BY Zenon
<1>3. /\ queue \in [Windows -> Seq(Commits)]
      /\ \A v \in Windows : Len(queue[v]) \in Nat /\ DOMAIN queue[v] = 1 .. Len(queue[v])
  BY <1>1 DEF TxTypeOK
<1>4. queue[w][i] \in Commits
  BY <1>1, <1>3
<1>5. d \in Commits /\ d.of = queue[w][i].of /\ d.wait = queue[w][i].wait
  BY <1>4, DrawnFacts, Zenon
<1> HIDE DEF d
<1>6. /\ s \in Seq(Commits) /\ Len(s) = Len(queue[w])
      /\ \A k \in DOMAIN queue[w] : s[k].of = queue[w][k].of /\ s[k].wait = queue[w][k].wait
  BY <1>1, <1>3, <1>5
<1> HIDE DEF s
<1>7. /\ q \in [Windows -> Seq(Commits)] /\ \A v \in Windows \ {w} : q[v] = queue[v]
      /\ \A v \in Windows : Len(q[v]) = Len(queue[v])
      /\ \A v \in Windows : \A k \in DOMAIN queue[v] : q[v][k].of = queue[v][k].of /\ q[v][k].wait = queue[v][k].wait
  <2>1. q[w] = s /\ \A v \in Windows \ {w} : q[v] = queue[v]
    BY <1>3, Zenon
  <2>2. q \in [Windows -> Seq(Commits)]
    BY <1>3, <1>6, ZenonT(60)
  <2> HIDE DEF q
  <2>3. ASSUME NEW v \in Windows
        PROVE  /\ Len(q[v]) = Len(queue[v])
               /\ \A k \in DOMAIN queue[v] : q[v][k].of = queue[v][k].of /\ q[v][k].wait = queue[v][k].wait
    <3>1. CASE v = w
      BY <1>6, <2>1, <3>1, ZenonT(60)
    <3>2. CASE v # w
      BY <2>1, <3>2, Zenon
    <3> QED
      BY <3>1, <3>2, Zenon
  <2> QED
    BY <2>1, <2>2, <2>3, Zenon
<1> HIDE DEF q, L
<1>8. /\ n \in [Windows -> Nat] /\ \A v \in Windows : n[v] <= Len(q[v])
      /\ \A v \in Windows \ {w} : n[v] = 0
      /\ n[w] < Len(q[w]) => ~Released(q[w][n[w] + 1], L)
  <2>1. /\ n \in [Windows -> Nat]
        /\ \A v \in Windows :
              /\ n[v] <= Len(q[v])
              /\ v \notin {w} => n[v] = 0
              /\ v \in {w} /\ n[v] < Len(q[v]) => ~Released(q[v][n[v] + 1], L)
    BY <1>7, ApplyingFacts, ZenonT(60)
  <2> HIDE DEF n
  <2> QED
    BY <2>1, Zenon
<1> HIDE DEF n
<1>9. /\ queue' \in [Windows -> Seq(Commits)]
      /\ \A v \in Windows :
            /\ Len(queue'[v]) = Len(q[v]) - n[v]
            /\ \A k \in DOMAIN queue'[v] : k + n[v] \in DOMAIN q[v] /\ queue'[v][k] = q[v][k + n[v]]
      /\ Applied(q, n) \in SUBSET Txns
  BY <1>1, <1>7, <1>8, AppliedQueue, ZenonT(60)
<1>10. BaseOK'
  <2>1. stale' \in [Windows -> BOOLEAN]
    BY <1>1, StaleThenType, ZenonT(60)
  <2> QED
    BY <1>1, <1>9, <2>1, Zenon DEF BaseOK, TxTypeOK, winVars, cliVars
<1>11. \A v \in Windows : DOMAIN q[v] = DOMAIN queue[v]
  BY <1>3, <1>7
<1>12. \A v \in Windows : \A k \in DOMAIN queue'[v] :
          queue'[v][k].wait /\ queue'[v][k].of \in live =>
              queue'[v][k].of \in timers /\ <<queue'[v][k].of, v>> \in notify
  <2> SUFFICES ASSUME NEW v \in Windows, NEW k \in DOMAIN queue'[v],
                      queue'[v][k].wait, queue'[v][k].of \in live
               PROVE  queue'[v][k].of \in timers /\ <<queue'[v][k].of, v>> \in notify
    BY Zenon
  <2>1. PICK j \in DOMAIN queue[v] : queue'[v][k] = q[v][j]
    BY <1>9, <1>11, ZenonT(60)
  <2>2. queue[v][j].of = queue'[v][k].of /\ queue[v][j].wait
    BY <1>7, <2>1, SMTT(30)
  <2> QED
    BY <2>2, Zenon DEF TxInv, WaitersTold
<1>13. \A v \in Windows : closing'[v] \in live => closing'[v] \in timers
  BY <1>1, Zenon DEF TxInv, ClosersTimed
<1>14. ASSUME NEW v \in Windows, queue'[v] # <<>>
       PROVE  \/ v \in inbox
              \/ Head(queue'[v]).buf
              \/ /\ Head(queue'[v]).wait /\ Head(queue'[v]).of \in live
                 /\ <<Head(queue'[v]).of, v>> \in notify \/ Head(queue'[v]).of \in live'
  <2>1. Head(queue'[v]) = queue'[v][1] /\ 1 \in DOMAIN queue'[v]
    BY <1>9, <1>14, SMTT(30)
  <2>2. CASE v = w
    <3>1. n[w] < Len(q[w]) /\ queue'[v][1] = q[w][n[w] + 1]
      BY <1>7, <1>8, <1>9, <2>1, <2>2, SMTT(30)
    <3>2. queue'[v][1].buf \/ (queue'[v][1].wait /\ queue'[v][1].of \in live)
      BY <1>2, <1>8, <3>1, Zenon DEF Released
    <3> QED
      BY <1>12, <2>1, <3>2, Zenon
  <2>3. CASE v # w
    <3>1. n[v] = 0 /\ q[v] = queue[v]
      BY <1>7, <1>8, <2>3, ZenonT(60)
    <3>2. 1 + n[v] \in DOMAIN queue[v] /\ queue'[v][1] = queue[v][1 + n[v]]
      BY <1>9, <2>1, <3>1, Zenon
    <3>3. queue'[v][1] = queue[v][1] /\ queue[v] # <<>>
      BY <1>3, <3>1, <3>2, SMTT(30)
    <3> QED
      BY <2>1, <3>3, FirstIsTold, Zenon
  <2> QED
    BY <2>2, <2>3, Zenon
<1>15. /\ TxTypeOK /\ live \in SUBSET Txns /\ timers \in SUBSET Txns
       /\ notify \in SUBSET (Txns \X Windows) /\ inbox \in SUBSET Windows
       /\ {} \in SUBSET Txns /\ Applied(q, n) \in SUBSET Txns
       /\ Settle(live, timers, notify, {}, inbox, Applied(q, n))
  BY <1>1, <1>9, Zenon DEF TxTypeOK
<1>16. \A v \in Windows : queue'[v] # <<>> =>
          \/ v \in inbox
          \/ Head(queue'[v]).buf
          \/ /\ Head(queue'[v]).wait /\ Head(queue'[v]).of \in live
             /\ <<Head(queue'[v]).of, v>> \in notify \/ Head(queue'[v]).of \in live'
  BY <1>14, Zenon
<1> QED
  BY <1>10, <1>12, <1>13, <1>15, <1>16, StepKeeps, ZenonT(60)

\* A commit that has become outdated waits for what it waited for.
LEMMA OutdatedFacts ==
    ASSUME NEW w \in Windows, NEW q \in Seq(Commits)
    PROVE  /\ Outdated(w, q) \in Seq(Commits) /\ Len(Outdated(w, q)) = Len(q)
           /\ \A k \in DOMAIN q : /\ Outdated(w, q)[k].of = q[k].of
                                  /\ Outdated(w, q)[k].wait = q[k].wait
                                  /\ Outdated(w, q)[k].buf = q[k].buf
<1>1. ASSUME NEW c \in Commits
      PROVE  /\ OutdatedOne(w, c) \in Commits /\ OutdatedOne(w, c).of = c.of
             /\ OutdatedOne(w, c).wait = c.wait /\ OutdatedOne(w, c).buf = c.buf
  BY <1>1, Zenon DEF OutdatedOne, Commits
<1>2. Len(q) \in Nat /\ DOMAIN q = 1 .. Len(q) /\ \A k \in DOMAIN q : q[k] \in Commits
  OBVIOUS
<1>3. Outdated(w, q) = [k \in 1 .. Len(q) |-> OutdatedOne(w, q[k])]
  BY <1>2, Zenon DEF Outdated
<1>4. \A k \in 1 .. Len(q) : OutdatedOne(w, q[k]) \in Commits
  BY <1>1, <1>2, Zenon
<1>5. Outdated(w, q) \in Seq(Commits) /\ Len(Outdated(w, q)) = Len(q)
  BY <1>2, <1>3, <1>4, SMTT(30)
<1> QED
  BY <1>1, <1>2, <1>3, <1>5, ZenonT(60)

\* The configures that a refresh sends keep the type of the windows' state.
LEMMA SendType ==
    ASSUME TxTypeOK, NEW q, NEW st \in [Windows -> BOOLEAN], NEW same,
           acked' = acked, SendPendingConfigures(q, st, same)
    PROVE  /\ pending' \in [Windows -> Seq(Txns \cup {NoTxn})]
           /\ \A w \in Windows : acked'[w] <= Len(pending'[w])
           /\ stale' \in [Windows -> BOOLEAN]
           /\ resize' \in [Windows -> BOOLEAN] /\ other' \in [Windows -> BOOLEAN]
           /\ next' \in [Windows -> Txns \cup {NoTxn}]
<1>1. /\ pending' = [w \in Windows |-> IF other[w] \/ resize[w] THEN Append(pending[w], next[w]) ELSE pending[w]]
      /\ stale' = [w \in Windows |-> IF resize[w] THEN st[w] => w \notin same ELSE st[w]]
      /\ resize' = [w \in Windows |-> FALSE] /\ other' = [w \in Windows |-> FALSE]
      /\ next' = [w \in Windows |-> NoTxn]
  BY Zenon DEF SendPendingConfigures
<1>2. ASSUME NEW w \in Windows
      PROVE  pending'[w] \in Seq(Txns \cup {NoTxn}) /\ acked'[w] <= Len(pending'[w])
  <2>1. /\ pending[w] \in Seq(Txns \cup {NoTxn}) /\ next[w] \in Txns \cup {NoTxn}
        /\ acked[w] \in Nat /\ acked[w] <= Len(pending[w]) /\ Len(pending[w]) \in Nat
    BY DEF TxTypeOK
  <2>2. /\ Append(pending[w], next[w]) \in Seq(Txns \cup {NoTxn})
        /\ Len(Append(pending[w], next[w])) = Len(pending[w]) + 1
    BY <2>1
  <2>3. pending'[w] = Append(pending[w], next[w]) \/ pending'[w] = pending[w]
    BY <1>1, Zenon
  <2>4. acked'[w] = acked[w]
    BY Zenon
  <2>5. CASE pending'[w] = Append(pending[w], next[w])
    BY <2>1, <2>2, <2>4, <2>5, SMTT(30)
  <2>6. CASE pending'[w] = pending[w]
    BY <2>1, <2>4, <2>6, Zenon
  <2> QED
    BY <2>3, <2>5, <2>6, Zenon
<1>3. \A w \in Windows : (IF resize[w] THEN st[w] => w \notin same ELSE st[w]) \in BOOLEAN
  BY Zenon
<1>4. stale' \in [Windows -> BOOLEAN]
  BY <1>1, <1>3, Zenon
<1> QED
  BY <1>1, <1>2, <1>4, Zenon

\* A refresh applies what it was told of and empties the channel: a queue that
\* still holds something back is going to be told again.
LEMMA RefreshKeeps ==
    ASSUME TxInv, NEW same, Refresh(same)
    PROVE  TxInv'
<1> DEFINE n == Applying(queue, inbox, live)
           q == ApplyReady(queue, n)
           st == StaleThen(queue, n, same)
<1>1. /\ TxTypeOK /\ UNCHANGED <<open, acked, closing>>
      /\ \/ SendPendingConfigures(q, st, same)
         \/ queue' = q /\ stale' = st /\ UNCHANGED <<pending, resize, other, next>>
      /\ Settle(live, timers, notify, {}, {}, Applied(queue, n))
  BY Zenon DEF TxInv, Refresh
<1>2. st \in [Windows -> BOOLEAN]
  BY StaleThenType, Zenon
<1>3. /\ queue \in [Windows -> Seq(Commits)]
      /\ \A v \in Windows : Len(queue[v]) \in Nat /\ DOMAIN queue[v] = 1 .. Len(queue[v])
  BY <1>1 DEF TxTypeOK
<1>4. /\ n \in [Windows -> Nat]
      /\ \A v \in Windows :
            /\ n[v] <= Len(queue[v])
            /\ v \notin inbox => n[v] = 0
            /\ v \in inbox /\ n[v] < Len(queue[v]) => ~Released(queue[v][n[v] + 1], live)
  BY <1>3, ApplyingFacts, Zenon
<1> HIDE DEF n, st
<1>5. /\ q \in [Windows -> Seq(Commits)]
      /\ \A v \in Windows :
            /\ Len(q[v]) = Len(queue[v]) - n[v]
            /\ \A k \in DOMAIN q[v] : k + n[v] \in DOMAIN queue[v] /\ q[v][k] = queue[v][k + n[v]]
      /\ Applied(queue, n) \in SUBSET Txns
  BY <1>3, <1>4, AppliedQueue, ZenonT(60)
<1> HIDE DEF q
<1>6. ASSUME NEW v \in Windows
      PROVE  /\ queue'[v] \in Seq(Commits) /\ Len(queue'[v]) = Len(q[v])
             /\ \A k \in DOMAIN queue'[v] : /\ k + n[v] \in DOMAIN queue[v]
                                            /\ queue'[v][k].of = queue[v][k + n[v]].of
                                            /\ queue'[v][k].wait = queue[v][k + n[v]].wait
                                            /\ queue'[v][k].buf = queue[v][k + n[v]].buf
  <2>1. q[v] \in Seq(Commits) /\ DOMAIN q[v] = 1 .. Len(q[v])
    BY <1>5
  <2>2. CASE queue'[v] = q[v]
    BY <1>5, <2>1, <2>2, Zenon
  <2>3. CASE queue'[v] = Outdated(v, q[v])
    <3>1. /\ queue'[v] \in Seq(Commits) /\ Len(queue'[v]) = Len(q[v])
          /\ \A k \in DOMAIN q[v] : /\ queue'[v][k].of = q[v][k].of
                                    /\ queue'[v][k].wait = q[v][k].wait
                                    /\ queue'[v][k].buf = q[v][k].buf
      BY <2>1, <2>3, OutdatedFacts, SMTT(30)
    <3>2. DOMAIN queue'[v] = DOMAIN q[v]
      BY <2>1, <3>1
    <3> QED
      BY <1>5, <3>1, <3>2, Zenon
  <2> QED
    BY <1>1, <2>2, <2>3, Zenon DEF SendPendingConfigures
<1>7. queue' \in [Windows -> Seq(Commits)]
  <2>1. CASE queue' = q
    BY <1>5, <2>1, Zenon
  <2>2. CASE queue' = [w \in Windows |-> Outdated(w, q[w])]
    <3>1. \A w \in Windows : queue'[w] = Outdated(w, q[w]) /\ queue'[w] \in Seq(Commits)
      BY <1>6, <2>2, Zenon
    <3>2. \A w \in Windows : Outdated(w, q[w]) \in Seq(Commits)
      BY <3>1, Zenon
    <3> QED
      BY <2>2, <3>2, Zenon
  <2> QED
    BY <1>1, <2>1, <2>2, Zenon DEF SendPendingConfigures
<1>8. BaseOK'
  <2>1. CASE SendPendingConfigures(q, st, same)
    BY <1>1, <1>2, <1>7, <2>1, SendType, Zenon DEF BaseOK, TxTypeOK
  <2>2. CASE queue' = q /\ stale' = st /\ UNCHANGED <<pending, resize, other, next>>
    BY <1>1, <1>2, <1>7, <2>2, Zenon DEF BaseOK, TxTypeOK
  <2> QED
    BY <1>1, <2>1, <2>2, Zenon
<1>9. \A v \in Windows : \A k \in DOMAIN queue'[v] :
          queue'[v][k].wait /\ queue'[v][k].of \in live =>
              queue'[v][k].of \in timers /\ <<queue'[v][k].of, v>> \in notify
  BY <1>6, ZenonT(60) DEF TxInv, WaitersTold
<1>10. \A v \in Windows : closing'[v] \in live => closing'[v] \in timers
  BY <1>1, Zenon DEF TxInv, ClosersTimed
<1>11. ASSUME NEW v \in Windows, queue'[v] # <<>>
       PROVE  \/ v \in {}
              \/ Head(queue'[v]).buf
              \/ /\ Head(queue'[v]).wait /\ Head(queue'[v]).of \in live
                 /\ <<Head(queue'[v]).of, v>> \in notify \/ Head(queue'[v]).of \in live'
  <2>1. Head(queue'[v]) = queue'[v][1] /\ 1 \in DOMAIN queue'[v]
    BY <1>6, <1>11, SMTT(30)
  <2> DEFINE h == queue[v][n[v] + 1]
  <2>2. n[v] + 1 \in DOMAIN queue[v] /\ queue'[v][1].of = h.of /\ queue'[v][1].wait = h.wait /\ queue'[v][1].buf = h.buf
    BY <1>4, <1>6, <2>1
  <2>3. CASE v \in inbox
    <3>1. ~Released(h, live)
      BY <1>3, <1>4, <2>2, <2>3, SMTT(30)
    <3>2. h.buf \/ (h.wait /\ h.of \in live)
      BY <3>1, Zenon DEF Released
    <3> HIDE DEF h
    <3> QED
      BY <1>9, <2>1, <2>2, <3>2, ZenonT(60)
  <2>4. CASE v \notin inbox
    <3>1. h = queue[v][1] /\ queue[v] # <<>>
      BY <1>3, <1>4, <2>2, <2>4, SMTT(30)
    <3> HIDE DEF h
    <3> QED
      BY <2>1, <2>2, <2>4, <3>1, FirstIsTold, ZenonT(60)
  <2> QED
    BY <2>3, <2>4, Zenon
<1>12. /\ TxTypeOK /\ live \in SUBSET Txns /\ timers \in SUBSET Txns
       /\ notify \in SUBSET (Txns \X Windows) /\ {} \in SUBSET Windows
       /\ {} \in SUBSET Txns /\ Applied(queue, n) \in SUBSET Txns
       /\ Settle(live, timers, notify, {}, {}, Applied(queue, n))
  BY <1>1, <1>5, Zenon DEF TxTypeOK
<1> QED
  BY <1>8, <1>9, <1>10, <1>11, <1>12, StepKeeps, ZenonT(60)

-----------------------------------------------------------------------------
\* The invariant holds of every state.
THEOREM TxInductive == TxSpec => []TxInv
<1>1. TxInit => TxInv
  <2> SUFFICES ASSUME TxInit PROVE TxInv
    BY Zenon
  <2>1. TxTypeOK
    BY DEF TxInit, TxTypeOK
  <2>2. WaitersTold /\ ClosersTimed /\ NoLostWakeup
    BY Zenon DEF TxInit, WaitersTold, ClosersTimed, NoLostWakeup
  <2> QED
    BY <2>1, <2>2, Zenon DEF TxInv
<1>2. TxInv /\ [TxNext]_txVars => TxInv'
  <2> SUFFICES ASSUME TxInv, [TxNext]_txVars PROVE TxInv'
    BY Zenon
  <2>1. CASE \E t \in Txns, R \in SUBSET Windows : Resize(t, R)
    BY <2>1, ResizeKeeps, Zenon
  <2>2. CASE \E w \in Windows, t \in Txns, R \in SUBSET Windows, animated \in BOOLEAN :
                CloseWindow(w, t, R, animated)
    BY <2>2, CloseWindowKeeps, Zenon
  <2>3. CASE \E w \in Windows : ChangeState(w)
    BY <2>3, QuietKeeps, ZenonT(60)
  <2>4. CASE \E w \in Windows : StartClosing(w)
    BY <2>4, StartClosingKeeps, Zenon
  <2>5. CASE \E w \in Windows, k \in 1 .. MaxPending : AckConfigure(w, k)
    BY <2>5, QuietKeeps, ZenonT(60)
  <2>6. CASE \E w \in Windows, buf \in BOOLEAN : \E same \in SUBSET {w} : Commit(w, buf, same)
    BY <2>6, CommitKeeps, Zenon
  <2>7. CASE \E w \in Windows : BufferDrawn(w)
    BY <2>7, BufferReadyKeeps, ZenonT(60) DEF BufferDrawn
  <2>8. CASE \E t \in Txns : Deadline(t)
    BY <2>8, DeadlineKeeps, Zenon
  <2>9. CASE Refreshes
    BY <2>9, RefreshKeeps, Zenon DEF Refreshes
  <2>10. CASE UNCHANGED txVars
    <3>1. TxTypeOK'
      BY <2>10, ZenonT(60) DEF TxInv, TxTypeOK, txVars, winVars, cliVars
    <3>2. WaitersTold' /\ ClosersTimed' /\ NoLostWakeup'
      BY <2>10, Zenon DEF TxInv, WaitersTold, ClosersTimed, NoLostWakeup, Released, txVars
    <3> QED
      BY <3>1, <3>2, Zenon DEF TxInv
  <2> QED
    BY <2>1, <2>2, <2>3, <2>4, <2>5, <2>6, <2>7, <2>8, <2>9, <2>10, Zenon DEF TxNext
<1> QED
  BY <1>1, <1>2, PTL DEF TxSpec

\* Whatever waits for a transaction has its deadline timer registered: neither
\* a commit nor a close animation waits forever for a client that is silent, and
\* neither waits for a window that is closed.
THEOREM WaitingEndsByTheDeadline == TxSpec => []BlockedHasDeadline
<1>1. TxInit => Held
  BY Zenon DEF TxInit, Held
<1>2. TxInv /\ Held /\ [TxNext]_txVars => Held'
  BY HeldStep, Zenon DEF TxInv
<1>3. TxInv /\ Held => BlockedHasDeadline
  <2> SUFFICES ASSUME TxInv, Held, NEW t \in Txns, NEW w \in Windows, t \in live,
                      Waits(w, t) \/ closing[w] = t
               PROVE  t \in timers /\ \E v \in Instances(t) : v \in open \/ Draws(v, t)
    BY Zenon DEF BlockedHasDeadline
  <2>1. t \in timers
    BY Zenon DEF TxInv, WaitersTold, ClosersTimed, Waits
  <2>2. PICK v \in Instances(t) : TRUE
    BY Zenon DEF Held
  <2>3. v \in open \/ Draws(v, t)
    <3> SUFFICES ASSUME v \notin open PROVE Draws(v, t)
      BY Zenon
    <3>1. v \in Windows /\ next[v] # t /\ ~\E i \in DOMAIN pending[v] : pending[v][i] = t
      <4>1. v \in Windows
        BY Zenon DEF Instances, InstancesIn
      <4>2. next[v] = NoTxn /\ pending[v] = <<>> /\ NoTxn # t
        BY <4>1, TxnAssumption, Zenon DEF Held
      <4> QED
        BY <4>1, <4>2
    <3> QED
      BY <3>1, Zenon DEF Instances, InstancesIn, Draws
  <2> QED
    BY <2>1, <2>2, <2>3, Zenon
<1> QED
  BY <1>1, <1>2, <1>3, TxInductive, PTL DEF TxSpec

\* A commit whose blockers are released is in the channel that the next refresh
\* reads: completing a transaction, dropping its last instance and drawing a
\* buffer forget nobody.
THEOREM ReleasedIsTold == TxSpec => []NoLostWakeup
<1>1. TxInv => NoLostWakeup
  BY Zenon DEF TxInv
<1> QED
  BY <1>1, TxInductive, PTL

-----------------------------------------------------------------------------
(* IPC requests: the answers are counted.                                  *)

INSTANCE FiniteSetTheorems

\* Every request has one answer on its way, from the time it is read to the reply: its
\* callback, the pick it became, or the message in its channel.
THEOREM EveryRequestAnsweredOnce == RqSpec => []AnsweredOnce
<1>1. RqInv => AnsweredOnce
  <2> SUFFICES ASSUME RqInv, NEW c \in RqClients
               PROVE  Cardinality({i \in DOMAIN rqIdle : rqIdle[i].client = c /\ rqIdle[i].what # "config"})
                        + Cardinality({p \in Picks : rqPick[p] = c}) + Len(rqChan[c])
                      = (IF rqTask[c] = "await" THEN 1 ELSE 0)
    BY ZenonT(60) DEF AnsweredOnce
  <2> USE RqAssumption DEF RqInv
  <2> DEFINE callbacks == {i \in DOMAIN rqIdle : rqIdle[i].client = c /\ rqIdle[i].what # "config"}
             picks == {p \in Picks : rqPick[p] = c}
  <2>1. Waiting(c) => Cardinality(callbacks) = 1
    <3> SUFFICES ASSUME Waiting(c) PROVE Cardinality(callbacks) = 1
      BY Zenon
    <3>1. PICK i \in DOMAIN rqIdle : rqIdle[i].client = c /\ Answers(i)
      BY ZenonT(60) DEF Waiting
    <3>2. callbacks = {i}
      BY <3>1, ZenonT(60) DEF OneCallback, Answers
    <3> QED
      BY <3>2, FS_Singleton, ZenonT(60)
  <2>2. ~Waiting(c) => Cardinality(callbacks) = 0
    <3>1. ~Waiting(c) => callbacks = {}
      BY ZenonT(60) DEF Waiting, Answers
    <3> QED
      BY <3>1, FS_EmptySet, ZenonT(60)
  <2>3. Picking(c) => Cardinality(picks) = 1
    <3> SUFFICES ASSUME Picking(c) PROVE Cardinality(picks) = 1
      BY ZenonT(60)
    <3>1. PICK p \in Picks : rqPick[p] = c
      BY ZenonT(60) DEF Picking
    <3>2. picks = {p}
      BY <3>1, ZenonT(60) DEF PickHasItsGrab
    <3> QED
      BY <3>2, FS_Singleton, ZenonT(60)
  <2>4. ~Picking(c) => Cardinality(picks) = 0
    <3>1. ~Picking(c) => picks = {}
      BY ZenonT(60) DEF Picking
    <3> QED
      BY <3>1, FS_EmptySet, ZenonT(60)
  <2>5. IF rqChan[c] = <<>> THEN Len(rqChan[c]) = 0 ELSE Len(rqChan[c]) = 1
    <3>1. rqChan[c] \in Channels
      BY Zenon DEF RqTypeOK
    <3> QED
      BY <3>1, SMTT(30) DEF Channels
  <2>6. Waiting(c) => rqTask[c] = "await" /\ rqChan[c] = <<>> /\ ~Picking(c)
    BY Zenon DEF Waiting, CallbacksOfWaiting, WaitsFor
  <2>7. Picking(c) => rqTask[c] = "await" /\ rqChan[c] = <<>>
    BY ZenonT(60) DEF Picking, PicksOfWaiting
  <2>8. rqChan[c] # <<>> => rqTask[c] = "await"
    BY Zenon DEF AnswersOfWaiting
  <2>9. rqTask[c] = "await" => rqChan[c] # <<>> \/ Picking(c) \/ Waiting(c)
    BY Zenon DEF SomeAnswer
  <2> HIDE DEF callbacks, picks, RqInv
  <2>10. Cardinality(callbacks) + Cardinality(picks) + Len(rqChan[c]) = (IF rqTask[c] = "await" THEN 1 ELSE 0)
    <3>1. CASE Waiting(c)
      BY <2>1, <2>4, <2>5, <2>6, <3>1, SMTT(30)
    <3>2. CASE ~Waiting(c) /\ Picking(c)
      BY <2>2, <2>3, <2>5, <2>7, <3>2, SMTT(30)
    <3>3. CASE ~Waiting(c) /\ ~Picking(c)
      <4>1. CASE rqChan[c] = <<>>
        <5>1. Len(rqChan[c]) = 0 /\ rqTask[c] # "await"
          BY <2>5, <2>9, <3>3, <4>1, ZenonT(60)
        <5> QED
          BY <2>2, <2>4, <3>3, <5>1, SMTT(30)
      <4>2. CASE rqChan[c] # <<>>
        <5>1. Len(rqChan[c]) = 1 /\ rqTask[c] = "await"
          BY <2>5, <2>8, <4>2, ZenonT(60)
        <5> QED
          BY <2>2, <2>4, <3>3, <5>1, SMTT(30)
      <4> QED
        BY <4>1, <4>2, ZenonT(60)
    <3> QED
      BY <3>1, <3>2, <3>3, ZenonT(60)
  <2> QED
    BY <2>10, ZenonT(60) DEF callbacks, picks
<1> QED
  BY <1>1, RqInductive, PTL

=============================================================================
