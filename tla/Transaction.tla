---------------------------- MODULE Transaction ----------------------------
(***************************************************************************)
(* Resize transactions (src/src/utils/transaction.rs) between the windows  *)
(* of one column: how sizes are requested, throttled and configured        *)
(* (layout/scrolling.rs, window/mapped.rs), how a window's commits wait    *)
(* for those of the others (the pre-commit hook of handlers/xdg_shell.rs), *)
(* and how the deadline, buffers that are not ready yet and windows that   *)
(* close end the waiting.                                                  *)
(*                                                                         *)
(* A Transaction is reference counted and completes when its last          *)
(* instance is dropped: its instances are the places that Instances names. *)
(* An id nothing refers to any more stands for a transaction that does not *)
(* exist, and is used again.                                               *)
(*                                                                         *)
(* Sizes are only compared with each other, so of a window's sizes the     *)
(* model keeps whether the one to request next differs from the one in the *)
(* last configure (resize), and whether that differs from the committed    *)
(* one (stale).  Serials are counted from a window's last commit:          *)
(* pending[w] has one entry for every configure sent that the client has   *)
(* not committed, and acked[w] says how many of these the client has       *)
(* acknowledged.  Each window is a client of its own.  Transactions are    *)
(* enabled and the column is not tabbed.                                   *)
(***************************************************************************)
EXTENDS Naturals, Sequences, FiniteSets

CONSTANTS
    Windows,      \* the windows that can be in the column
    Txns,         \* identities of transactions
    NoTxn,        \* no transaction
    MaxPending,   \* bound on the uncommitted configures of all windows
    MaxQueue      \* bound on the blocked commits of a window

VARIABLES
    open,         \* the windows in the column
    resize,       \* is the size in server_pending another than in current_server
    other,        \* does server_pending differ from current_server otherwise
    stale,        \* is the size in current_server another than the committed one
    next,         \* Mapped::transaction_for_next_configure
    pending,      \* the uncommitted configures, with Mapped::pending_transactions
    acked,        \* how many of them the client has acknowledged
    queue,        \* a client's commits that wait for their blockers
    closing,      \* the transaction a close animation waits for
    live,         \* the transactions that exist and are not completed
    timers,       \* the transactions whose deadline timer is registered
    notify,       \* Inner::notifications: who is to be told of which transaction
    inbox,        \* the clients in the blocker_cleared channel
    excused,      \* transactions past their deadline or overlapping another
    appeared      \* transactions some commit of which was applied

winVars == <<open, resize, other, next>>
cliVars == <<pending, acked>>
txVars == <<winVars, cliVars, queue, stale, closing, live, timers, notify, inbox, excused, appeared>>

ASSUME TxnAssumption == NoTxn \notin Txns
ASSUME BoundsAssumption == MaxPending \in Nat \ {0} /\ MaxQueue \in Nat \ {0}

\* A blocked commit: how the size of the configure it answers compares to the
\* last configure's, the transaction it belongs to, whether it is blocked by
\* it, and whether its buffer is still being drawn, in which case it keeps an
\* instance of the transaction.
Commits == [size : {"same", "older", "latest"}, of : Txns \cup {NoTxn}, wait : BOOLEAN, buf : BOOLEAN]

\* The type of the state.
TxTypeOK ==
    /\ open \subseteq Windows
    /\ resize \in [Windows -> BOOLEAN] /\ other \in [Windows -> BOOLEAN]
    /\ stale \in [Windows -> BOOLEAN]
    /\ next \in [Windows -> Txns \cup {NoTxn}]
    /\ pending \in [Windows -> Seq(Txns \cup {NoTxn})]
    /\ acked \in [Windows -> Nat]
    /\ \A w \in Windows : acked[w] <= Len(pending[w])
    /\ queue \in [Windows -> Seq(Commits)]
    /\ closing \in [Windows -> Txns \cup {NoTxn}]
    /\ live \subseteq Txns /\ timers \subseteq Txns
    /\ notify \subseteq Txns \X Windows
    /\ inbox \subseteq Windows
    /\ excused \subseteq Txns /\ appeared \subseteq Txns

TxInit ==
    /\ open = Windows
    /\ resize = [w \in Windows |-> FALSE]
    /\ other = [w \in Windows |-> FALSE]
    /\ stale = [w \in Windows |-> FALSE]
    /\ next = [w \in Windows |-> NoTxn]
    /\ pending = [w \in Windows |-> <<>>]
    /\ acked = [w \in Windows |-> 0]
    /\ queue = [w \in Windows |-> <<>>]
    /\ closing = [w \in Windows |-> NoTxn]
    /\ live = {} /\ timers = {} /\ notify = {} /\ inbox = {}
    /\ excused = {} /\ appeared = {}

-----------------------------------------------------------------------------
(* Transaction.                                                            *)

\* Mutant: the instance is dropped before the buffer is drawn.
InstancesIn_NotDrawing(t, n, p, q) ==
    {w \in Windows : n[w] = t \/ \E i \in DOMAIN p[w] : p[w][i] = t}

\* The windows that have an instance of t, if n, p and q are the transactions
\* for their next configures, their configures and their blocked commits.
InstancesIn(t, n, p, q) ==
    {w \in Windows : \/ n[w] = t
                     \/ \E i \in DOMAIN p[w] : p[w][i] = t
                     \/ \E i \in DOMAIN q[w] : q[w][i].buf /\ q[w][i].of = t}

Instances(t) == InstancesIn(t, next, pending, queue)

\* The windows that still look at t, an instance or a blocker.
Referring(t) ==
    Instances(t) \cup {w \in Windows :
        closing[w] = t \/ \E i \in DOMAIN queue[w] : queue[w][i].of = t}

\* Transaction::new can give t.
IsNew(t) == Referring(t) = {}

\* What is left of S once nothing refers to a transaction any more.
Remembered(S) == {t \in S : (Referring(t))' # {}}

\* Inner::complete: the clients that the transactions in C send to the channel.
Notified(C) == {n[2] : n \in {n \in notify : n[1] \in C}}

\* The transactions that window w takes part in: configured and not committed,
\* or committed and blocked.
InFlight(w) == ({pending[w][i] : i \in DOMAIN pending[w]}
                   \cup {queue[w][i].of : i \in DOMAIN queue[w]}) \ {NoTxn}

Overlapping == UNION {IF Cardinality(InFlight(w)) > 1 THEN InFlight(w) ELSE {} : w \in Windows}

\* The end of every step, where the transactions in fired reach their deadline
\* and the last instance of others may have been dropped (Drop of Transaction):
\* these complete, and a dropped one has its timer removed.  alive, armed and
\* notes are the transactions, their timers and their notifications before
\* that, rest what is left in the channel and applied the commits applied.
Settle(alive, armed, notes, fired, rest, applied) ==
    LET dropped == {t \in alive : (Instances(t))' = {}}
        complete == dropped \cup (fired \cap alive)
    IN /\ live' = alive \ complete
       /\ timers' = armed \ (dropped \cup fired)
       /\ notify' = {n \in notes : n[1] \notin complete}
       /\ inbox' = rest \cup Notified(complete)
       /\ excused' = Remembered(excused \cup (fired \cap alive) \cup Overlapping')
       /\ appeared' = Remembered(appeared \cup applied)

-----------------------------------------------------------------------------
(* The layout asks for sizes.                                              *)

\* Bound: the configures sent and not committed, and those to be sent.
Room == Cardinality(UNION {{w} \X DOMAIN pending[w] : w \in Windows})
           + Cardinality({w \in Windows : resize[w] \/ other[w]}) <= MaxPending

\* Column::update_tile_sizes_with_transaction with transaction t: each window
\* of ws is given an instance of t; for those in R the size is not the one in
\* the last configure.
RequestSizes(ws, t, R) ==
    /\ resize' = [w \in Windows |-> w \in R]
    /\ next' = [w \in Windows |-> IF w \in ws THEN t ELSE NoTxn]

\* The layout resizes the column.
Resize(t, R) ==
    /\ open # {} /\ R \subseteq open
    /\ IsNew(t)
    /\ RequestSizes(open, t, R)
    /\ UNCHANGED <<open, other, cliVars, queue, stale, closing>>
    /\ Room'
    /\ Settle(live \cup {t}, timers, notify, {}, inbox, {})

\* toplevel_destroyed, and a commit without a buffer: the close animation, if
\* there is one, waits for the other windows to take the place.
CloseWindow(w, t, R, animated) ==
    /\ w \in open /\ R \subseteq open \ {w}
    /\ IsNew(t)
    /\ open' = open \ {w}
    /\ RequestSizes(open', t, R)
    /\ other' = [other EXCEPT ![w] = FALSE]
    /\ pending' = [pending EXCEPT ![w] = <<>>]
    /\ acked' = [acked EXCEPT ![w] = 0]
    /\ stale' = [stale EXCEPT ![w] = FALSE]
    /\ closing' = [closing EXCEPT ![w] = IF animated THEN t ELSE NoTxn]
    /\ UNCHANGED queue
    /\ Room'
    /\ Settle(live \cup {t}, timers \cup {t}, notify, {}, inbox, {})

\* Something else in the window's state changes: its activation, its bounds.
ChangeState(w) ==
    /\ w \in open /\ ~other[w]
    /\ other' = [other EXCEPT ![w] = TRUE]
    /\ UNCHANGED <<open, resize, next, cliVars, queue, stale, closing,
                   live, timers, notify, inbox, excused, appeared>>
    /\ Room'

\* ClosingWindow::advance_animations: the animation starts.
StartClosing(w) ==
    /\ closing[w] # NoTxn /\ closing[w] \notin live
    /\ closing' = [closing EXCEPT ![w] = NoTxn]
    /\ UNCHANGED <<winVars, cliVars, queue, stale>>
    /\ Settle(live, timers, notify, {}, inbox, {})

-----------------------------------------------------------------------------
(* Commits and their blockers.  The queue of blocked commits is smithay's:  *)
(* commits of a surface are applied in order, when blocker_cleared finds    *)
(* their blockers released.                                                 *)

\* TransactionBlocker::state, and the blocker of the buffer; L are the live
\* transactions.
Released(c, L) == ~c.buf /\ ~(c.wait /\ c.of \in L)

\* blocker_cleared: how many commits of q are applied.
Ready(q, L) ==
    CHOOSE n \in 0..Len(q) : /\ \A i \in 1..n : Released(q[i], L)
                             /\ n < Len(q) => ~Released(q[n + 1], L)

\* Is window w's committed size another than its last configure's once it has
\* applied the commits in q?  It may or may not be after an older one, same.
StaleAfter(w, q, same) ==
    LET ks == {k \in DOMAIN q : q[k].size # "same"}
    IN IF ks = {} THEN stale[w]
       ELSE q[CHOOSE k \in ks : \A i \in ks : i <= k].size = "older" /\ ~same

\* The commits of the clients in C whose blockers are released are applied.
\* The sizes of windows in same turn out to be equal.
Applying(q, C, L) == [w \in Windows |-> IF w \in C THEN Ready(q[w], L) ELSE 0]
ApplyReady(q, n) == [w \in Windows |-> SubSeq(q[w], n[w] + 1, Len(q[w]))]
StaleThen(q, n, same) ==
    [w \in Windows |-> w \in open /\ StaleAfter(w, SubSeq(q[w], 1, n[w]), w \in same)]
Applied(q, n) == (UNION {{q[w][i].of : i \in 1..n[w]} : w \in Windows}) \ {NoTxn}

\* The client acknowledges the kth uncommitted configure.
AckConfigure(w, k) ==
    /\ w \in open
    /\ k \in DOMAIN pending[w] /\ k > acked[w]
    /\ acked' = [acked EXCEPT ![w] = k]
    /\ UNCHANGED <<winVars, pending, queue, stale, closing, live, timers, notify,
                   inbox, excused, appeared>>

\* Mapped::take_pending_transaction: the newest transaction among those of the
\* acknowledged configures.
TakenTransaction(w) ==
    LET ks == {k \in 1..acked[w] : pending[w][k] # NoTxn}
    IN IF ks = {} THEN NoTxn ELSE pending[w][CHOOSE k \in ks : \A i \in ks : i <= k]

\* The configures of window w that a commit does not take out.
Untaken(w) == [pending EXCEPT ![w] = SubSeq(@, acked[w] + 1, Len(@))]

\* Transaction::is_last in the pre-commit hook of window w.
IsLast(t, w) == InstancesIn(t, next, Untaken(w), queue) = {}

\* The commit that window w makes; buf says whether its buffer is a dmabuf
\* that is still being drawn.
NewCommit(w, buf) ==
    LET t == TakenTransaction(w)
        active == t \in live
    IN [size |-> IF acked[w] = 0 THEN "same" ELSE IF acked[w] = Len(pending[w]) THEN "latest" ELSE "older",
        of   |-> IF active THEN t ELSE NoTxn,
        wait |-> active /\ ~IsLast(t, w),
        buf  |-> buf]

\* Mutant: the deadline is not registered when the commit has to wait.
DeadlineOf_OnlyLast(c) == IF c.wait THEN {} ELSE {c.of} \ {NoTxn}

\* register_deadline_timer, for the last instance too.
DeadlineOf(c) == {c.of} \ {NoTxn}

\* add_notification, unless the commit has the last instance.
NotificationOf(w, c) == IF c.wait THEN {<<c.of, w>>} ELSE {}

\* The pre-commit hook of a mapped toplevel, then the commit itself.
Commit(w, buf, same) ==
    /\ w \in open /\ Len(queue[w]) < MaxQueue
    /\ UNCHANGED <<winVars, closing>>
    /\ LET c == NewCommit(w, buf)
           q == [queue EXCEPT ![w] = Append(@, c)]
           n == [v \in Windows |-> IF v = w /\ queue[w] = <<>> /\ ~c.wait /\ ~buf THEN 1 ELSE 0]
       IN /\ pending' = Untaken(w)
          /\ acked' = [acked EXCEPT ![w] = 0]
          /\ queue' = ApplyReady(q, n)
          /\ stale' = StaleThen(q, n, same)
          /\ Settle(live, timers \cup DeadlineOf(c), notify \cup NotificationOf(w, c),
                    {}, inbox, Applied(q, n))

Drawn(c) == [c EXCEPT !.buf = FALSE]

\* The buffer of the ith blocked commit is drawn: the source's callback drops
\* the transaction and calls blocker_cleared.
BufferReady(w, i, same) ==
    /\ i \in DOMAIN queue[w] /\ queue[w][i].buf
    /\ UNCHANGED <<winVars, cliVars, closing>>
    /\ LET q == [queue EXCEPT ![w][i] = Drawn(@)]
           n == Applying(q, {w}, {t \in live : InstancesIn(t, next, pending, q) # {}})
       IN /\ queue' = ApplyReady(q, n)
          /\ stale' = StaleThen(q, n, same)
          /\ Settle(live, timers, notify, {}, inbox, Applied(q, n))

\* The deadline timer of t fires.
Deadline(t) ==
    /\ t \in timers
    /\ UNCHANGED <<winVars, cliVars, queue, stale, closing>>
    /\ Settle(live, timers, notify, {t}, inbox, {})

-----------------------------------------------------------------------------
(* State::refresh.                                                         *)

\* Mapped::configure_intent, with st the windows' staleness.
ConfigureIntent(w, st) ==
    IF other[w] THEN "ShouldSend"
    ELSE IF ~resize[w] THEN "NotNeeded"
    ELSE IF ~st[w] THEN "CanSend"
    ELSE "Throttled"

\* ScrollingSpace::refresh: is the column sent its configures?
ColumnSends(st) ==
    LET intents == {ConfigureIntent(w, st) : w \in open}
    IN "ShouldSend" \in intents \/ ("CanSend" \in intents /\ "Throttled" \notin intents)

\* A commit answers the last configure no longer once another size is sent.
OutdatedOne(w, c) == [c EXCEPT !.size = IF resize[w] /\ @ = "latest" THEN "older" ELSE @]
Outdated(w, q) == [k \in DOMAIN q |-> OutdatedOne(w, q[k])]

\* Mapped::send_pending_configure of every window of the column; q and st are
\* the blocked commits and the staleness before it.
SendPendingConfigures(q, st, same) ==
    /\ pending' = [w \in Windows |-> IF other[w] \/ resize[w] THEN Append(pending[w], next[w]) ELSE pending[w]]
    /\ queue' = [w \in Windows |-> Outdated(w, q[w])]
    /\ stale' = [w \in Windows |-> IF resize[w] THEN st[w] => w \notin same ELSE st[w]]
    /\ resize' = [w \in Windows |-> FALSE]
    /\ other' = [w \in Windows |-> FALSE]
    /\ next' = [w \in Windows |-> NoTxn]

\* notify_blocker_cleared, then refresh of the layout.
Refresh(same) ==
    LET n == Applying(queue, inbox, live)
        q == ApplyReady(queue, n)
        st == StaleThen(queue, n, same)
    IN /\ IF ColumnSends(st)
          THEN SendPendingConfigures(q, st, same)
          ELSE queue' = q /\ stale' = st /\ UNCHANGED <<pending, resize, other, next>>
       /\ UNCHANGED <<open, acked, closing>>
       /\ Settle(live, timers, notify, {}, {}, Applied(queue, n))

-----------------------------------------------------------------------------
\* The windows that have a size in flight, which may equal another one.
Unsure == {w \in open : stale[w] \/ \E i \in DOMAIN queue[w] : queue[w][i].size = "older"}

BufferDrawn(w) == \E i \in 1..MaxQueue, same \in SUBSET {w} : BufferReady(w, i, same)
Refreshes == \E same \in SUBSET Unsure : Refresh(same)

TxNext ==
    \/ \E t \in Txns, R \in SUBSET Windows : Resize(t, R)
    \/ \E w \in Windows, t \in Txns, R \in SUBSET Windows, animated \in BOOLEAN :
          CloseWindow(w, t, R, animated)
    \/ \E w \in Windows : ChangeState(w)
    \/ \E w \in Windows : StartClosing(w)
    \/ \E w \in Windows, k \in 1..MaxPending : AckConfigure(w, k)
    \/ \E w \in Windows, buf \in BOOLEAN : \E same \in SUBSET {w} : Commit(w, buf, same)
    \/ \E w \in Windows : BufferDrawn(w)
    \/ \E t \in Txns : Deadline(t)
    \/ Refreshes

TxSpec == TxInit /\ [][TxNext]_txVars

-----------------------------------------------------------------------------
\* Does a commit of w wait for t?
Waits(w, t) == \E i \in DOMAIN queue[w] : queue[w][i].wait /\ queue[w][i].of = t

\* Does w have a commit of t whose buffer is being drawn?
Draws(w, t) == \E i \in DOMAIN queue[w] : queue[w][i].buf /\ queue[w][i].of = t

\* Whatever waits for a transaction, a commit or a close animation, waits no
\* longer than until its deadline: the timer is registered.  And it only waits
\* for a window that can still answer or for a buffer that is being drawn: a
\* window that closes takes its instances with it.
BlockedHasDeadline ==
    \A t \in Txns, w \in Windows :
        /\ t \in live
        /\ Waits(w, t) \/ closing[w] = t
        => t \in timers /\ \E v \in Instances(t) : v \in open \/ Draws(v, t)

\* A commit all of whose blockers are released is never forgotten: the next
\* refresh is going to tell its client's queue.
NoLostWakeup ==
    \A w \in Windows :
        queue[w] # <<>> /\ Released(Head(queue[w]), live) => w \in inbox

\* The windows of a column change their size together: once a commit of a
\* transaction is applied, every window that takes part in it has committed,
\* and the frame after a refresh shows the commits of all of them, but for a
\* commit behind an earlier one whose buffer is still being drawn.  Not so past
\* the deadline, nor when transactions overlap.
ResizedTogether ==
    [][\A t \in Txns, w \in Windows :
          t \in appeared' \ excused' =>
             /\ \A i \in DOMAIN pending'[w] : pending'[w][i] # t
             /\ w \in open' => \A i \in DOMAIN queue'[w] :
                   \/ queue'[w][i].of # t
                   \/ \E k \in 1..(i - 1) : queue'[w][k].buf
                   \/ ~Refreshes]_txVars

=============================================================================
