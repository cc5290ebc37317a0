-------------------------- MODULE NotificationPanel --------------------------
(***************************************************************************)
(* The notification panel: paging through notifications, the unread badge, *)
(* marking one read and dismissing all, while the workflow adds rows.      *)
(*                                                                         *)
(* A client sends one request after another.  One step is one statement or *)
(* COMMIT; the UPDATE of mark_all_read is one step per row, because it     *)
(* meets row locks on its way, in whatever order the plan scans.           *)
(***************************************************************************)
EXTENDS Naturals, FiniteSets, Relation

CONSTANTS
    Note,        \* notification ids, ordered like the UUIDs they stand for
    User,
    Recipient,   \* Recipient[n]: notifications.user_id
    Client, NoClient,
    Calls,       \* what a client may ask for
    Old,         \* notifications stored before the run
    MaxStamp     \* bound on the instants that created_at may take

\* Fields that a kind of call has no use for carry any value.  unread: the panel's
\* unread tab (?is_read=false); limit: the page size.
Call == [kind : {"list", "badge", "mark", "dismiss"}, actor : User, note : Note,
         unread : BOOLEAN, limit : Nat \ {0}]

ASSUME ConstantsAssumption ==
    /\ Note \subseteq Nat
    /\ Recipient \in [Note -> User]
    /\ NoClient \notin Client
    /\ Calls \subseteq Call /\ Calls # {}
    /\ Old \subseteq Note /\ IsFiniteSet(Old)
    /\ MaxStamp \in Nat

VARIABLES
    stored,      \* notifications that are committed
    stamp,       \* created_at
    isRead,      \* is_read
    lock,        \* lock[n]: the client whose open UPDATE holds row n
    pc, call,
    snapshot,    \* what the first statement of the request (or walk) could match
    earlier,     \* history: the rows that were read when the request came
    todo,        \* rows an UPDATE still has to visit
    flipped,     \* rows it has updated
    offset, shown, total,   \* a walk through the pages
    answer

rows == <<stored, stamp, isRead>>
walk == <<earlier, offset, shown, total>>
vars == <<rows, lock, pc, call, snapshot, todo, flipped, walk, answer>>

PCs == {"idle", "count", "page", "badge", "load", "update", "scan", "commit", "done"}
Answers == {"none", "200", "404", "500", "lost"}

Init ==
    /\ stored = Old
    /\ stamp = [n \in Note |-> 0]
    /\ isRead = [n \in Note |-> FALSE]
    /\ lock = [n \in Note |-> NoClient]
    /\ pc = [q \in Client |-> "idle"]
    /\ call = [q \in Client |-> CHOOSE c \in Calls : TRUE]
    /\ snapshot = [q \in Client |-> {}]
    /\ todo = [q \in Client |-> {}]
    /\ flipped = [q \in Client |-> {}]
    /\ earlier = [q \in Client |-> {}]
    /\ offset = [q \in Client |-> 0]
    /\ shown = [q \in Client |-> {}]
    /\ total = [q \in Client |-> 0]
    /\ answer = [q \in Client |-> "none"]
-----------------------------------------------------------------------------
Goto(q, step) ==
    /\ pc' = [pc EXCEPT ![q] = step]
    /\ UNCHANGED answer

Respond(q, code) ==
    /\ pc' = [pc EXCEPT ![q] = "done"]
    /\ answer' = [answer EXCEPT ![q] = code]

BuggyMine(q) == stored

\* _recipient_conds.
Mine(q) == {n \in stored : Recipient[n] = call[q].actor}

Unread(q) == {n \in Mine(q) : ~isRead[n]}

\* The rows a list query matches.
Listed(q) == IF call[q].unread THEN Unread(q) ELSE Mine(q)

BuggyBefore(m, n) ==
    \/ stamp[m] > stamp[n]
    \/ stamp[m] = stamp[n] /\ IF isRead[m] = isRead[n] THEN m > n ELSE isRead[m]

\* ORDER BY created_at DESC, id DESC.
Before(m, n) == stamp[m] > stamp[n] \/ (stamp[m] = stamp[n] /\ m > n)

\* LIMIT and OFFSET.
PageOf(S, off, limit) ==
    {n \in S : Cardinality({m \in S : Before(m, n)}) \in off..(off + limit - 1)}

FirstStep(kind) ==
    CASE kind = "list"    -> "count"
      [] kind = "badge"   -> "badge"
      [] kind = "mark"    -> "load"
      [] kind = "dismiss" -> "scan"

\* A request arrives.  The UPDATE of mark_all_read matches what its snapshot shows.
Begin(q, c) ==
    /\ pc[q] = "idle"
    /\ call' = [call EXCEPT ![q] = c]
    /\ Goto(q, FirstStep(c.kind))
    /\ LET matched == {n \in stored : Recipient[n] = c.actor
                                      /\ (c.unread \/ c.kind = "dismiss" => ~isRead[n])}
       IN  /\ snapshot' = [snapshot EXCEPT ![q] = matched]
           /\ todo' = [todo EXCEPT ![q] = IF c.kind = "dismiss" THEN matched ELSE {}]
    /\ earlier' = [earlier EXCEPT ![q] = {n \in stored : isRead[n]}]
    /\ UNCHANGED <<rows, lock, flipped, offset, shown, total>>
-----------------------------------------------------------------------------
\* list_notifications, first statement: the total.
CountRows(q) ==
    /\ pc[q] = "count"
    /\ total' = [total EXCEPT ![q] = Cardinality(Listed(q))]
    /\ Goto(q, "page")
    /\ UNCHANGED <<rows, lock, call, snapshot, todo, flipped, earlier, offset, shown>>

\* Second statement: the page.  The client asks for the next one, a request of
\* its own, while a page comes full or the total says that there is more.
ReadPage(q) ==
    LET limit == call[q].limit
        page == PageOf(Listed(q), offset[q], limit)
    IN  /\ pc[q] = "page"
        /\ shown' = [shown EXCEPT ![q] = @ \cup page]
        /\ offset' = [offset EXCEPT ![q] = @ + limit]
        /\ IF Cardinality(page) = limit \/ offset[q] + limit < total[q]
           THEN Goto(q, "count") ELSE Respond(q, "200")
        /\ UNCHANGED <<rows, lock, call, snapshot, todo, flipped, earlier, total>>

\* unread_count.
CountUnread(q) ==
    /\ pc[q] = "badge"
    /\ total' = [total EXCEPT ![q] = Cardinality(Unread(q))]
    /\ Respond(q, "200")
    /\ UNCHANGED <<rows, lock, call, snapshot, todo, flipped, earlier, offset, shown>>

\* mark_read: not there and not yours are one answer; read already is an answer
\* without a commit.
Load(q) ==
    /\ pc[q] = "load"
    /\ IF call[q].note \notin Mine(q) THEN Respond(q, "404")
       ELSE IF isRead[call[q].note] THEN Respond(q, "200")
       ELSE Goto(q, "update")
    /\ UNCHANGED <<rows, lock, call, snapshot, todo, flipped, walk>>

\* The flush and the COMMIT: the UPDATE names the row by its key and waits for
\* whoever has it.
MarkRead(q) ==
    /\ pc[q] = "update"
    /\ lock[call[q].note] = NoClient
    /\ isRead' = [isRead EXCEPT ![call[q].note] = TRUE]
    /\ Respond(q, "200")
    /\ UNCHANGED <<stored, stamp, lock, call, snapshot, todo, flipped, walk>>
-----------------------------------------------------------------------------
BuggyVisit(q, n) ==
    /\ pc[q] = "scan"
    /\ n \in todo[q]
    /\ lock[n] = NoClient
    /\ todo' = [todo EXCEPT ![q] = @ \ {n}]
    /\ lock' = [lock EXCEPT ![n] = q]
    /\ flipped' = [flipped EXCEPT ![q] = @ \cup {n}]
    /\ Goto(q, "scan")
    /\ UNCHANGED <<rows, call, snapshot, walk>>

BuggySkipLocked(q, n) ==
    /\ pc[q] = "scan"
    /\ n \in todo[q]
    /\ todo' = [todo EXCEPT ![q] = @ \ {n}]
    /\ IF lock[n] # NoClient THEN UNCHANGED <<lock, flipped>>
       ELSE /\ lock' = [lock EXCEPT ![n] = q]
            /\ flipped' = [flipped EXCEPT ![q] = @ \cup {n}]
    /\ Goto(q, "scan")
    /\ UNCHANGED <<rows, call, snapshot, walk>>

\* The UPDATE of mark_all_read reaches a row of its snapshot: it waits for the
\* lock, and evaluates its WHERE again on the row as it then is.
Visit(q, n) ==
    /\ pc[q] = "scan"
    /\ n \in todo[q]
    /\ lock[n] = NoClient
    /\ todo' = [todo EXCEPT ![q] = @ \ {n}]
    /\ IF isRead[n] THEN UNCHANGED <<lock, flipped>>
       ELSE /\ lock' = [lock EXCEPT ![n] = q]
            /\ flipped' = [flipped EXCEPT ![q] = @ \cup {n}]
    /\ Goto(q, "scan")
    /\ UNCHANGED <<rows, call, snapshot, walk>>

ScanEnds(q) ==
    /\ pc[q] = "scan"
    /\ todo[q] = {}
    /\ Goto(q, "commit")
    /\ UNCHANGED <<rows, lock, call, snapshot, todo, flipped, walk>>

BuggyReleased(q) == lock

\* The end of the transaction frees its rows.
Released(q) == [n \in Note |-> IF lock[n] = q THEN NoClient ELSE lock[n]]

\* The COMMIT.  The response says how many rows were flipped, and unread = 0.
CommitDismiss(q) ==
    /\ pc[q] = "commit"
    /\ isRead' = [n \in Note |-> isRead[n] \/ n \in flipped[q]]
    /\ lock' = Released(q)
    /\ total' = [total EXCEPT ![q] = 0]
    /\ Respond(q, "200")
    /\ UNCHANGED <<stored, stamp, call, snapshot, todo, flipped, earlier, offset, shown>>

\* Nothing of the transaction remains.
Abort(q, code) ==
    /\ lock' = Released(q)
    /\ flipped' = [flipped EXCEPT ![q] = {}]
    /\ todo' = [todo EXCEPT ![q] = {}]
    /\ Respond(q, code)
    /\ UNCHANGED <<rows, call, snapshot, walk>>

\* The first waits for a row that the second has.
WaitsFor == [w \in Client \X Client |->
                pc[w[1]] = "scan" /\ \E n \in todo[w[1]] : lock[n] = w[2]]

InCycle(q) == TransitiveClosure(WaitsFor, Client)[q, q]

\* PostgreSQL ends a cycle of waiting transactions by aborting one of them; the
\* handler does not catch that.
Deadlock(q) ==
    /\ pc[q] = "scan"
    /\ InCycle(q)
    /\ Abort(q, "500")

\* The request dies before its commit.
Fail(q) ==
    /\ pc[q] \notin {"idle", "done"}
    /\ Abort(q, "lost")
-----------------------------------------------------------------------------
(***************************************************************************)
(* The workflow's transactions that add notifications (module Workflow).   *)
(* created_at is the time the transaction began, so a row may turn up      *)
(* behind rows that were there before it, and several may carry the same.  *)
(***************************************************************************)
Arrive(n) ==
    /\ n \notin stored
    /\ stored' = stored \cup {n}
    /\ stamp' \in {[stamp EXCEPT ![n] = t] : t \in 0..MaxStamp}
    /\ UNCHANGED <<isRead, lock, pc, call, snapshot, todo, flipped, walk, answer>>

Terminating ==
    /\ \A q \in Client : pc[q] = "done"
    /\ UNCHANGED vars

\* What the server does with a request, failures aside.
Handle(q) ==
    \/ CountRows(q) \/ ReadPage(q) \/ CountUnread(q)
    \/ Load(q) \/ MarkRead(q)
    \/ (\E n \in Note : Visit(q, n)) \/ ScanEnds(q) \/ CommitDismiss(q) \/ Deadlock(q)

Next ==
    \/ \E q \in Client : Handle(q) \/ Fail(q) \/ \E c \in Calls : Begin(q, c)
    \/ \E n \in Note : Arrive(n)
    \/ Terminating

Spec == Init /\ [][Next]_vars

\* The event loop runs every ready coroutine; PostgreSQL wakes the waiters of a
\* freed row and resolves deadlocks.
FairSpec == Spec /\ \A q \in Client : WF_vars(Handle(q))
-----------------------------------------------------------------------------
\* Rows, locks and what requests remember have their types; only a running
\* UPDATE has rows to visit, and only an open one holds rows.
TypeOK ==
    /\ stored \subseteq Note /\ IsFiniteSet(stored)
    /\ stamp \in [Note -> 0..MaxStamp]
    /\ isRead \in [Note -> BOOLEAN]
    /\ lock \in [Note -> Client \cup {NoClient}]
    /\ pc \in [Client -> PCs]
    /\ call \in [Client -> Calls]
    /\ snapshot \in [Client -> SUBSET Note]
    /\ todo \in [Client -> SUBSET Note]
    /\ flipped \in [Client -> SUBSET Note]
    /\ earlier \in [Client -> SUBSET Note]
    /\ offset \in [Client -> Nat]
    /\ shown \in [Client -> SUBSET Note]
    /\ total \in [Client -> Nat]
    /\ answer \in [Client -> Answers]
    /\ \A q \in Client : todo[q] # {} => pc[q] = "scan"
    /\ \A n \in Note : lock[n] # NoClient =>
        pc[lock[n]] \in {"scan", "commit"} /\ n \in flipped[lock[n]]

\* "marked_read is how many rows this call actually flipped": what a dismissal
\* counts was unread until its own COMMIT, so two dismissals, or one and a mark,
\* never count a notification twice (mark_all_read's WHERE clause).
FlipsAreReal ==
    [][\A q \in Client : pc[q] = "commit" /\ answer'[q] = "200" =>
        \A n \in flipped[q] : ~isRead[n] /\ isRead'[n]]_vars

\* A 200 means read, and for good: the notification that was marked, and every
\* unread one there was when the dismissal began, whichever other request had its
\* row at the time.  What is unread after the answer "unread = 0" has arrived
\* since (mark_read, mark_all_read).
AnsweredMeansRead ==
    \A q \in Client : answer[q] = "200" =>
        /\ call[q].kind = "mark" => isRead[call[q].note]
        /\ call[q].kind = "dismiss" => \A n \in snapshot[q] : isRead[n]

\* A notification is personal: nobody but its recipient marks it or sees it,
\* System Admins included, and nothing marks it unread again (_recipient_conds).
OnlyTheRecipient ==
    [][/\ \A n \in Note : isRead'[n] # isRead[n] =>
            /\ isRead'[n]
            /\ \E q \in Client : /\ answer'[q] # answer[q]
                                 /\ call[q].actor = Recipient[n]
       /\ \A q \in Client : \A n \in shown'[q] : Recipient[n] = call[q].actor]_vars

\* Nobody waits for a stranger: whoever makes a dismissal wait is a dismissal of the
\* same user, so a deadlock is between the tabs of one person (mark_all_read's
\* WHERE clause again, and mark_read's, which holds no row while it waits).
WaitsArePersonal ==
    \A q, r \in Client : WaitsFor[<<q, r>>] =>
        /\ call[q].actor = call[r].actor
        /\ call[q].kind = "dismiss" /\ call[r].kind = "dismiss"

\* Paging to the end shows everything there was at the start, although each page
\* is a query of its own, rows arrive meanwhile out of order of their created_at
\* and several share one.  In the unread tab a row read on the way, a new one
\* included, moves the others up, and only that may hide one
\* (list_notifications).
PagesMissNothing ==
    \A q \in Client : answer[q] = "200" /\ call[q].kind = "list" =>
        \/ snapshot[q] \subseteq shown[q]
        \/ call[q].unread /\ \E n \in Mine(q) : isRead[n] /\ n \notin earlier[q]

\* Whoever sends a request gets an answer, also when two dismissals meet each
\* other's rows.
EventuallyAnswered == \A q \in Client : pc[q] # "idle" ~> pc[q] = "done"
=============================================================================
