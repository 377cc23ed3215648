-------------------------------- MODULE Inbox --------------------------------
(***************************************************************************)
(* modules/notifications: the inbox store (store.ts), which keeps what the *)
(* bell shows in step with the server, and its lifecycle                   *)
(* (composables/use-inbox-lifecycle.ts) over one event stream              *)
(* (infrastructure/create-sse-client.ts).                                  *)
(*                                                                         *)
(* Reads, writes and frames reach the tab in any order among themselves;   *)
(* frames of one connection arrive in the order the server wrote them, and *)
(* those of a connection that drops are lost.                              *)
(***************************************************************************)
EXTENDS Naturals, Sequences, SequencesExt

CONSTANTS Persons, Numbers,
          MaxReads,   \* bound on the reads in flight
          MaxMoves,   \* bound on what people, other tabs and the network do
          None

ASSUME InboxBounds == MaxReads \in Nat /\ MaxMoves \in Nat

\* A notification, and whose it is.
Rows == Persons \X Numbers
Own(p) == {r \in Rows : r[1] = p}

VARIABLES
    server,   \* server: each row, "unwritten", "unread", "read" or "deleted"
    person,   \* who is signed in and may read notifications
    shown,    \* the toolkit's persistent messages: each row "no", "unread" or "read"
    stream,   \* "closed", "connecting", "open" or, given up by the browser, "waiting"
    frames,   \* frames under way on the open connection
    reads,    \* the GET /notifications in flight, oldest first, each with its ReadGuard
    bell,     \* the POST /notifications/read-all in flight
    clear,    \* the DELETE /notifications in flight
    delete,   \* the DELETE /notifications/{id} in flight for each row
    heard,    \* history: rows this person's stream brought
    gone,     \* history: rows this person's stream said were deleted
    putBack,  \* history: rows the toolkit put back after a failed deletion
    behind,   \* history: no read of this connection has been applied yet
    moves

vars == <<server, person, shown, stream, frames, reads, bell, clear, delete, heard, gone, putBack, behind, moves>>
history == <<heard, gone, putBack, behind>>

Init == /\ server = [r \in Rows |-> "unwritten"]
        /\ person = None
        /\ shown = [r \in Rows |-> "no"]
        /\ stream = "closed"
        /\ frames = <<>>
        /\ reads = <<>>
        /\ bell = None /\ clear = None
        /\ delete = [r \in Rows |-> None]
        /\ heard = {} /\ gone = {} /\ putBack = {} /\ behind = TRUE
        /\ moves = 0

Holds(r) == server[r] \in {"unread", "read"}
Shown == {r \in Rows : shown[r] # "no"}
Unread == {r \in Rows : shown[r] = "unread"}

\* A frame for p, if p's stream is open here.
Push(p, frame) == frames' = IF stream = "open" /\ person = p THEN Append(frames, frame) ELSE frames

Frame(kind, rows, all) == [kind |-> kind, rows |-> rows, all |-> all]

Move == moves < MaxMoves /\ moves' = moves + 1
-----------------------------------------------------------------------------
(* The reads and what they remember. *)

\* sync: a read leaves with an empty guard.
NewRead(p, sinceOpen) == [for |-> p, answer |-> None, pushed |-> {}, deleted |-> {},
                       deletedAll |-> FALSE, readAt |-> FALSE, dead |-> FALSE, sinceOpen |-> sinceOpen]

\* Slip: only the newest read hears of a row that was pushed.
NotePushedToNewest(q, rows) ==
    [i \in DOMAIN q |-> [q[i] EXCEPT !.pushed = IF i = Len(q) THEN @ \cup rows ELSE @]]

\* Slip: an emptied inbox is remembered by the rows it showed only.
NoteDeletedByName(q, rows, all) == [i \in DOMAIN q |-> [q[i] EXCEPT !.deleted = @ \cup rows]]

\* noteForReads, for each change a read must not undo.
NotePushed(q, rows) == [i \in DOMAIN q |-> [q[i] EXCEPT !.pushed = @ \cup rows]]
NoteDeleted(q, rows, all) ==
    [i \in DOMAIN q |-> [q[i] EXCEPT !.deleted = @ \cup rows, !.deletedAll = @ \/ all]]
NoteRead(q) == [i \in DOMAIN q |-> [q[i] EXCEPT !.readAt = TRUE]]

\* Slip: the reads of the person who left stay alive.
KilledNone(q) == [i \in DOMAIN q |-> [q[i] EXCEPT !.sinceOpen = FALSE]]

\* readTickets.reset: no read that has left may be applied.
Killed(q) == [i \in DOMAIN q |-> [q[i] EXCEPT !.dead = TRUE, !.sinceOpen = FALSE]]

\* Slip: a read adds and updates rows, and removes none.
AppliedAdding(q) ==
    [r \in Rows |-> IF q.answer[r] = "no" \/ r \in q.deleted \/ (q.deletedAll /\ r \notin q.pushed)
                    THEN shown[r]
                    ELSE IF q.readAt THEN "read" ELSE q.answer[r]]

\* applyRead: what the store shows once the read q is applied; what happened meanwhile wins.
Applied(q) ==
    [r \in Rows |->
        IF q.answer[r] = "no"
        THEN IF r \in q.pushed THEN shown[r] ELSE "no"
        ELSE IF r \in q.deleted \/ (q.deletedAll /\ r \notin q.pushed)
        THEN shown[r]
        ELSE IF q.readAt THEN "read" ELSE q.answer[r]]

ServerReads(i) ==
    /\ reads[i].answer = None
    /\ reads' = [reads EXCEPT ![i].answer =
          [r \in Rows |-> IF r \in Own(reads[i].for) /\ Holds(r) THEN server[r] ELSE "no"]]
    /\ UNCHANGED <<server, person, shown, stream, frames, bell, clear, delete, history, moves>>

\* The read lands: applied unless a fresher one was, or the person has changed since it left.
ReadLands(i) ==
    /\ reads[i].answer # None
    /\ LET q == reads[i]
       IN IF q.dead
          THEN reads' = RemoveAt(reads, i) /\ UNCHANGED <<shown, behind>>
          ELSE /\ shown' = Applied(q)
               /\ behind' = (behind /\ ~q.sinceOpen)
               /\ reads' = RemoveAt([j \in DOMAIN reads |->
                              [reads[j] EXCEPT !.dead = @ \/ j < i]], i)
    /\ UNCHANGED <<server, person, stream, frames, bell, clear, delete, heard, gone, putBack, moves>>

\* It fails: a toast, and the inbox stays as it was.
ReadFails(i) ==
    /\ reads[i].answer = None
    /\ reads' = RemoveAt(reads, i)
    /\ UNCHANGED <<server, person, shown, stream, frames, bell, clear, delete, history, moves>>
-----------------------------------------------------------------------------
(* The stream. *)

\* The person changes (the watch of useInboxLifecycle): the stream closes, the inbox empties, and
\* for somebody a read leaves and a stream connects.
Sign(p) ==
    /\ Move /\ p # person
    /\ person' = p
    /\ shown' = [r \in Rows |-> "no"]
    /\ frames' = <<>>
    /\ IF p = None
       THEN stream' = "closed" /\ reads' = Killed(reads)
       ELSE /\ Len(reads) < MaxReads
            /\ stream' = "connecting" /\ reads' = Append(Killed(reads), NewRead(p, FALSE))
    /\ heard' = {} /\ gone' = {} /\ behind' = TRUE
    /\ UNCHANGED <<server, bell, clear, delete, putBack>>

\* onOpen: whatever was written while the stream was down is read for.
StreamOpens ==
    /\ stream = "connecting" /\ Len(reads) < MaxReads
    /\ stream' = "open"
    /\ reads' = Append(reads, NewRead(person, TRUE))
    /\ UNCHANGED <<server, person, shown, frames, bell, clear, delete, history, moves>>

\* The connection fails: the browser retries it, or closes it and a reopen is scheduled.
StreamFails ==
    /\ Move
    /\ stream \in {"connecting", "open"}
    /\ stream' \in {"connecting", "waiting"} /\ (stream = "connecting" => stream' = "waiting")
    /\ frames' = <<>>
    /\ behind' = TRUE
    /\ reads' = [i \in DOMAIN reads |-> [reads[i] EXCEPT !.sinceOpen = FALSE]]
    /\ UNCHANGED <<server, person, shown, bell, clear, delete, heard, gone, putBack>>

\* scheduleReopen's timer.
Reopen ==
    /\ stream = "waiting"
    /\ stream' = "connecting"
    /\ UNCHANGED <<server, person, shown, frames, reads, bell, clear, delete, history, moves>>

\* receiveCreated
HearCreated(f) ==
    /\ f.kind = "created"
    /\ reads' = NotePushed(reads, f.rows)
    /\ shown' = [r \in Rows |-> IF r \in f.rows THEN "unread" ELSE shown[r]]
    /\ heard' = heard \cup f.rows
    /\ UNCHANGED gone

\* receiveDeleted: the rows the frame names, or everything the inbox holds.
HearDeleted(f) ==
    /\ f.kind = "deleted"
    /\ LET doomed == IF f.all THEN Shown ELSE f.rows
       IN /\ reads' = NoteDeleted(reads, doomed, f.all)
          /\ shown' = [r \in Rows |-> IF r \in doomed THEN "no" ELSE shown[r]]
    /\ gone' = gone \cup f.rows
    /\ UNCHANGED heard

\* receiveRead
HearRead(f) ==
    /\ f.kind = "read"
    /\ reads' = NoteRead(reads)
    /\ shown' = [r \in Rows |-> IF shown[r] = "unread" THEN "read" ELSE shown[r]]
    /\ UNCHANGED <<heard, gone>>

Hear ==
    /\ frames # <<>>
    /\ frames' = Tail(frames)
    /\ HearCreated(Head(frames)) \/ HearDeleted(Head(frames)) \/ HearRead(Head(frames))
    /\ UNCHANGED <<server, person, stream, bell, clear, delete, putBack, behind, moves>>
-----------------------------------------------------------------------------
(* The server, and the owner elsewhere. *)

Write(r) ==
    /\ Move /\ server[r] = "unwritten"
    /\ server' = [server EXCEPT ![r] = "unread"]
    /\ Push(r[1], Frame("created", {r}, FALSE))
    /\ UNCHANGED <<person, shown, stream, reads, bell, clear, delete, history>>

\* Deleted in another tab, or trimmed by the per-user cap.
DeletedElsewhere(r) ==
    /\ Move /\ Holds(r)
    /\ server' = [server EXCEPT ![r] = "deleted"]
    /\ Push(r[1], Frame("deleted", {r}, FALSE))
    /\ UNCHANGED <<person, shown, stream, reads, bell, clear, delete, history>>

\* What the server makes of a call of p's that reaches it.
AllRead(p) == [r \in Rows |-> IF r[1] = p /\ server[r] = "unread" THEN "read" ELSE server[r]]
AllDeleted(p) == [r \in Rows |-> IF r[1] = p /\ Holds(r) THEN "deleted" ELSE server[r]]

\* A call reaches the server or does not, and its answer comes back or does not.
ServerReadsAll ==
    /\ bell # None /\ bell.answer = None
    /\ \E reached \in BOOLEAN, a \in {"ok", "failed"} :
          /\ a = "ok" => reached
          /\ bell' = [bell EXCEPT !.answer = a]
          /\ IF reached THEN server' = AllRead(bell.for) /\ Push(bell.for, Frame("read", {}, FALSE))
                        ELSE UNCHANGED <<server, frames>>
    /\ UNCHANGED <<person, shown, stream, reads, clear, delete, history, moves>>

ServerClears ==
    /\ clear # None /\ clear.answer = None
    /\ \E reached \in BOOLEAN, a \in {"ok", "failed"} :
          /\ a = "ok" => reached
          /\ clear' = [clear EXCEPT !.answer = a]
          /\ IF reached
             THEN /\ server' = AllDeleted(clear.for)
                  /\ Push(clear.for, Frame("deleted", {r \in Own(clear.for) : Holds(r)}, TRUE))
             ELSE UNCHANGED <<server, frames>>
    /\ UNCHANGED <<person, shown, stream, reads, bell, delete, history, moves>>

ServerDeletes(r) ==
    /\ delete[r] # None /\ delete[r].answer = None
    /\ \E reached \in BOOLEAN, a \in {"ok", "failed"} :
          /\ a = "ok" => reached
          /\ delete' = [delete EXCEPT ![r] = [was |-> @.was, answer |-> a]]
          /\ IF reached /\ Holds(r)
             THEN /\ server' = [server EXCEPT ![r] = "deleted"]
                  /\ Push(r[1], Frame("deleted", {r}, FALSE))
             ELSE UNCHANGED <<server, frames>>
    /\ UNCHANGED <<person, shown, stream, reads, bell, clear, history, moves>>
-----------------------------------------------------------------------------
(* The owner, here. *)

\* markAllRead: the bell opens.
OpenBell ==
    /\ Move /\ bell = None /\ person # None /\ Unread # {}
    /\ bell' = [for |-> person, ids |-> Unread, answer |-> None]
    /\ UNCHANGED <<server, person, shown, stream, frames, reads, clear, delete, history>>

\* stampRead: the rows that were unread when it opened, and every read in flight.
BellLands ==
    /\ bell # None /\ bell.answer # None
    /\ IF bell.answer = "ok"
       THEN /\ reads' = NoteRead(reads)
            /\ shown' = [r \in Rows |-> IF r \in bell.ids /\ shown[r] = "unread" THEN "read" ELSE shown[r]]
       ELSE UNCHANGED <<reads, shown>>
    /\ bell' = None
    /\ UNCHANGED <<server, person, stream, frames, clear, delete, history, moves>>

\* dismiss: the row leaves the panel at once.
Dismiss(r) ==
    /\ Move /\ r \in Shown /\ delete[r] = None
    /\ reads' = NoteDeleted(reads, {r}, FALSE)
    /\ shown' = [shown EXCEPT ![r] = "no"]
    /\ delete' = [delete EXCEPT ![r] = [was |-> shown[r], answer |-> None]]
    /\ UNCHANGED <<server, person, stream, frames, bell, clear, history>>

\* The toolkit puts the row back if the deletion failed.
DismissLands(r) ==
    /\ delete[r] # None /\ delete[r].answer # None
    /\ IF delete[r].answer = "failed"
       THEN /\ shown' = [shown EXCEPT ![r] = delete[r].was]
            /\ putBack' = putBack \cup {r}
       ELSE UNCHANGED <<shown, putBack>>
    /\ delete' = [delete EXCEPT ![r] = None]
    /\ UNCHANGED <<server, person, stream, frames, reads, bell, clear, heard, gone, behind, moves>>

\* dismissAll
ClearAll ==
    /\ Move /\ clear = None /\ person # None /\ Shown # {}
    /\ clear' = [for |-> person, ids |-> Shown, answer |-> None]
    /\ UNCHANGED <<server, person, shown, stream, frames, reads, bell, delete, history>>

\* The rows that were in the panel when it was pressed leave, once the server has agreed.
ClearLands ==
    /\ clear # None /\ clear.answer # None
    /\ IF clear.answer = "ok"
       THEN /\ reads' = NoteDeleted(reads, clear.ids, FALSE)
            /\ shown' = [r \in Rows |-> IF r \in clear.ids THEN "no" ELSE shown[r]]
       ELSE UNCHANGED <<reads, shown>>
    /\ clear' = None
    /\ UNCHANGED <<server, person, stream, frames, bell, delete, history, moves>>

Next == \/ \E p \in Persons \cup {None} : Sign(p)
        \/ StreamOpens \/ StreamFails \/ Reopen \/ Hear
        \/ \E i \in 1..Len(reads) : ServerReads(i) \/ ReadLands(i) \/ ReadFails(i)
        \/ \E r \in Rows : \/ Write(r) \/ DeletedElsewhere(r) \/ ServerDeletes(r)
                           \/ Dismiss(r) \/ DismissLands(r)
        \/ ServerReadsAll \/ ServerClears
        \/ OpenBell \/ BellLands \/ ClearAll \/ ClearLands

Spec == Init /\ [][Next]_vars
-----------------------------------------------------------------------------
Answers == [Rows -> {"no", "unread", "read"}]

Read == [for : Persons, answer : Answers \cup {None}, pushed : SUBSET Rows,
         deleted : SUBSET Rows, deletedAll : BOOLEAN, readAt : BOOLEAN, dead : BOOLEAN,
         sinceOpen : BOOLEAN]
Call == [for : Persons, ids : SUBSET Rows, answer : {None, "ok", "failed"}]
Deletion == [was : {"unread", "read"}, answer : {None, "ok", "failed"}]

ASSUME NoneIsNothing == None \notin {"ok", "failed"} /\ None \notin Deletion

TypeOK ==
    /\ server \in [Rows -> {"unwritten", "unread", "read", "deleted"}]
    /\ person \in Persons \cup {None}
    /\ shown \in Answers
    /\ stream \in {"closed", "connecting", "open", "waiting"}
    /\ \A i \in 1..Len(frames) : /\ frames[i].kind \in {"created", "deleted", "read"}
                                 /\ frames[i].rows \subseteq Own(person)
    /\ \A i \in 1..Len(reads) : reads[i] \in Read
    /\ bell \in Call \cup {None} /\ clear \in Call \cup {None}
    /\ delete \in [Rows -> Deletion \cup {None}]
    /\ heard \subseteq Own(person) /\ gone \subseteq Own(person) /\ putBack \subseteq Rows
    /\ behind \in BOOLEAN /\ moves \in 0..MaxMoves

\* Nobody sees the previous person's notifications, whatever was still in flight when they left; a
\* row the toolkit puts back after a failed deletion is the one thing the store does not filter
\* (store.ts:343-350).
OnlyTheirOwn == Shown \ putBack \subseteq Own(person)

\* A row the stream pushed is not dropped by a read answered before it was written, even by the
\* older of two overlapping reads (store.ts:257-273).
NothingHeardIsLost == \A r \in heard : Holds(r) /\ delete[r] = None => r \in Shown

\* A row the stream said is gone is not brought back by a read answered before it went.
NothingGoneComesBack == gone \cap Shown \subseteq putBack

\* Once a read of the open connection has been applied and every frame has been heard, the bell
\* shows exactly the server's inbox, and nothing as unread that was read.
InStep ==
    (/\ stream = "open" /\ ~behind /\ frames = <<>> /\ clear = None
     /\ \A r \in Rows : delete[r] = None) =>
        \A r \in Own(person) \ putBack :
            /\ r \in Shown <=> Holds(r)
            /\ server[r] = "read" => shown[r] # "unread"

\* Opening the bell clears the badge of the notifications that were unread when it opened, and of no
\* other: with nothing left on its way, what shows as read was read (store.ts:398-400).
ReadMeansRead ==
    reads = <<>> /\ bell = None /\ frames = <<>> =>
        \A r \in Shown \ putBack : shown[r] = "read" => server[r] # "unread"
=============================================================================
