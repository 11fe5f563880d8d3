------------------------------- MODULE Client -------------------------------
(***************************************************************************)
(* The browser client (app/static): one page whose handlers run to their   *)
(* next await, and requests that are answered in any order.  Everything is *)
(* written into one page, so every answer has to ask whether the workspace *)
(* it is for is still open.                                                *)
(*                                                                         *)
(* What a request gets is the server's state at some moment before the     *)
(* answer, which others and the worker change: any answer may come, in any *)
(* order, also a failure.  The files of one upload are sent one after the  *)
(* other to the workspace open by then, like uploads of their own.  The    *)
(* gallery's list and the sign-in form are left out, and changes of the    *)
(* hash that wait together are handled as one.                             *)
(***************************************************************************)
EXTENDS Naturals, Bags

CONSTANTS
    Ws,        \* workspaces
    NoWs,      \* "" and null: the gallery, no workspace
    MaxReqs,   \* bound: requests in flight at the same time
    MaxPolls   \* bound: polls armed at the same time

ASSUME ClientAssumption == NoWs \notin Ws /\ MaxReqs \in Nat /\ MaxPolls \in Nat

VARIABLES
    hash,         \* location.hash: the workspace of the route
    changed,      \* a hashchange event is waiting
    workspaceId,  \* the open workspace
    currentWs,    \* its detail
    page,         \* whose name is painted, whose documents, what the thread shows
    poll,         \* document polls that are armed, and whether pollTimer is one
    reqs,         \* the bag of requests in flight
    busy,         \* a question is being answered
    toast         \* a failed refresh was reported and nothing painted since

vars == <<hash, changed, workspaceId, currentWs, page, poll, reqs, busy,
          toast>>

-----------------------------------------------------------------------------
Requests ==
    [kind : {"open", "refresh", "history", "ask", "upload", "remove", "clear", "delete"},
     ws : Ws]

Sent(kind, w) == [kind |-> kind, ws |-> w]

Room(k) == BagCardinality(reqs) + k <= MaxReqs

With(rs, q) == rs (+) SetToBag({q})

Without(q) == reqs (-) SetToBag({q})

InFlight == BagToSet(reqs)

DocStates == {"settled", "working"}

NoList == [ws |-> NoWs, docs |-> "settled"]

NoPoll == [armed |-> 0, last |-> FALSE]

(* clearTimeout(pollTimer): pollTimer is the timer armed last, unless that *)
(* one has fired; setTimeout forgets the one before.                       *)
Cleared(p) ==
    IF p.last THEN [armed |-> p.armed - 1, last |-> FALSE] ELSE p

Armed(p) == [armed |-> p.armed + 1, last |-> TRUE]

(* Timers of one delay fire in the order they were armed. *)
Fired_StillHandle(p) == [armed |-> p.armed - 1, last |-> p.last]
Fired(p) == [armed |-> p.armed - 1, last |-> p.last /\ p.armed > 1]

(* WORKING: poll again while a document is on its way. *)
Rearmed_WhenSettled(p, docs) == IF docs = "settled" THEN Armed(p) ELSE p
Rearmed(p, docs) == IF docs = "working" THEN Armed(p) ELSE p

(* Is the answer still for the open workspace? *)
StillOpen_Always(w) == TRUE
StillOpen(w) == w = workspaceId

(* The question form, once a question of w is answered. *)
Busy_Elsewhere(w) == w # workspaceId
Busy(w) == FALSE

(* emptyChat names the workspace of currentWs. *)
Empty(w) == {[ws |-> w, what |-> "empty"]}

NotEmpty(thread) == {e \in thread : e.what # "empty"}

(* openWorkspace clears the page when it shows another workspace. *)
PageFor(id) ==
    IF id # workspaceId THEN [title |-> NoWs, list |-> NoList, thread |-> {}] ELSE page

Init ==
    /\ hash = NoWs
    /\ changed = FALSE
    /\ workspaceId = NoWs
    /\ currentWs = NoWs
    /\ page = [title |-> NoWs, list |-> NoList, thread |-> {}]
    /\ poll = NoPoll
    /\ reqs = EmptyBag
    /\ busy = FALSE
    /\ toast = FALSE

-----------------------------------------------------------------------------
(* Routing. *)

GoTo(w) ==
    /\ hash' = w
    /\ changed' = (changed \/ hash # w)

(* A link, the Back button, a reload of the hash. *)
Navigate(w) ==
    /\ w # hash
    /\ GoTo(w)
    /\ UNCHANGED <<workspaceId, currentWs, page, poll, reqs, busy, toast>>

(* route *)
OpenHome ==
    /\ changed
    /\ hash = NoWs
    /\ changed' = FALSE
    /\ poll' = Cleared(poll)
    /\ workspaceId' = NoWs
    /\ currentWs' = NoWs
    /\ UNCHANGED <<hash, page, reqs, busy, toast>>

OpenWorkspace ==
    /\ changed
    /\ hash \in Ws
    /\ Room(1)
    /\ changed' = FALSE
    /\ currentWs' = IF hash # workspaceId THEN NoWs ELSE currentWs
    /\ page' = PageFor(hash)
    /\ workspaceId' = hash
    /\ reqs' = With(reqs, Sent("open", hash))
    /\ UNCHANGED <<hash, poll, busy, toast>>

-----------------------------------------------------------------------------
(* What the page does with an answer. *)

(* A request fails, whether the server did its part or not: back to the    *)
(* gallery when a workspace does not open, else a message.  A failed       *)
(* refresh is not repeated.                                                *)
Failed(q) ==
    /\ q.kind \notin {"ask", "upload"}
    /\ reqs' = Without(q)
    /\ IF q.kind = "open" THEN GoTo(NoWs) ELSE UNCHANGED <<hash, changed>>
    /\ toast' = (toast \/ q.kind = "refresh")
    /\ UNCHANGED <<workspaceId, currentWs, page, poll, busy>>

(* openWorkspace, after its await: the detail is kept before the page asks *)
(* whether it is still wanted; then refresh and loadHistory start.         *)
Opened(q) ==
    /\ q.kind = "open"
    /\ currentWs' = q.ws
    /\ IF StillOpen(q.ws) THEN
         /\ Room(1)
         /\ page' = [page EXCEPT !.title = q.ws]
         /\ poll' = Cleared(poll)
         /\ reqs' = With(With(Without(q), Sent("refresh", q.ws)), Sent("history", q.ws))
       ELSE
         /\ reqs' = Without(q)
         /\ UNCHANGED <<page, poll>>
    /\ UNCHANGED <<hash, changed, workspaceId, busy, toast>>

(* refresh starts: by its timer, *)
Poll ==
    /\ poll.armed > 0
    /\ Room(1)
    /\ poll' = Cleared(Fired(poll))
    /\ reqs' = IF workspaceId = NoWs THEN reqs ELSE With(reqs, Sent("refresh", workspaceId))
    /\ UNCHANGED <<hash, changed, workspaceId, currentWs, page, busy, toast>>

(* and paints what it gets: a document being worked on, or none. *)
Refreshed(q, docs) ==
    /\ q.kind = "refresh"
    /\ poll.armed < MaxPolls
    /\ reqs' = Without(q)
    /\ IF StillOpen(q.ws) THEN
         /\ currentWs' = q.ws
         /\ page' = [title |-> q.ws, list |-> [ws |-> q.ws, docs |-> docs],
                     thread |-> IF NotEmpty(page.thread) = page.thread THEN page.thread
                                ELSE Empty(q.ws)]
         /\ poll' = Rearmed(poll, docs)
         /\ toast' = FALSE
       ELSE UNCHANGED <<currentWs, page, poll, toast>>
    /\ UNCHANGED <<hash, changed, workspaceId, busy>>

(* loadHistory replaces the thread, by messages or the empty state. *)
HistoryLoaded(q, some) ==
    /\ q.kind = "history"
    /\ reqs' = Without(q)
    /\ page' =
         IF ~StillOpen(q.ws) THEN page
         ELSE [page EXCEPT !.thread =
                 IF some THEN {[ws |-> q.ws, what |-> "history"]}
                 ELSE Empty(currentWs)]
    /\ UNCHANGED <<hash, changed, workspaceId, currentWs, poll, busy, toast>>

(* A question is painted, and one at a time is asked. *)
Ask ==
    /\ workspaceId # NoWs
    /\ ~busy
    /\ Room(1)
    /\ busy' = TRUE
    /\ page' = [page EXCEPT !.thread =
                  NotEmpty(page.thread) \cup {[ws |-> workspaceId, what |-> "asked"]}]
    /\ reqs' = With(reqs, Sent("ask", workspaceId))
    /\ UNCHANGED <<hash, changed, workspaceId, currentWs, poll, toast>>

(* Its answer or the error goes where the question was painted, which may  *)
(* have left the page.                                                     *)
Replied(q) ==
    LET asked == [ws |-> q.ws, what |-> "asked"] IN
    /\ q.kind = "ask"
    /\ reqs' = Without(q)
    /\ busy' = Busy(q.ws)
    /\ page' = IF asked \in page.thread
               THEN [page EXCEPT !.thread = (page.thread \ {asked})
                                    \cup {[ws |-> q.ws, what |-> "answered"]}]
               ELSE page
    /\ UNCHANGED <<hash, changed, workspaceId, currentWs, poll, toast>>

(* upload *)
Upload ==
    /\ workspaceId # NoWs
    /\ Room(1)
    /\ reqs' = With(reqs, Sent("upload", workspaceId))
    /\ UNCHANGED <<hash, changed, workspaceId, currentWs, page, poll, busy, toast>>

(* The delete button of a document in the list, confirmed. *)
RemoveDoc ==
    /\ page.list.ws # NoWs
    /\ Room(1)
    /\ reqs' = With(reqs, Sent("remove", page.list.ws))
    /\ UNCHANGED <<hash, changed, workspaceId, currentWs, page, poll, busy, toast>>

(* After an upload, accepted or not, and a removal that worked: refresh. *)
Uploaded(q) ==
    /\ q.kind \in {"upload", "remove"}
    /\ poll' = Cleared(poll)
    /\ reqs' = IF workspaceId = NoWs THEN Without(q)
               ELSE With(Without(q), Sent("refresh", workspaceId))
    /\ UNCHANGED <<hash, changed, workspaceId, currentWs, page, busy, toast>>

(* The clear button, once its dialog is confirmed: it is the workspace     *)
(* open by then that is cleared,                                           *)
Clear ==
    /\ workspaceId # NoWs
    /\ Room(1)
    /\ reqs' = With(reqs, Sent("clear", workspaceId))
    /\ UNCHANGED <<hash, changed, workspaceId, currentWs, page, poll, busy, toast>>

(* and empty the thread whatever it shows. *)
ClearedHistory(q) ==
    /\ q.kind = "clear"
    /\ reqs' = Without(q)
    /\ page' = [page EXCEPT !.thread = Empty(currentWs)]
    /\ UNCHANGED <<hash, changed, workspaceId, currentWs, poll, busy, toast>>

(* The delete button of the workspace's page, confirmed. *)
DeleteWorkspace ==
    /\ currentWs # NoWs
    /\ Room(1)
    /\ reqs' = With(reqs, Sent("delete", currentWs))
    /\ UNCHANGED <<hash, changed, workspaceId, currentWs, page, poll, busy,
                   toast>>

WorkspaceDeleted(q) ==
    /\ q.kind = "delete"
    /\ reqs' = Without(q)
    /\ GoTo(NoWs)
    /\ UNCHANGED <<workspaceId, currentWs, page, poll, busy, toast>>

Answer(q) ==
    \/ Opened(q) \/ Replied(q) \/ Uploaded(q) \/ ClearedHistory(q) \/ WorkspaceDeleted(q)
    \/ \E docs \in DocStates : Refreshed(q, docs)
    \/ \E some \in BOOLEAN : HistoryLoaded(q, some)
    \/ Failed(q)

Next ==
    \/ \E w \in Ws \cup {NoWs} : Navigate(w)
    \/ OpenHome \/ OpenWorkspace \/ Poll
    \/ \E q \in InFlight : Answer(q)
    \/ Ask \/ Upload \/ RemoveDoc \/ Clear \/ DeleteWorkspace

Spec == Init /\ [][Next]_vars

-----------------------------------------------------------------------------
(* Properties. *)

(* Type invariant of the page's state; pollTimer is an armed timer or none. *)
TypeOK ==
    /\ {hash, workspaceId, currentWs} \subseteq Ws \cup {NoWs}
    /\ {changed, busy, toast} \subseteq BOOLEAN
    /\ page \in [title : Ws \cup {NoWs}, list : [ws : Ws \cup {NoWs}, docs : DocStates],
                 thread : SUBSET [ws : Ws \cup {NoWs},
                                  what : {"empty", "history", "asked", "answered"}]]
    /\ poll.armed \in Nat /\ (poll.last => poll.armed > 0)
    /\ InFlight \subseteq Requests

(* "Do not paint over it", "do not mix conversations" (refresh,            *)
(* loadHistory): however late an answer is, the name, the documents and    *)
(* the conversation on the page are those of the open workspace.           *)
PaintedIsOpen ==
    workspaceId # NoWs =>
        /\ page.title \in {NoWs, workspaceId}
        /\ page.list.ws \in {NoWs, workspaceId}
        /\ \A e \in NotEmpty(page.thread) : e.ws = workspaceId

Refreshing == \E q \in InFlight : q.kind = "refresh" /\ q.ws = workspaceId

(* "Poll only while something is actually in flight" (refresh), and then   *)
(* do: a document shown as being worked on is asked about again, unless    *)
(* the user was told that asking failed.                                   *)
KeepsPolling ==
    workspaceId # NoWs /\ page.list = [ws |-> workspaceId, docs |-> "working"] =>
        poll.armed > 0 \/ Refreshing \/ toast

(* A question on the page that waits for its answer has one on its way,    *)
(* and the question form is locked only while there is one: wherever the   *)
(* user goes meanwhile, it is freed.                                       *)
AskedIsAnswered ==
    /\ \A e \in page.thread : e.what = "asked" =>
         \E q \in InFlight : q.kind = "ask" /\ q.ws = e.ws
    /\ busy => \E q \in InFlight : q.kind = "ask"

-----------------------------------------------------------------------------
(* What the repository says of the client and the code does not do.        *)

(* currentWs is "its detail", of the open workspace (core.js). *)
CurrentIsOpen == currentWs \in {NoWs, workspaceId}

=============================================================================
